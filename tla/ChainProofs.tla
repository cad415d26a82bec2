----------------------------- MODULE ChainProofs -----------------------------
(***************************************************************************)
(* The chain and the two that follow it.  The contracts: for any players,  *)
(* delay, rates, fees and limits a wallet's code changes only after an     *)
(* announcement, a trade never pays the trader, and escrow covers what is  *)
(* listed.  The listener: for any chain and failures it skips no trade.    *)
(* The tax history: a cost basis whose updates did not meet counts the     *)
(* stored events exactly.                                                  *)
(* The portal: for any accounts and any number of trades the event of a    *)
(* trade names the account that made it.                                   *)
(***************************************************************************)
EXTENDS Contracts, TokenShopListener, PlayerPortal, TaxHistory,
        FiniteSetTheorems, WellFoundedInduction, TLAPS

\* The kinds of records the wallet goes through.
WalletType ==
    [owner : Player \union {Address0}, implementation : Implementation \union {Address0},
     pending : Implementation \union {Address0}, readyAt : Nat]

\* What is pending may be installed no earlier than a delay after it came.
AnnouncedInv ==
    /\ now \in Nat /\ pendingSince \in 0..now
    /\ genesis \in WalletType
    /\ genesis.pending # Address0 => genesis.readyAt >= pendingSince + UpgradeDelay

\* What is edited in a record of that type.
LEMMA PendingEdited ==
    ASSUME genesis \in WalletType, NEW p \in Implementation \union {Address0}, NEW t \in Nat,
           genesis' = [genesis EXCEPT !.pending = p, !.readyAt = t]
    PROVE  /\ genesis' \in WalletType
           /\ genesis'.pending = p /\ genesis'.readyAt = t
           /\ genesis'.implementation = genesis.implementation
  BY Zenon DEF WalletType

LEMMA CodeEdited ==
    ASSUME genesis \in WalletType, NEW p \in Implementation \union {Address0}, NEW t \in Nat,
           NEW code \in Implementation \union {Address0},
           genesis' = [genesis EXCEPT !.implementation = code, !.pending = p, !.readyAt = t]
    PROVE  /\ genesis' \in WalletType
           /\ genesis'.pending = p /\ genesis'.readyAt = t
           /\ genesis'.implementation = code
  BY Zenon DEF WalletType

LEMMA AnnouncedInit == ChainInit => AnnouncedInv
  BY GenesisWalletsAssumption DEF ChainInit, InitWallet, AnnouncedInv, WalletType

LEMMA WalletInv ==
    ASSUME AnnouncedInv, WalletTransaction
    PROVE  AnnouncedInv'
<1>. USE GenesisWalletsAssumption DEF AnnouncedInv
<1>1. PICK u \in Player :
        \/ CreateWallet(u) \/ CancelUpgrade(u) \/ WithdrawTRI(u, 1)
        \/ \E impl \in Implementation : ProposeUpgrade(u, impl) \/ Upgrade(u, impl)
        \/ \E to \in Player : TransferOwnership(u, to)
  BY DEF WalletTransaction
<1>2. CASE CreateWallet(u)
  BY <1>2 DEF CreateWallet, WalletType
<1>3. CASE CancelUpgrade(u)
  <2>1. genesis' = [genesis EXCEPT !.pending = Address0, !.readyAt = 0]
    BY <1>3 DEF CancelUpgrade
  <2>2. genesis' \in WalletType /\ genesis'.pending = Address0
    BY <2>1, PendingEdited
  <2>. QED
    BY <1>3, <2>2 DEF CancelUpgrade
<1>4. CASE WithdrawTRI(u, 1)
  BY <1>4 DEF WithdrawTRI, walletVars
<1>5. ASSUME NEW impl \in Implementation, ProposeUpgrade(u, impl)
      PROVE  AnnouncedInv'
  <2>1. pendingSince' \in 0..now /\ now' = now
    BY <1>5 DEF ProposeUpgrade
  <2>2. genesis' = [genesis EXCEPT !.pending = impl, !.readyAt = now + UpgradeDelay]
    BY <1>5 DEF ProposeUpgrade
  <2>3. now + UpgradeDelay \in Nat
    OBVIOUS
  <2>4. ASSUME NEW a \in 0..now PROVE a + UpgradeDelay <= now + UpgradeDelay
    OBVIOUS
  <2>5. genesis' \in WalletType /\ genesis'.readyAt = now + UpgradeDelay
    BY <2>2, <2>3, PendingEdited
  <2>. QED
    BY <2>1, <2>4, <2>5
<1>6. ASSUME NEW impl \in Implementation, Upgrade(u, impl)
      PROVE  AnnouncedInv'
  <2>1. genesis' = [genesis EXCEPT !.implementation = impl, !.pending = Address0, !.readyAt = 0]
    BY <1>6 DEF Upgrade
  <2>2. genesis' \in WalletType /\ genesis'.pending = Address0
    BY <2>1, CodeEdited
  <2>. QED
    BY <1>6, <2>2 DEF Upgrade
<1>7. ASSUME NEW to \in Player, TransferOwnership(u, to)
      PROVE  AnnouncedInv'
  BY <1>7 DEF TransferOwnership, WalletType
<1>. QED
  BY <1>1, <1>2, <1>3, <1>4, <1>5, <1>6, <1>7

\* The transactions of the other contracts leave the wallet alone.
LEMMA WalletSteps ==
    ASSUME [ChainNext]_chainVars
    PROVE  WalletTransaction \/ Tick \/ UNCHANGED walletVars
<1>1. CASE Transaction
  BY <1>1 DEF Transaction, Minting, TokenTransfer, Governance
<1>2. CASE UNCHANGED chainVars
  BY <1>2 DEF chainVars
<1>. QED
  BY <1>1, <1>2 DEF ChainNext

LEMMA AnnouncedNext == AnnouncedInv /\ [ChainNext]_chainVars => AnnouncedInv'
<1>. SUFFICES ASSUME AnnouncedInv, [ChainNext]_chainVars
              PROVE  AnnouncedInv'
  OBVIOUS
<1>1. CASE Tick
  BY <1>1 DEF Tick, AnnouncedInv
<1>2. CASE UNCHANGED walletVars
  BY <1>2 DEF walletVars, AnnouncedInv
<1>. QED
  BY <1>1, <1>2, WalletInv, WalletSteps

\* Only upgradeToAndCall changes the code of a wallet that is deployed.
LEMMA UpgradeSteps ==
    ASSUME AnnouncedInv, [ChainNext]_chainVars,
           genesis.owner # Address0, genesis'.implementation # genesis.implementation
    PROVE  /\ genesis'.implementation = genesis.pending
           /\ now - pendingSince >= UpgradeDelay
           /\ genesis'.pending = Address0
<1>1. WalletTransaction
  BY WalletSteps DEF Tick, walletVars
<1>. genesis \in WalletType /\ now \in Nat
  BY DEF AnnouncedInv
<1>2. ASSUME NEW u \in Player, CreateWallet(u) \/ CancelUpgrade(u) \/ WithdrawTRI(u, 1)
      PROVE  FALSE
  <2>1. CASE CancelUpgrade(u)
    BY <2>1, PendingEdited DEF CancelUpgrade
  <2>. QED
    BY <1>2, <2>1 DEF CreateWallet, WithdrawTRI, walletVars
<1>3. ASSUME NEW u \in Player, NEW impl \in Implementation, ProposeUpgrade(u, impl)
      PROVE  FALSE
  <2>1. genesis' = [genesis EXCEPT !.pending = impl, !.readyAt = now + UpgradeDelay]
    BY <1>3 DEF ProposeUpgrade
  <2>2. now + UpgradeDelay \in Nat
    BY GenesisWalletsAssumption
  <2>. QED
    BY <2>1, <2>2, PendingEdited
<1>4. ASSUME NEW u \in Player, NEW to \in Player, TransferOwnership(u, to)
      PROVE  FALSE
  BY <1>4 DEF TransferOwnership, WalletType
<1>5. PICK u \in Player, impl \in Implementation : Upgrade(u, impl)
  BY <1>1, <1>2, <1>3, <1>4 DEF WalletTransaction
<1>6. genesis.pending = impl /\ impl # Address0 /\ now >= genesis.readyAt
      /\ genesis' = [genesis EXCEPT !.implementation = impl, !.pending = Address0, !.readyAt = 0]
  BY <1>5, GenesisWalletsAssumption DEF Upgrade
<1>7. genesis'.implementation = impl /\ genesis'.pending = Address0
  BY <1>6, CodeEdited
<1>8. now - pendingSince >= UpgradeDelay
  <2>1. genesis.readyAt >= pendingSince + UpgradeDelay /\ genesis.readyAt \in Nat
        /\ pendingSince \in Nat
    BY <1>6 DEF AnnouncedInv, WalletType
  <2>. QED
    BY <1>6, <2>1, GenesisWalletsAssumption
<1>. QED
  BY <1>6, <1>7, <1>8

(***************************************************************************)
(* New code of a player's wallet was pending, unchanged, for the whole     *)
(* delay before it was installed, whoever owned the wallet meanwhile and   *)
(* whatever else happened on the chain.                                    *)
(***************************************************************************)
THEOREM CodeChangesWereAnnounced == ChainSpec => UpgradesWereAnnounced
<1>1. AnnouncedInv /\ [ChainNext]_chainVars =>
        [(genesis.owner # Address0 /\ genesis'.implementation # genesis.implementation)
         => /\ genesis'.implementation = genesis.pending
            /\ now - pendingSince >= UpgradeDelay
            /\ genesis'.pending = Address0]_<<token, walletVars>>
  BY UpgradeSteps
<1>. QED
  BY <1>1, AnnouncedInit, AnnouncedNext, PTL DEF ChainSpec, UpgradesWereAnnounced
-----------------------------------------------------------------------------
(***************************************************************************)
(* Arithmetic of the contracts: Solidity's division loses what is left.    *)
(***************************************************************************)
LEMMA DivisionLoses ==
    ASSUME NEW a \in Nat, NEW b \in Nat \ {0}
    PROVE  /\ a \div b \in Nat
           /\ (a \div b) * b <= a
  BY Z3

LEMMA FeeLowers ==
    ASSUME NEW a \in Nat, NEW f \in 0..1000
    PROVE  (a * (10000 - f)) \div 10000 \in 0..a
  OBVIOUS

LEMMA ProductsGrow ==
    ASSUME NEW a \in Nat, NEW b \in Nat, NEW c \in Nat, a <= b
    PROVE  a * c <= b * c /\ c * a <= c * b
  OBVIOUS

Pocket == Player \union {"shop"}      \* who holds assets

LEMMA AssetMoved ==
    ASSUME NEW f \in [Pocket -> Int], NEW from \in Pocket, NEW to \in Pocket, NEW a \in Int
    PROVE  /\ Moved(f, from, to, a) \in [Pocket -> Int]
           /\ from # to => /\ Moved(f, from, to, a)[from] = f[from] - a
                           /\ Moved(f, from, to, a)[to] = f[to] + a
  BY DEF Moved

LEMMA TriMoved ==
    ASSUME NEW f \in [Holder -> Int], NEW from \in Holder, NEW to \in Holder, NEW a \in Int
    PROVE  Moved(f, from, to, a) \in [Holder -> Int]
  BY DEF Moved

LEMMA TriPlus ==
    ASSUME NEW f \in [Holder -> Int], NEW to \in Holder, NEW a \in Int
    PROVE  /\ Plus(f, to, a) \in [Holder -> Int]
           /\ Plus(f, to, a)[to] = f[to] + a
           /\ \A h \in Holder \ {to} : Plus(f, to, a)[h] = f[h]
  BY DEF Plus
-----------------------------------------------------------------------------
(***************************************************************************)
(* What the shop and the token keep: whole balances, and settings within   *)
(* the bounds their setters check.  ListingsSound is what a sale on the    *)
(* marketplace moves between the same balances.                            *)
(***************************************************************************)
ShopRecord(Flag, Flags, Rate, Bps, Most) ==
    [paused : Flag, supported : Flags, scale : Rate, buyRate : Rate, sellRate : Rate,
     feeBps : Bps, maxEthIn : Most, maxGenIn : Most, taxProcessor : Flag, operator : Flag]

ShopType == ShopRecord(BOOLEAN, [Asset -> BOOLEAN], [Asset -> Nat], 0..1000, Nat)

Listing == [seller : Player, item : Item, amount : Int, pricePerUnit : Nat]

ListingsSound == \A l \in DOMAIN listings : listings[l] \in Listing

SharesSound == shares[1] \in Nat /\ shares[2] \in Nat /\ shares[3] \in Nat

BalanceInv ==
    /\ tri \in [Holder -> Int]
    /\ money \in [Asset -> [Pocket -> Int]]
    /\ settings \in ShopType
    /\ ListingsSound
    /\ SharesSound

LEMMA BalanceInit == ChainInit => BalanceInv
<1>. SUFFICES ASSUME ChainInit
              PROVE  BalanceInv
  OBVIOUS
<1>1. PICK pair \in Rates, added \in {{"eth"}, Asset} : InitShop(pair, added, Funds)
  BY DEF ChainInit
<1>2. money \in [Asset -> [Pocket -> Int]]
  BY <1>1, ContractsAssumption DEF InitShop, Pocket
<1>3. settings \in ShopType
  BY <1>1, TokenShopContractAssumption DEF InitShop, ShopType, ShopRecord, Asset
<1>4. tri \in [Holder -> Int]
  BY TriTokenAssumption DEF ChainInit, InitToken
<1>5. ListingsSound /\ SharesSound
  BY DEF ChainInit, InitMarket, ListingsSound, SharesSound
<1>. QED
  BY <1>2, <1>3, <1>4, <1>5 DEF BalanceInv

\* What a buyer of TRI gets for an amount of an asset.
LEMMA BoughtType ==
    ASSUME BalanceInv, NEW asset \in Asset, NEW amount \in Nat
    PROVE  /\ QuoteBuy(asset, amount) \in Nat
           /\ QuoteBuy(asset, amount) * One <= amount * settings.scale[asset] * settings.buyRate[asset]
           /\ ApplyFee(QuoteBuy(asset, amount)) \in 0..QuoteBuy(asset, amount)
<1> DEFINE paid == amount * settings.scale[asset] * settings.buyRate[asset]
<1>1. /\ settings.scale[asset] \in Nat /\ settings.buyRate[asset] \in Nat /\ settings.feeBps \in 0..1000
      /\ One \in Nat \ {0}
  BY TokenShopContractAssumption DEF BalanceInv, ShopType, ShopRecord
<1>2. amount * settings.scale[asset] \in Nat
  BY <1>1
<1>3. paid \in Nat
  BY <1>1, <1>2
<1>4. QuoteBuy(asset, amount) = paid \div One
  BY DEF QuoteBuy, To18
<1>. HIDE DEF paid
<1>5. QuoteBuy(asset, amount) \in Nat /\ QuoteBuy(asset, amount) * One <= paid
  BY <1>1, <1>3, <1>4, DivisionLoses
<1>6. ASSUME NEW gross \in Nat
      PROVE  ApplyFee(gross) \in 0..gross
  BY <1>1, FeeLowers DEF ApplyFee, BPS
<1>. QED
  BY <1>5, <1>6 DEF paid

\* What a seller of TRI gets, where the shop buys no dearer than it sells.
LEMMA SoldType ==
    ASSUME BalanceInv, NEW asset \in Asset, NEW genIn \in Nat,
           settings.scale[asset] # 0, settings.sellRate[asset] # 0
    PROVE  /\ NetOut(asset, QuoteSell(asset, genIn)) \in Nat
           /\ NetOut(asset, QuoteSell(asset, genIn)) * settings.scale[asset] * settings.sellRate[asset]
                <= genIn * One
<1> DEFINE scale == settings.scale[asset]
           rate == settings.sellRate[asset]
           full == (genIn * One) \div rate
           gross == QuoteSell(asset, genIn)
           net == NetOut(asset, gross)
<1>1. /\ scale \in Nat \ {0} /\ rate \in Nat \ {0} /\ settings.feeBps \in 0..1000
      /\ One \in Nat \ {0}
  BY TokenShopContractAssumption DEF BalanceInv, ShopType, ShopRecord
<1>2. genIn * One \in Nat
  BY <1>1
<1>3. full \in Nat /\ full * rate <= genIn * One
  BY <1>1, <1>2, DivisionLoses
<1>4. gross = full \div scale
  BY DEF QuoteSell, From18
<1>. HIDE DEF full
<1>5. gross \in Nat /\ gross * scale <= full
  BY <1>1, <1>3, <1>4, DivisionLoses
<1>. HIDE DEF gross
<1>6. net \in 0..gross
  <2>1. CASE asset = "eth"
    BY <1>1, <1>5, <2>1, FeeLowers DEF NetOut, ApplyFee, BPS
  <2>2. CASE asset # "eth"
    <3> DEFINE gross18 == gross * scale
               kept == ApplyFee(gross18)
    <3>1. gross18 \in Nat
      BY <1>1, <1>5
    <3>2. kept \in 0..gross18
      <4>. HIDE DEF gross18
      <4>. QED  BY <1>1, <3>1, FeeLowers DEF ApplyFee, BPS
    <3>3. net = kept \div scale
      BY <2>2 DEF NetOut, To18, From18
    <3>. HIDE DEF kept
    <3>4. net \in Nat /\ net * scale <= kept
      BY <1>1, <3>2, <3>3, DivisionLoses, <3>1
    <3>5. net * scale <= gross * scale
      BY <1>1, <1>5, <3>2, <3>4, <3>1
    <3>. HIDE DEF net, scale
    <3>6. net <= gross
      BY <1>1, <1>5, <3>4, <3>5
    <3>. QED  BY <3>4, <3>6, <1>5
  <2>. QED  BY <2>1, <2>2
<1>. HIDE DEF net, scale, rate
<1>7. net * scale \in Nat /\ net * scale <= full
  <2>1. net * scale <= gross * scale
    BY <1>1, <1>5, <1>6, ProductsGrow
  <2>. QED  BY <1>1, <1>3, <1>5, <1>6, <2>1
<1>8. net * scale * rate <= full * rate
  BY <1>1, <1>3, <1>7, ProductsGrow
<1>9. net * scale * rate <= genIn * One
  BY <1>1, <1>2, <1>3, <1>7, <1>8
<1>. QED
  BY <1>6, <1>9, <1>5 DEF net, scale, rate, gross
-----------------------------------------------------------------------------
\* What a trade does to the balances of its assets and of TRI.
LEMMA BuyEffect ==
    ASSUME BalanceInv, NEW u \in Player, NEW asset \in Asset, NEW amount \in Amount,
           BuyTri(u, asset, amount)
    PROVE  /\ tri' = Plus(tri, u, ApplyFee(QuoteBuy(asset, amount)))
           /\ money' = [money EXCEPT ![asset] = Moved(@, u, "shop", amount)]
           /\ amount \in Nat
  BY TokenShopContractAssumption DEF BuyTri, MintTri

LEMMA SellEffect ==
    ASSUME BalanceInv, NEW u \in Player, NEW asset \in Asset, NEW amount \in Amount,
           SellTri(u, asset, amount)
    PROVE  /\ tri' = Plus(tri, u, -amount)
           /\ money' = [money EXCEPT ![asset] =
                           Moved(@, "shop", u, NetOut(asset, QuoteSell(asset, amount)))]
           /\ amount \in Nat
           /\ settings.scale[asset] # 0 /\ settings.sellRate[asset] # 0
<1>1. settings.sellRate[asset] \in Nat
  BY DEF BalanceInv, ShopType, ShopRecord
<1>. QED
  BY <1>1, TokenShopContractAssumption DEF SellTri, BurnTri, Open

\* A setter keeps the kind of record, whatever the kinds of its fields.
LEMMA SettingEdited ==
    ASSUME NEW Flag, NEW Flags, NEW Rate, NEW Bps, NEW Most,
           NEW s \in ShopRecord(Flag, Flags, Rate, Bps, Most)
    PROVE  /\ \A b \in Flag : /\ [s EXCEPT !.paused = b] \in ShopRecord(Flag, Flags, Rate, Bps, Most)
                             /\ [s EXCEPT !.taxProcessor = b] \in ShopRecord(Flag, Flags, Rate, Bps, Most)
                             /\ [s EXCEPT !.operator = b] \in ShopRecord(Flag, Flags, Rate, Bps, Most)
           /\ \A f \in Flags : [s EXCEPT !.supported = f] \in ShopRecord(Flag, Flags, Rate, Bps, Most)
           /\ \A r \in Rate : [s EXCEPT !.scale = r] \in ShopRecord(Flag, Flags, Rate, Bps, Most)
           /\ \A m \in Most : /\ [s EXCEPT !.maxEthIn = m] \in ShopRecord(Flag, Flags, Rate, Bps, Most)
                            /\ [s EXCEPT !.maxGenIn = m] \in ShopRecord(Flag, Flags, Rate, Bps, Most)
  BY DEF ShopRecord

LEMMA ShopEdited ==
    ASSUME NEW s \in ShopType
    PROVE  /\ \A b \in BOOLEAN : /\ [s EXCEPT !.paused = b] \in ShopType
                                /\ [s EXCEPT !.taxProcessor = b] \in ShopType
                                /\ [s EXCEPT !.operator = b] \in ShopType
           /\ \A f \in [Asset -> BOOLEAN] : [s EXCEPT !.supported = f] \in ShopType
           /\ \A r \in [Asset -> Nat] : [s EXCEPT !.scale = r] \in ShopType
           /\ \A m \in Nat : /\ [s EXCEPT !.maxEthIn = m] \in ShopType
                            /\ [s EXCEPT !.maxGenIn = m] \in ShopType
<1> DEFINE Flags == [Asset -> BOOLEAN]
           Rate == [Asset -> Nat]
           Bps == 0..1000
<1>1. s \in ShopRecord(BOOLEAN, Flags, Rate, Bps, Nat)
  BY DEF ShopType
<1>2. ShopType = ShopRecord(BOOLEAN, Flags, Rate, Bps, Nat)
  BY DEF ShopType
<1>. HIDE DEF Flags, Rate, Bps
<1>3. \A b \in BOOLEAN : /\ [s EXCEPT !.paused = b] \in ShopType
                         /\ [s EXCEPT !.taxProcessor = b] \in ShopType
                         /\ [s EXCEPT !.operator = b] \in ShopType
  BY <1>1, <1>2, SettingEdited
<1>4. \A f \in Flags : [s EXCEPT !.supported = f] \in ShopType
  BY <1>1, <1>2, SettingEdited
<1>5. \A r \in Rate : [s EXCEPT !.scale = r] \in ShopType
  BY <1>1, <1>2, SettingEdited
<1>6. \A m \in Nat : /\ [s EXCEPT !.maxEthIn = m] \in ShopType
                     /\ [s EXCEPT !.maxGenIn = m] \in ShopType
  BY <1>1, <1>2, SettingEdited
<1>. QED
  BY <1>3, <1>4, <1>5, <1>6, Zenon DEF Flags, Rate

\* The settings stay within their bounds.
LEMMA ConfigureType ==
    ASSUME BalanceInv, Configure
    PROVE  settings' \in ShopType
<1>. settings \in ShopType
  BY DEF BalanceInv
<1>1. ASSUME NEW b \in BOOLEAN, SetPaused(b) \/ SetTaxProcessor(b)
      PROVE  settings' \in ShopType
  BY <1>1, ShopEdited, Zenon DEF SetPaused, SetTaxProcessor
<1>2. ASSUME NEW a \in Asset, NEW b \in BOOLEAN, SetSupportedToken(a, b)
      PROVE  settings' \in ShopType
  <2>1. [settings.supported EXCEPT ![a] = b] \in [Asset -> BOOLEAN]
    BY Zenon DEF ShopType, ShopRecord
  <2>2. settings' = [settings EXCEPT !.supported = [settings.supported EXCEPT ![a] = b]]
    BY <1>2 DEF SetSupportedToken
  <2>. QED  BY <2>1, <2>2, ShopEdited, Zenon
<1>3. ASSUME NEW d \in {0, CoinScale}, SetAssetDecimals(d)
      PROVE  settings' \in ShopType
  <2>1. d \in Nat
    BY TokenShopContractAssumption
  <2>2. [settings.scale EXCEPT !["coin"] = d] \in [Asset -> Nat]
    BY <2>1 DEF ShopType, ShopRecord
  <2>3. settings' = [settings EXCEPT !.scale = [settings.scale EXCEPT !["coin"] = d]]
    BY <1>3 DEF SetAssetDecimals
  <2>. QED  BY <2>2, <2>3, ShopEdited, Zenon
<1>4. ASSUME NEW a \in Asset, NEW pair \in Rates, SetRates(a, pair)
      PROVE  settings' \in ShopType
  <2>1. pair[1] \in Nat /\ pair[2] \in Nat
    BY TokenShopContractAssumption
  <2>. QED  BY <1>4, <2>1 DEF SetRates, ShopType, ShopRecord
<1>5. ASSUME NEW limit \in Limit, SetMaxEthIn(limit) \/ SetMaxGenIn(limit)
      PROVE  settings' \in ShopType
  <2>1. limit \in Nat
    BY TokenShopContractAssumption
  <2>. QED  BY <1>5, <2>1, ShopEdited, Zenon DEF SetMaxEthIn, SetMaxGenIn
<1>6. ASSUME NEW fee \in Fee, SetFeeBps(fee)
      PROVE  settings' \in ShopType
  BY <1>6, TokenShopContractAssumption DEF SetFeeBps, ShopType, ShopRecord
<1>7. CASE GrantOperator
  <2>1. TRUE \in BOOLEAN
    OBVIOUS
  <2>. QED  BY <1>7, <2>1, ShopEdited, Zenon DEF GrantOperator
<1>. QED
  BY <1>1, <1>2, <1>3, <1>4, <1>5, <1>6, <1>7 DEF Configure

LEMMA ShopBalances ==
    ASSUME BalanceInv, ShopTransaction, UNCHANGED marketVars
    PROVE  BalanceInv'
<1>. Player \subseteq Holder /\ Player \subseteq Pocket /\ "shop" \in Pocket
  BY DEF Holder, Pocket
<1>0. ListingsSound' /\ SharesSound'
  BY DEF BalanceInv, ListingsSound, SharesSound, marketVars
<1>1. ASSUME NEW u \in Player, NEW asset \in Asset, NEW amount \in Amount,
             BuyTri(u, asset, amount)
      PROVE  BalanceInv'
  <2>1. ApplyFee(QuoteBuy(asset, amount)) \in Int
    BY <1>1, BuyEffect, BoughtType
  <2>2. tri' \in [Holder -> Int]
    BY <1>1, <2>1, BuyEffect, TriPlus DEF BalanceInv
  <2>3. Moved(money[asset], u, "shop", amount) \in [Pocket -> Int]
    BY <1>1, BuyEffect, AssetMoved DEF BalanceInv
  <2>. QED
    BY <1>0, <1>1, <2>2, <2>3, BuyEffect DEF BalanceInv, BuyTri
<1>2. ASSUME NEW u \in Player, NEW asset \in Asset, NEW amount \in Amount,
             SellTri(u, asset, amount)
      PROVE  BalanceInv'
  <2> DEFINE net == NetOut(asset, QuoteSell(asset, amount))
  <2>1. net \in Int
    BY <1>2, SellEffect, SoldType
  <2>2. tri' \in [Holder -> Int]
    BY <1>2, SellEffect, TriPlus DEF BalanceInv
  <2>3. Moved(money[asset], "shop", u, net) \in [Pocket -> Int]
    BY <2>1, AssetMoved DEF BalanceInv
  <2>4. money' = [money EXCEPT ![asset] = Moved(@, "shop", u, net)]
    BY <1>2, SellEffect
  <2>. HIDE DEF net
  <2>. QED
    BY <1>0, <1>2, <2>2, <2>3, <2>4 DEF BalanceInv, SellTri
<1>3. ASSUME NEW u \in Player, NEW amount \in Amount, FundShop(u, amount) \/ WithdrawETH(u, amount)
      PROVE  BalanceInv'
  <2>1. amount \in Int /\ "eth" \in Asset
    BY TokenShopContractAssumption DEF Asset
  <2>2. /\ Moved(money["eth"], u, "shop", amount) \in [Pocket -> Int]
        /\ Moved(money["eth"], "shop", u, amount) \in [Pocket -> Int]
    BY <2>1, AssetMoved DEF BalanceInv
  <2>. QED
    BY <1>0, <1>3, <2>1, <2>2 DEF FundShop, WithdrawETH, token, BalanceInv
<1>4. CASE Configure
  BY <1>0, <1>4, ConfigureType DEF Configure, token, BalanceInv
<1>. QED
  BY <1>1, <1>2, <1>3, <1>4 DEF ShopTransaction, Trade

\* A fee leaves whole balances where it goes.
LEMMA PaidBalances ==
    ASSUME BalanceInv, NEW u \in Player, NEW seller \in Player, NEW total \in Int
    PROVE  Paid(u, seller, total) \in [Holder -> Int]
<1>. /\ Player \subseteq Holder
     /\ {"distributor", "dev", "triolith", "safu", "staking"} \subseteq Holder
  BY DEF Holder
<1>1. FeeOf(total) \in Int
  <2>1. (total * FeeBps) \div Split \in Int
    BY DEF FeeBps, Split
  <2>. QED  BY <2>1 DEF FeeOf, FeeCap
<1>2. ASSUME NEW a \in Int
      PROVE  /\ ToDev(a) \in Int /\ ToTriolith(a) \in Int
             /\ ToSafu(a) \in Int /\ ToStakers(a) \in Int
  <2>1. ToDev(a) \in Int /\ TriolithFull(a) \in Int
    BY DEF ToDev, TriolithFull, Split, BalanceInv, SharesSound
  <2>2. ToSafu(a) \in Int
    BY <2>1 DEF ToSafu, SafuBps, Split
  <2>. QED  BY <2>1, <2>2 DEF ToTriolith, ToStakers
<1>3. ASSUME NEW f \in [Holder -> Int], NEW a \in Int
      PROVE  Distributed(f, a) \in [Holder -> Int]
  <2> DEFINE dev == Moved(f, "distributor", "dev", ToDev(a))
             triolith == Moved(dev, "distributor", "triolith", ToTriolith(a))
             safu == Moved(triolith, "distributor", "safu", ToSafu(a))
  <2>1. dev \in [Holder -> Int]
    BY <1>2, TriMoved
  <2>. HIDE DEF dev
  <2>2. triolith \in [Holder -> Int]
    BY <1>2, <2>1, TriMoved
  <2>. HIDE DEF triolith
  <2>3. safu \in [Holder -> Int]
    BY <1>2, <2>2, TriMoved
  <2>4. Distributed(f, a) = Moved(safu, "distributor", "staking", ToStakers(a))
    BY DEF Distributed, dev, triolith, safu
  <2>. HIDE DEF safu
  <2>5. ToStakers(a) \in Int
    BY <1>2
  <2>6. Moved(safu, "distributor", "staking", ToStakers(a)) \in [Holder -> Int]
    BY <2>3, <2>5, TriMoved
  <2>. QED  BY <2>4, <2>6
<1> DEFINE fee == FeeOf(total)
           taken == Moved(tri, u, "distributor", fee)
           given == Distributed(taken, fee)
<1>4. taken \in [Holder -> Int]
  BY <1>1, TriMoved DEF BalanceInv
<1>5. given \in [Holder -> Int]
  <2>. HIDE DEF taken
  <2>. QED  BY <1>1, <1>3, <1>4
<1>6. Paid(u, seller, total) = Moved(given, u, seller, total - fee)
  BY DEF Paid, given, taken
<1>7. total - fee \in Int
  BY <1>1
<1>. HIDE DEF given, taken, fee
<1>8. Moved(given, u, seller, total - fee) \in [Holder -> Int]
  BY <1>5, <1>7, TriMoved
<1>. QED
  BY <1>6, <1>8

LEMMA MarketBalances ==
    ASSUME BalanceInv, MarketTransaction, UNCHANGED shopVars
    PROVE  BalanceInv'
<1>. /\ Player \subseteq Holder
     /\ "safu" \in Holder
  BY DEF Holder
<1>0. /\ UNCHANGED <<money, settings>>
      /\ money' \in [Asset -> [Pocket -> Int]]
      /\ settings' \in ShopType
  BY DEF shopVars, BalanceInv
<1>1. ASSUME NEW u \in Player, NEW item \in Item, NEW amount \in 1..2, NEW price \in Price,
             List(u, item, amount, price)
      PROVE  BalanceInv'
  <2>1. [seller |-> u, item |-> item, amount |-> amount, pricePerUnit |-> price] \in Listing
    BY MarketplaceContractAssumption DEF Listing
  <2>2. ListingsSound'
    BY <1>1, <2>1 DEF List, BalanceInv, ListingsSound
  <2>. QED
    BY <1>0, <1>1, <2>2 DEF List, token, BalanceInv, SharesSound
<1>2. ASSUME NEW u \in Player, NEW id \in DOMAIN listings, Cancel(u, id)
      PROVE  BalanceInv'
  BY <1>0, <1>2 DEF Cancel, Without, token, BalanceInv, ListingsSound, SharesSound
<1>3. ASSUME NEW u \in Player, NEW id \in DOMAIN listings, NEW n \in 1..2, Buy(u, id, n)
      PROVE  BalanceInv'
  <2> DEFINE l == listings[id]
             total == l.pricePerUnit * n
  <2>1. l \in Listing
    BY DEF BalanceInv, ListingsSound
  <2>2. total \in Int /\ l.seller \in Player
    BY <2>1 DEF Listing
  <2>3. tri' \in [Holder -> Int]
    <3>1. tri' = Paid(u, l.seller, total)
      BY <1>3 DEF Buy
    <3>. HIDE DEF total
    <3>. QED  BY <2>2, <3>1, PaidBalances
  <2>4. ListingsSound'
    <3>1. CASE listings' = Without(id)
      BY <3>1 DEF Without, BalanceInv, ListingsSound
    <3>2. CASE listings' = [listings EXCEPT ![id].amount = @ - n]
      <4>1. [l EXCEPT !.amount = @ - n] \in Listing
        BY <2>1 DEF Listing
      <4>. QED  BY <3>2, <4>1 DEF BalanceInv, ListingsSound
    <3>. QED  BY <1>3, <3>1, <3>2 DEF Buy
  <2>. QED
    BY <1>0, <1>3, <2>3, <2>4 DEF Buy, BalanceInv, SharesSound
<1>4. ASSUME NEW u \in Player, NEW item \in Item,
             \/ SendItem(u, "market", item, 1)
             \/ BurnBatch(u, [i \in Item |-> IF i = item THEN 1 ELSE 0])
      PROVE  BalanceInv'
  BY <1>0, <1>4 DEF SendItem, BurnBatch, token, BalanceInv, ListingsSound, SharesSound
<1>5. ASSUME NEW u \in Player, Compensate(u, 1)
      PROVE  BalanceInv'
  <2>1. tri' \in [Holder -> Int]
    BY <1>5, TriMoved DEF Compensate, BalanceInv
  <2>. QED
    BY <1>0, <1>5, <2>1 DEF Compensate, marketVars, BalanceInv, ListingsSound, SharesSound
<1>. QED
  BY <1>1, <1>2, <1>3, <1>4, <1>5 DEF MarketTransaction

LEMMA BalanceStep == BalanceInv /\ [ChainNext]_chainVars => BalanceInv'
<1>. SUFFICES ASSUME BalanceInv, [ChainNext]_chainVars
              PROVE  BalanceInv'
  OBVIOUS
<1>. /\ Player \subseteq Holder
     /\ "wallet" \in Holder
  BY DEF Holder
<1>1. CASE UNCHANGED <<token, shopVars, marketVars>>
  BY <1>1 DEF token, shopVars, marketVars, BalanceInv, ListingsSound, SharesSound
<1>2. CASE Minting
  <2>1. ASSUME NEW to \in Player \union {"wallet"}, MintTri(to, MaxMint),
               UNCHANGED <<shopVars, marketVars>>
        PROVE  BalanceInv'
    <3>1. tri \in [Holder -> Int] /\ to \in Holder /\ MaxMint \in Int
      BY TriTokenAssumption DEF BalanceInv
    <3>2. tri' = Plus(tri, to, MaxMint)
      BY <2>1 DEF MintTri
    <3>3. tri' \in [Holder -> Int]
      BY <3>1, <3>2, TriPlus
    <3>. QED
      BY <2>1, <3>3 DEF shopVars, marketVars, BalanceInv, ListingsSound, SharesSound
  <2>2. CASE MintingItems /\ UNCHANGED shopVars
    BY <2>2 DEF MintingItems, MintBatch, token, shopVars, BalanceInv, ListingsSound, SharesSound
  <2>. QED  BY <1>2, <2>1, <2>2 DEF Minting
<1>3. CASE TokenTransfer
  <2>1. PICK from \in Player, to \in Player \union {"wallet"} : tri' = Moved(tri, from, to, 1)
    BY <1>3 DEF TokenTransfer
  <2>2. from \in Holder /\ to \in Holder /\ tri \in [Holder -> Int] /\ 1 \in Int
    BY DEF BalanceInv
  <2>3. tri' \in [Holder -> Int]
    BY <2>1, <2>2, TriMoved
  <2>. QED
    BY <1>3, <2>3 DEF TokenTransfer, shopVars, marketVars, BalanceInv, ListingsSound, SharesSound
<1>4. CASE Governance
  BY <1>4, MarketplaceContractAssumption
     DEF Governance, UpdateShares, token, shopVars, BalanceInv, ListingsSound, SharesSound
<1>5. CASE WalletTransaction /\ UNCHANGED <<shopVars, marketVars>>
  <2>1. ASSUME NEW u \in Player, WithdrawTRI(u, 1)
        PROVE  tri' \in [Holder -> Int]
    BY <2>1, TriMoved DEF WithdrawTRI, BalanceInv
  <2>2. tri' \in [Holder -> Int]
    BY <1>5, <2>1 DEF WalletTransaction, CreateWallet, CancelUpgrade, ProposeUpgrade,
                      Upgrade, TransferOwnership, token, BalanceInv
  <2>. QED
    BY <1>5, <2>2 DEF shopVars, marketVars, BalanceInv, ListingsSound, SharesSound
<1>6. CASE Tick /\ UNCHANGED <<shopVars, marketVars, height>>
  BY <1>1, <1>6 DEF Tick
<1>7. CASE UNCHANGED chainVars
  BY <1>1, <1>7 DEF chainVars
<1>. QED
  BY <1>2, <1>3, <1>4, <1>5, <1>6, <1>7, ShopBalances, MarketBalances DEF ChainNext, Transaction
-----------------------------------------------------------------------------
\* Money and TRI change hands together only in a trade with the shop.
LEMMA OnlyTradesMoveBoth ==
    ASSUME [ChainNext]_chainVars, money' # money, tri' # tri
    PROVE  Trade
<1>1. ShopTransaction
  BY DEF ChainNext, Transaction, Minting, TokenTransfer, Governance, Tick, chainVars, shopVars
<1>. QED
  BY <1>1 DEF ShopTransaction, FundShop, WithdrawETH, Configure, token

LEMMA BuyingCosts ==
    ASSUME NEW scale \in Nat, NEW rate \in Nat, NEW one \in Nat, NEW amount \in Nat,
           NEW gross \in Nat, NEW net \in 0..gross, NEW m \in Int, NEW t \in Int,
           gross * one <= amount * scale * rate
    PROVE  scale * (m - amount) * rate + (t + net) * one <= scale * m * rate + t * one
<1>1. net * one <= gross * one
  BY ProductsGrow
<1>2. net * one <= amount * scale * rate
  BY <1>1
<1>3. scale * (m - amount) * rate = scale * m * rate - amount * scale * rate
  OBVIOUS
<1>4. (t + net) * one = t * one + net * one
  OBVIOUS
<1>. QED
  BY <1>2, <1>3, <1>4

LEMMA SellingCosts ==
    ASSUME NEW scale \in Nat, NEW rate \in Nat, NEW sellRate \in Nat, NEW one \in Nat,
           NEW genIn \in Nat, NEW net \in Nat, NEW m \in Int, NEW t \in Int,
           rate <= sellRate, net * scale * sellRate <= genIn * one
    PROVE  scale * (m + net) * rate + (t - genIn) * one <= scale * m * rate + t * one
<1>1. net * scale \in Nat
  OBVIOUS
<1>2. (net * scale) * rate <= (net * scale) * sellRate
  BY <1>1, ProductsGrow
<1>3. net * scale * rate <= genIn * one
  BY <1>2
<1>4. scale * (m + net) * rate = scale * m * rate + net * scale * rate
  OBVIOUS
<1>5. (t - genIn) * one = t * one - genIn * one
  OBVIOUS
<1>. QED
  BY <1>3, <1>4, <1>5

LEMMA TradesCost ==
    ASSUME BalanceInv, [ChainNext]_chainVars, NEW u \in Player, NEW asset \in Asset,
           settings' = settings, money'[asset] # money[asset], tri'[u] # tri[u],
           settings.sellRate[asset] >= settings.buyRate[asset]
    PROVE  Wealth(u, asset)' <= Wealth(u, asset)
<1>. /\ u # "shop" /\ u \in Holder /\ u \in Pocket /\ "shop" \in Pocket
     /\ Player \subseteq Holder /\ Player \subseteq Pocket
  BY TriTokenAssumption DEF Holder, Pocket
<1>0. /\ settings.scale[asset] \in Nat /\ settings.buyRate[asset] \in Nat
      /\ settings.sellRate[asset] \in Nat /\ One \in Nat
      /\ money[asset] \in [Pocket -> Int]
      /\ money[asset][u] \in Int /\ tri[u] \in Int
      /\ tri \in [Holder -> Int] /\ money \in [Asset -> [Pocket -> Int]]
  BY TokenShopContractAssumption DEF BalanceInv, ShopType, ShopRecord
<1>1. PICK v \in Player, a \in Asset, amount \in Amount :
          BuyTri(v, a, amount) \/ SellTri(v, a, amount)
  BY OnlyTradesMoveBoth DEF Trade
<1>2. CASE BuyTri(v, a, amount)
  <2> DEFINE gross == QuoteBuy(a, amount)
             net == ApplyFee(gross)
  <2>1. /\ tri' = Plus(tri, v, net)
        /\ money' = [money EXCEPT ![a] = Moved(money[a], v, "shop", amount)]
        /\ amount \in Nat
    BY <1>2, BuyEffect
  <2>2. /\ gross \in Nat /\ net \in 0..gross
        /\ gross * One <= amount * settings.scale[a] * settings.buyRate[a]
    BY <2>1, BoughtType
  <2>. HIDE DEF gross, net
  <2>3. a = asset
    BY <1>0, <2>1
  <2>4. v = u
    <3>1. v # u => Plus(tri, v, net)[u] = tri[u]
      BY <1>0, <2>1, <2>2, TriPlus
    <3>. QED  BY <2>1, <3>1
  <2>5. /\ tri'[u] = tri[u] + net
        /\ money'[asset][u] = money[asset][u] - amount
    <3>1. money'[asset] = Moved(money[asset], u, "shop", amount)
      BY <1>0, <2>1, <2>3, <2>4
    <3>2. Moved(money[asset], u, "shop", amount)[u] = money[asset][u] - amount
      BY <1>0, <2>1, <2>2, AssetMoved
    <3>. QED  BY <1>0, <2>1, <2>2, <2>4, <3>1, <3>2, TriPlus
  <2>6. settings.scale[asset] * (money[asset][u] - amount) * settings.buyRate[asset]
            + (tri[u] + net) * One
          <= settings.scale[asset] * money[asset][u] * settings.buyRate[asset] + tri[u] * One
    BY <1>0, <2>1, <2>2, <2>3, BuyingCosts
  <2>. QED
    BY <2>5, <2>6 DEF Wealth
<1>3. CASE SellTri(v, a, amount)
  <2> DEFINE net == NetOut(a, QuoteSell(a, amount))
  <2>1. /\ tri' = Plus(tri, v, -amount)
        /\ money' = [money EXCEPT ![a] = Moved(money[a], "shop", v, net)]
        /\ amount \in Nat
        /\ settings.scale[a] # 0 /\ settings.sellRate[a] # 0
    BY <1>3, SellEffect
  <2>2. /\ net \in Nat
        /\ net * settings.scale[a] * settings.sellRate[a] <= amount * One
    BY <2>1, SoldType
  <2>. HIDE DEF net
  <2>3. a = asset
    BY <1>0, <2>1
  <2>4. v = u
    <3>1. v # u => Plus(tri, v, -amount)[u] = tri[u]
      BY <1>0, <2>1, <2>2, TriPlus
    <3>. QED  BY <2>1, <3>1
  <2>5. /\ tri'[u] = tri[u] - amount
        /\ money'[asset][u] = money[asset][u] + net
    <3>1. money'[asset] = Moved(money[asset], "shop", u, net)
      BY <1>0, <2>1, <2>3, <2>4
    <3>2. Moved(money[asset], "shop", u, net)[u] = money[asset][u] + net
      BY <1>0, <2>1, <2>2, AssetMoved
    <3>. QED  BY <1>0, <2>1, <2>2, <2>4, <3>1, <3>2, TriPlus
  <2>6. settings.scale[asset] * (money[asset][u] + net) * settings.buyRate[asset]
            + (tri[u] - amount) * One
          <= settings.scale[asset] * money[asset][u] * settings.buyRate[asset] + tri[u] * One
    BY <1>0, <2>1, <2>2, <2>3, SellingCosts
  <2>. QED
    BY <2>5, <2>6 DEF Wealth
<1>. QED
  BY <1>1, <1>2, <1>3

(***************************************************************************)
(* A trade with the shop never pays the trader where the asset's sell rate *)
(* is not below its buy rate, which setRates does not demand: for any      *)
(* fees, limits and decimals, and whatever else happens on the chain.      *)
(***************************************************************************)
THEOREM TradesNeverPay == ChainSpec => TradesDoNotProfit
<1>1. BalanceInv /\ [ChainNext]_chainVars =>
        [\A u \in Player, asset \in Asset :
            (settings' = settings /\ money'[asset] # money[asset] /\ tri'[u] # tri[u]
               /\ settings.sellRate[asset] >= settings.buyRate[asset])
            => Wealth(u, asset)' <= Wealth(u, asset)]_<<token, shopVars>>
  BY TradesCost
<1>. QED
  BY <1>1, BalanceInit, BalanceStep, PTL DEF ChainSpec, TradesDoNotProfit

-----------------------------------------------------------------------------
(***************************************************************************)
(* The items.  A sum over holders or listings is the number of units in a  *)
(* set, so that a step adds some units to the set or takes some away, and  *)
(* nothing has to be summed anew.                                          *)
(***************************************************************************)
\* Of x there are n more in g than in f, and all else is as in f.
Adds(f, g, x, n) ==
    /\ DOMAIN g = DOMAIN f \union {x}
    /\ \A y \in DOMAIN f \ {x} : g[y] = f[y]
    /\ n \in Nat
    /\ \E k \in Nat : /\ x \in DOMAIN f => f[x] = k
                      /\ x \notin DOMAIN f => k = 0
                      /\ g[x] = k + n

LEMMA UnitsOf ==
    ASSUME NEW f, NEW e
    PROVE  e \in Units(f) <=> \E y \in DOMAIN f : \E m \in 1..f[y] : e = <<y, m>>
  BY DEF Units

\* The units that are added, none of which was there, are n.
LEMMA UnitsAdded ==
    ASSUME NEW f, NEW g, NEW x, NEW n, Adds(f, g, x, n)
    PROVE  \E new : /\ Units(g) = Units(f) \union new
                    /\ Units(f) = Units(g) \ new
                    /\ new \subseteq Units(g) /\ Units(f) \intersect new = {}
                    /\ IsFiniteSet(new) /\ Cardinality(new) = n
<1>1. PICK k \in Nat : /\ x \in DOMAIN f => f[x] = k
                       /\ x \notin DOMAIN f => k = 0
                       /\ g[x] = k + n
  BY DEF Adds
<1>0. n \in Nat /\ DOMAIN g = DOMAIN f \union {x}
  BY DEF Adds
<1> DEFINE new == {x} \X ((k + 1)..(k + n))
<1>2. ASSUME NEW e
      PROVE  /\ e \in Units(g) <=> (e \in Units(f) \/ e \in new)
             /\ ~(e \in Units(f) /\ e \in new)
  <2>1. e \in new <=> \E m \in (k + 1)..(k + n) : e = <<x, m>>
    OBVIOUS
  <2>. HIDE DEF new
  <2>2. CASE \E m \in Int : e = <<x, m>>
    <3>1. PICK m \in Int : e = <<x, m>>
      BY <2>2
    <3>2. e \in new <=> m \in (k + 1)..(k + n)
      BY <2>1, <3>1
    <3>3. e \in Units(g) <=> m \in 1..(k + n)
      BY <1>0, <1>1, <3>1, UnitsOf
    <3>4. e \in Units(f) <=> m \in 1..k
      <4>1. CASE x \in DOMAIN f
        BY <1>1, <3>1, <4>1, UnitsOf
      <4>2. CASE x \notin DOMAIN f
        BY <1>1, <3>1, <4>2, UnitsOf
      <4>. QED  BY <4>1, <4>2
    <3>. QED  BY <1>0, <3>2, <3>3, <3>4
  <2>3. CASE ~\E m \in Int : e = <<x, m>>
    <3>1. e \notin new
      BY <1>0, <2>1, <2>3
    <3>2. e \in Units(g) <=> \E y \in DOMAIN g \ {x} : \E m \in 1..g[y] : e = <<y, m>>
      BY <1>0, <1>1, <2>3, UnitsOf
    <3>3. e \in Units(f) <=> \E y \in DOMAIN f \ {x} : \E m \in 1..f[y] : e = <<y, m>>
      BY <1>0, <1>1, <2>3, UnitsOf
    <3>4. /\ DOMAIN g \ {x} = DOMAIN f \ {x}
          /\ \A y \in DOMAIN f \ {x} : g[y] = f[y]
      BY DEF Adds
    <3>. QED  BY <3>1, <3>2, <3>3, <3>4
  <2>. QED  BY <2>2, <2>3
<1>3. IsFiniteSet(new) /\ Cardinality(new) = n
  <2>1. IsFiniteSet({x}) /\ Cardinality({x}) = 1
    BY FS_Singleton
  <2>2. IsFiniteSet((k + 1)..(k + n)) /\ Cardinality((k + 1)..(k + n)) = n
    <3>1. k + 1 \in Int /\ k + n \in Int
      BY <1>0
    <3>. QED  BY <1>0, <3>1, FS_Interval
  <2>. QED  BY <1>0, <2>1, <2>2, FS_Product
<1>. HIDE DEF new
<1>4. Units(g) = Units(f) \union new
  BY <1>2
<1>5. /\ Units(f) = Units(g) \ new
      /\ new \subseteq Units(g) /\ Units(f) \intersect new = {}
  BY <1>2
<1>. QED
  BY <1>3, <1>4, <1>5

\* So both sets of units are finite if one is, and the sums differ by n.
LEMMA SumAdded ==
    ASSUME NEW f, NEW g, NEW x, NEW n, Adds(f, g, x, n),
           IsFiniteSet(Units(f)) \/ IsFiniteSet(Units(g))
    PROVE  /\ IsFiniteSet(Units(f)) /\ IsFiniteSet(Units(g))
           /\ SumOf(f) \in Nat /\ SumOf(g) = SumOf(f) + n
<1>1. PICK new : /\ Units(g) = Units(f) \union new
                 /\ Units(f) = Units(g) \ new
                 /\ new \subseteq Units(g) /\ Units(f) \intersect new = {}
                 /\ IsFiniteSet(new) /\ Cardinality(new) = n
  BY UnitsAdded
<1>2. IsFiniteSet(Units(f))
  <2>1. CASE IsFiniteSet(Units(g))
    BY <1>1, <2>1, FS_Difference
  <2>. QED  BY <2>1
<1>3. /\ IsFiniteSet(Units(g))
      /\ Cardinality(Units(g))
            = Cardinality(Units(f)) + Cardinality(new) - Cardinality(Units(f) \intersect new)
  BY <1>1, <1>2, FS_Union
<1>4. Cardinality(Units(f) \intersect new) = 0
  BY <1>1, FS_EmptySet
<1>5. Cardinality(Units(f)) \in Nat
  BY <1>2, FS_CardinalityType
<1>. QED
  BY <1>1, <1>2, <1>3, <1>4, <1>5 DEF Adds, SumOf

\* A transfer between two holders adds nothing to the sum.
LEMMA SumMoved ==
    ASSUME NEW f \in [Owner -> Nat], NEW from \in Owner, NEW to \in Owner, NEW n \in Nat,
           from # to, f[from] >= n, IsFiniteSet(Units(f))
    PROVE  /\ Moved(f, from, to, n) \in [Owner -> Nat]
           /\ Moved(f, from, to, n)[from] = f[from] - n
           /\ Moved(f, from, to, n)[to] = f[to] + n
           /\ \A o \in Owner \ {from, to} : Moved(f, from, to, n)[o] = f[o]
           /\ IsFiniteSet(Units(Moved(f, from, to, n)))
           /\ SumOf(Moved(f, from, to, n)) = SumOf(f)
<1> DEFINE mid == [f EXCEPT ![from] = @ - n]
           g == Moved(f, from, to, n)
<1>1. mid \in [Owner -> Nat] /\ mid[from] = f[from] - n /\ mid[to] = f[to]
  OBVIOUS
<1>2. /\ g \in [Owner -> Nat] /\ g[from] = f[from] - n /\ g[to] = f[to] + n
      /\ \A o \in Owner \ {from, to} : g[o] = f[o]
  BY DEF Moved
<1>3. \A o \in Owner \ {from} : mid[o] = f[o]
  OBVIOUS
<1>4. Adds(mid, f, from, n)
  <2>. HIDE DEF mid
  <2>1. mid[from] \in Nat /\ f[from] = mid[from] + n
    BY <1>1
  <2>. QED  BY <1>1, <1>3, <2>1 DEF Adds
<1>5. Adds(mid, g, to, n)
  <2>. HIDE DEF mid, g
  <2>1. mid[to] \in Nat /\ g[to] = mid[to] + n
    BY <1>1, <1>2
  <2>2. \A o \in Owner \ {to} : g[o] = mid[o]
    BY <1>1, <1>2, <1>3
  <2>. QED  BY <1>1, <1>2, <2>1, <2>2 DEF Adds
<1>. HIDE DEF mid, g
<1>6. IsFiniteSet(Units(mid)) /\ SumOf(mid) \in Nat /\ SumOf(f) = SumOf(mid) + n
  BY <1>4, SumAdded
<1>7. IsFiniteSet(Units(g)) /\ SumOf(g) = SumOf(mid) + n
  BY <1>5, <1>6, SumAdded
<1>8. SumOf(g) = SumOf(f)
  BY <1>6, <1>7
<1>. QED
  BY <1>2, <1>7, <1>8 DEF g
-----------------------------------------------------------------------------
\* What is listed offers something, under an id that was given out.
ListingsInv ==
    /\ nextListingId \in Nat
    /\ \A l \in DOMAIN listings :
          /\ l \in Nat /\ l < nextListingId
          /\ listings[l] \in [seller : Player, item : Item, amount : Nat, pricePerUnit : Price]

\* Of each item: whole balances, their sum, and the offers they cover.
CoveredInv(i) ==
    /\ items[i] \in [Owner -> Nat]
    /\ IsFiniteSet(Units(items[i])) /\ itemSupply[i] = SumOf(items[i])
    /\ IsFiniteSet(Units(Offered(i))) /\ SumOf(Offered(i)) \in Nat
    /\ items[i]["market"] >= SumOf(Offered(i))

EscrowInv ==
    /\ items = [i \in Item |-> items[i]]
    /\ ListingsInv
    /\ \A i \in Item : CoveredInv(i)

LEMMA EscrowInit == ChainInit => EscrowInv
<1>. SUFFICES ASSUME ChainInit
              PROVE  EscrowInv
  OBVIOUS
<1>1. /\ items = [i \in Item |-> [o \in Owner |-> IF o \in Player THEN 2 ELSE 0]]
      /\ itemSupply = [i \in Item |-> 2 * Cardinality(Player)]
      /\ listings = << >> /\ nextListingId = 0
  BY DEF ChainInit, InitMarket
<1>2. ASSUME NEW i \in Item
      PROVE  CoveredInv(i)
  <2>1. items[i] = [o \in Owner |-> IF o \in Player THEN 2 ELSE 0]
    BY <1>1
  <2>2. Units(items[i]) = Player \X (1..2)
    <3>1. \A e : e \in Units(items[i]) <=> \E y \in Owner : \E m \in 1..items[i][y] : e = <<y, m>>
      BY <2>1, UnitsOf
    <3>2. \A y \in Owner : \A m : m \in 1..items[i][y] <=> y \in Player /\ m \in 1..2
      BY <2>1
    <3>3. \A e : e \in Units(items[i]) <=> \E y \in Player : \E m \in 1..2 : e = <<y, m>>
      BY <3>1, <3>2 DEF Owner
    <3>4. \A e : e \in Player \X (1..2) <=> \E y \in Player : \E m \in 1..2 : e = <<y, m>>
      OBVIOUS
    <3>. QED  BY <3>3, <3>4
  <2>3. IsFiniteSet(1..2) /\ Cardinality(1..2) = 2
    <3>1. \A n, m \in Int :
            IsFiniteSet(n..m) /\ Cardinality(n..m) = IF n > m THEN 0 ELSE m - n + 1
      BY FS_Interval
    <3>2. 1 \in Int /\ 2 \in Int /\ ~(1 > 2) /\ 2 - 1 + 1 = 2
      OBVIOUS
    <3>. QED  BY <3>1, <3>2
  <2>4. Cardinality(Player) \in Nat
    BY TriTokenAssumption, FS_CardinalityType
  <2>5. /\ IsFiniteSet(Units(items[i]))
        /\ Cardinality(Units(items[i])) = Cardinality(Player) * 2
    BY <2>2, <2>3, TriTokenAssumption, FS_Product
  <2>6. itemSupply[i] = SumOf(items[i])
    BY <1>1, <2>4, <2>5 DEF SumOf
  <2>7. Units(Offered(i)) = {}
    <3>1. DOMAIN Offered(i) = {}
      BY <1>1 DEF Offered
    <3>. QED  BY <3>1 DEF Units
  <2>8. IsFiniteSet(Units(Offered(i))) /\ SumOf(Offered(i)) = 0
    BY <2>7, FS_EmptySet DEF SumOf
  <2>9. items[i] \in [Owner -> Nat] /\ items[i]["market"] = 0
    BY <2>1, TriTokenAssumption DEF Owner
  <2>. QED
    BY <2>5, <2>6, <2>8, <2>9 DEF CoveredInv
<1>. QED
  BY <1>1, <1>2 DEF EscrowInv, ListingsInv

\* An item is as well covered as it was when its offers did not change, no
\* unit was made and the marketplace has no fewer.
LEMMA CoveredStill ==
    ASSUME NEW i \in Item, CoveredInv(i),
           items'[i] \in [Owner -> Nat], IsFiniteSet(Units(items'[i])),
           itemSupply'[i] = SumOf(items'[i]),
           items'[i]["market"] >= items[i]["market"],
           Offered(i)' = Offered(i)
    PROVE  CoveredInv(i)'
<1>1. /\ items[i]["market"] \in Nat /\ items'[i]["market"] \in Nat
      /\ IsFiniteSet(Units(Offered(i))) /\ SumOf(Offered(i)) \in Nat
      /\ items[i]["market"] >= SumOf(Offered(i))
  BY DEF CoveredInv, Owner
<1>2. Units(Offered(i))' = Units(Offered(i)) /\ SumOf(Offered(i))' = SumOf(Offered(i))
  BY DEF Units, SumOf
<1>3. items'[i]["market"] >= SumOf(Offered(i))
  BY <1>1
<1>4. Units(items[i])' = Units(items'[i]) /\ SumOf(items[i])' = SumOf(items'[i])
  BY DEF Units, SumOf
<1>. QED
  BY <1>1, <1>2, <1>3, <1>4 DEF CoveredInv

\* Offers follow the listings.
LEMMA OfferedSame ==
    ASSUME NEW i \in Item, ListingsInv, NEW id,
           DOMAIN listings' \ {id} = DOMAIN listings \ {id},
           \A l \in DOMAIN listings \ {id} : listings'[l] = listings[l],
           id \in DOMAIN listings => listings[id].item # i,
           id \in DOMAIN listings' => listings'[id].item # i
    PROVE  Offered(i)' = Offered(i)
<1>1. {l \in DOMAIN listings' : listings'[l].item = i}
        = {l \in DOMAIN listings : listings[l].item = i}
  OBVIOUS
<1>2. \A l \in {l \in DOMAIN listings : listings[l].item = i} :
        listings'[l].amount = listings[l].amount
  OBVIOUS
<1>. QED
  BY <1>1, <1>2 DEF Offered

\* A new listing offers so much more.
LEMMA OfferedMore ==
    ASSUME ListingsInv, NEW u \in Player, NEW i \in Item, NEW amount \in Nat, NEW price \in Price,
           List(u, i, amount, price)
    PROVE  Adds(Offered(i), Offered(i)', nextListingId, amount)
<1> DEFINE id == nextListingId
           old == {l \in DOMAIN listings : listings[l].item = i}
<1>1. id \notin DOMAIN listings
  BY DEF ListingsInv
<1>2. /\ DOMAIN listings' = DOMAIN listings \union {id}
      /\ listings'[id] = [seller |-> u, item |-> i, amount |-> amount, pricePerUnit |-> price]
      /\ \A l \in DOMAIN listings : listings'[l] = listings[l]
  BY <1>1 DEF List
<1>3. {l \in DOMAIN listings' : listings'[l].item = i} = old \union {id}
  BY <1>2
<1>4. /\ Offered(i) = [l \in old |-> listings[l].amount]
      /\ Offered(i)' = [l \in old \union {id} |-> listings'[l].amount]
  BY <1>3 DEF Offered
<1>5. \A l \in old : listings'[l].amount = listings[l].amount
  BY <1>2
<1>6. id \notin old /\ listings'[id].amount = 0 + amount
  BY <1>1, <1>2
<1>. HIDE DEF old, id
<1>7. DOMAIN Offered(i)' = DOMAIN Offered(i) \union {id} /\ DOMAIN Offered(i) = old
  BY <1>4
<1>8. \A y \in old \ {id} : Offered(i)'[y] = Offered(i)[y]
  BY <1>4, <1>5
<1>9. Offered(i)'[id] = 0 + amount
  BY <1>4, <1>6
<1>. QED
  BY <1>6, <1>7, <1>8, <1>9 DEF Adds, id

\* What is bought, and what is left when one cancels, is offered no more.
LEMMA OfferedLess ==
    ASSUME ListingsInv, NEW id \in DOMAIN listings, NEW i, listings[id].item = i,
           NEW n \in Nat, n <= listings[id].amount,
           \/ listings' = Without(id) /\ n = listings[id].amount
           \/ listings' = [listings EXCEPT ![id].amount = @ - n]
    PROVE  Adds(Offered(i)', Offered(i), id, n)
<1> DEFINE old == {l \in DOMAIN listings : listings[l].item = i}
           rest == {l \in DOMAIN listings' : listings'[l].item = i}
<1>1. listings[id] \in [seller : Player, item : Item, amount : Nat, pricePerUnit : Price]
  BY DEF ListingsInv
<1>2. /\ Offered(i) = [l \in old |-> listings[l].amount]
      /\ Offered(i)' = [l \in rest |-> listings'[l].amount]
      /\ id \in old
  BY DEF Offered
<1>3. CASE listings' = Without(id) /\ n = listings[id].amount
  <2>1. rest = old \ {id} /\ \A l \in rest : listings'[l] = listings[l]
    BY <1>3 DEF Without
  <2>2. listings[id].amount = 0 + n
    BY <1>1, <1>3
  <2>. HIDE DEF rest, old
  <2>3. /\ DOMAIN Offered(i) = DOMAIN Offered(i)' \union {id}
        /\ id \notin DOMAIN Offered(i)'
    BY <1>2, <2>1
  <2>4. \A y \in DOMAIN Offered(i)' \ {id} : Offered(i)[y] = Offered(i)'[y]
    BY <1>2, <2>1
  <2>5. Offered(i)[id] = 0 + n
    BY <1>2, <2>2
  <2>. QED  BY <2>3, <2>4, <2>5 DEF Adds
<1>4. CASE listings' = [listings EXCEPT ![id].amount = @ - n]
  <2>1. listings' = [listings EXCEPT ![id] = [listings[id] EXCEPT !.amount = @ - n]]
    BY <1>4
  <2>2. /\ [listings[id] EXCEPT !.amount = @ - n].item = i
        /\ [listings[id] EXCEPT !.amount = @ - n].amount = listings[id].amount - n
    BY <1>1
  <2>3. /\ DOMAIN listings' = DOMAIN listings
        /\ listings'[id].item = i /\ listings'[id].amount = listings[id].amount - n
        /\ \A l \in DOMAIN listings \ {id} : listings'[l] = listings[l]
    BY <2>1, <2>2
  <2>4. rest = old /\ \A l \in rest \ {id} : listings'[l] = listings[l]
    BY <2>3
  <2>5. /\ listings'[id].amount \in Nat
        /\ listings[id].amount = listings'[id].amount + n
    BY <1>1, <2>3
  <2>. HIDE DEF rest, old
  <2>6. /\ DOMAIN Offered(i) = DOMAIN Offered(i)' \union {id}
        /\ id \in DOMAIN Offered(i)'
    BY <1>2, <2>4
  <2>7. \A y \in DOMAIN Offered(i)' \ {id} : Offered(i)[y] = Offered(i)'[y]
    BY <1>2, <2>4
  <2>8. /\ Offered(i)'[id] = listings'[id].amount
        /\ Offered(i)[id] = Offered(i)'[id] + n
    BY <1>2, <2>4, <2>5
  <2>. QED  BY <2>5, <2>6, <2>7, <2>8 DEF Adds
<1>. QED
  BY <1>3, <1>4

\* Units come into escrow with the offer and leave it with the offer.
LEMMA CoveredMore ==
    ASSUME NEW i \in Item, CoveredInv(i), NEW u \in Player, NEW n \in Nat, NEW id,
           items[i][u] >= n, items'[i] = Moved(items[i], u, "market", n),
           itemSupply'[i] = itemSupply[i], Adds(Offered(i), Offered(i)', id, n)
    PROVE  CoveredInv(i)'
<1>1. u \in Owner /\ "market" \in Owner /\ u # "market"
  BY TriTokenAssumption DEF Owner
<1>2. /\ items[i] \in [Owner -> Nat]
      /\ IsFiniteSet(Units(items[i])) /\ itemSupply[i] = SumOf(items[i])
      /\ IsFiniteSet(Units(Offered(i))) /\ SumOf(Offered(i)) \in Nat
      /\ items[i]["market"] >= SumOf(Offered(i))
  BY DEF CoveredInv
<1>3. /\ items'[i] \in [Owner -> Nat] /\ items'[i]["market"] = items[i]["market"] + n
      /\ IsFiniteSet(Units(items'[i])) /\ SumOf(items'[i]) = SumOf(items[i])
  BY <1>1, <1>2, SumMoved
<1>4. /\ IsFiniteSet(Units(Offered(i)'))
      /\ SumOf(Offered(i)') = SumOf(Offered(i)) + n
  BY <1>2, SumAdded
<1>5. items[i]["market"] \in Nat
  BY <1>1, <1>2
<1>6. SumOf(Offered(i)') \in Nat /\ items'[i]["market"] >= SumOf(Offered(i)')
  BY <1>2, <1>3, <1>4, <1>5
<1>7. /\ Units(items[i])' = Units(items'[i]) /\ SumOf(items[i])' = SumOf(items'[i])
      /\ Units(Offered(i))' = Units(Offered(i)') /\ SumOf(Offered(i))' = SumOf(Offered(i)')
  BY DEF Units, SumOf
<1>. QED
  BY <1>2, <1>3, <1>4, <1>6, <1>7 DEF CoveredInv

LEMMA CoveredLess ==
    ASSUME NEW i \in Item, CoveredInv(i), NEW u \in Player, NEW n \in Nat, NEW id,
           items'[i] = Moved(items[i], "market", u, n),
           itemSupply'[i] = itemSupply[i], Adds(Offered(i)', Offered(i), id, n)
    PROVE  CoveredInv(i)'
<1>1. u \in Owner /\ "market" \in Owner /\ u # "market"
  BY TriTokenAssumption DEF Owner
<1>2. /\ items[i] \in [Owner -> Nat]
      /\ IsFiniteSet(Units(items[i])) /\ itemSupply[i] = SumOf(items[i])
      /\ IsFiniteSet(Units(Offered(i))) /\ SumOf(Offered(i)) \in Nat
      /\ items[i]["market"] >= SumOf(Offered(i))
  BY DEF CoveredInv
<1>3. /\ IsFiniteSet(Units(Offered(i)')) /\ SumOf(Offered(i)') \in Nat
      /\ SumOf(Offered(i)) = SumOf(Offered(i)') + n
  BY <1>2, SumAdded
<1>4. items[i]["market"] \in Nat
  BY <1>1, <1>2
<1>5. items[i]["market"] >= n
  BY <1>2, <1>3, <1>4
<1>6. /\ items'[i] \in [Owner -> Nat] /\ items'[i]["market"] = items[i]["market"] - n
      /\ IsFiniteSet(Units(items'[i])) /\ SumOf(items'[i]) = SumOf(items[i])
  BY <1>1, <1>2, <1>5, SumMoved
<1>7. items'[i]["market"] >= SumOf(Offered(i)')
  BY <1>2, <1>3, <1>4, <1>6
<1>8. /\ Units(items[i])' = Units(items'[i]) /\ SumOf(items[i])' = SumOf(items'[i])
      /\ Units(Offered(i))' = Units(Offered(i)') /\ SumOf(Offered(i))' = SumOf(Offered(i)')
  BY DEF Units, SumOf
<1>. QED
  BY <1>2, <1>3, <1>6, <1>7, <1>8 DEF CoveredInv

\* What a transaction about another item leaves.
LEMMA CoveredElsewhere ==
    ASSUME EscrowInv, NEW j \in Item, NEW id,
           DOMAIN listings' \ {id} = DOMAIN listings \ {id},
           \A l \in DOMAIN listings \ {id} : listings'[l] = listings[l],
           id \in DOMAIN listings => listings[id].item # j,
           id \in DOMAIN listings' => listings'[id].item # j,
           items'[j] = items[j], itemSupply'[j] = itemSupply[j]
    PROVE  CoveredInv(j)'
<1>1. ListingsInv /\ CoveredInv(j)
  BY DEF EscrowInv
<1>2. Offered(j)' = Offered(j)
  BY <1>1, OfferedSame
<1>3. /\ items'[j] \in [Owner -> Nat] /\ IsFiniteSet(Units(items'[j]))
      /\ itemSupply'[j] = SumOf(items'[j]) /\ items'[j]["market"] >= items[j]["market"]
  BY <1>1 DEF CoveredInv, Owner
<1>. QED
  BY <1>1, <1>2, <1>3, CoveredStill

LEMMA ListKeeps ==
    ASSUME EscrowInv, NEW u \in Player, NEW i \in Item, NEW amount \in Nat, NEW price \in Price,
           List(u, i, amount, price)
    PROVE  EscrowInv'
<1>1. /\ items' = [items EXCEPT ![i] = Moved(items[i], u, "market", amount)]
      /\ items[i][u] >= amount /\ itemSupply' = itemSupply
      /\ nextListingId' = nextListingId + 1
  BY DEF List, Covers
<1>2. /\ ListingsInv /\ items = [j \in Item |-> items[j]]
      /\ \A j \in Item : CoveredInv(j)
  BY DEF EscrowInv
<1>3. /\ DOMAIN listings' = DOMAIN listings \union {nextListingId}
      /\ nextListingId \notin DOMAIN listings
      /\ listings'[nextListingId]
            = [seller |-> u, item |-> i, amount |-> amount, pricePerUnit |-> price]
      /\ \A l \in DOMAIN listings : listings'[l] = listings[l]
  BY <1>2 DEF List, ListingsInv
<1>4. ListingsInv'
  BY <1>1, <1>2, <1>3 DEF ListingsInv
<1>5. items' = [j \in Item |-> items'[j]] /\ items'[i] = Moved(items[i], u, "market", amount)
  BY <1>1, <1>2
<1>6. CoveredInv(i)'
  <2>1. Adds(Offered(i), Offered(i)', nextListingId, amount)
    BY <1>2, OfferedMore
  <2>. QED  BY <1>1, <1>2, <1>5, <2>1, CoveredMore
<1>7. ASSUME NEW j \in Item, j # i
      PROVE  CoveredInv(j)'
  <2>1. items'[j] = items[j] /\ itemSupply'[j] = itemSupply[j]
    BY <1>1, <1>7
  <2>2. DOMAIN listings' \ {nextListingId} = DOMAIN listings \ {nextListingId}
    BY <1>3
  <2>3. listings'[nextListingId].item # j
    BY <1>3, <1>7
  <2>. QED  BY <1>3, <2>1, <2>2, <2>3, CoveredElsewhere
<1>8. \A j \in Item : CoveredInv(j)'
  BY <1>6, <1>7
<1>. QED
  BY <1>4, <1>5, <1>8 DEF EscrowInv

\* A cancellation and a purchase.
LEMMA TakingKeeps ==
    ASSUME EscrowInv, NEW u \in Player, NEW id \in DOMAIN listings,
           NEW i, listings[id].item = i, NEW n \in Nat, n <= listings[id].amount,
           \/ listings' = Without(id) /\ n = listings[id].amount
           \/ listings' = [listings EXCEPT ![id].amount = @ - n],
           items' = [items EXCEPT ![i] = Moved(@, "market", u, n)],
           UNCHANGED <<itemSupply, nextListingId>>
    PROVE  EscrowInv'
<1>1. /\ ListingsInv /\ items = [j \in Item |-> items[j]]
      /\ \A j \in Item : CoveredInv(j)
  BY DEF EscrowInv
<1>2. listings[id] \in [seller : Player, item : Item, amount : Nat, pricePerUnit : Price]
  BY <1>1 DEF ListingsInv
<1>3. /\ DOMAIN listings' \ {id} = DOMAIN listings \ {id}
      /\ DOMAIN listings' \subseteq DOMAIN listings
      /\ \A l \in DOMAIN listings \ {id} : listings'[l] = listings[l]
      /\ id \in DOMAIN listings' => listings'[id] = [listings[id] EXCEPT !.amount = @ - n]
  <2>1. CASE listings' = Without(id)
    BY <2>1 DEF Without
  <2>2. CASE listings' = [listings EXCEPT ![id].amount = @ - n]
    <3>1. listings' = [listings EXCEPT ![id] = [listings[id] EXCEPT !.amount = @ - n]]
      BY <2>2
    <3>. QED  BY <3>1
  <2>. QED  BY <2>1, <2>2
<1>4. /\ [listings[id] EXCEPT !.amount = @ - n]
            \in [seller : Player, item : Item, amount : Nat, pricePerUnit : Price]
      /\ [listings[id] EXCEPT !.amount = @ - n].item = i
  <2>1. listings[id].amount \in Nat /\ listings[id].amount - n \in Nat
    BY <1>2
  <2>. QED  BY <1>2, <2>1
<1>5. ListingsInv'
  <2>1. nextListingId' = nextListingId
    OBVIOUS
  <2>2. ASSUME NEW l \in DOMAIN listings'
        PROVE  /\ l \in Nat /\ l < nextListingId
               /\ listings'[l] \in [seller : Player, item : Item, amount : Nat, pricePerUnit : Price]
    <3>1. CASE l = id
      BY <1>1, <1>3, <1>4, <3>1 DEF ListingsInv
    <3>2. CASE l # id
      BY <1>1, <1>3, <3>2 DEF ListingsInv
    <3>. QED  BY <3>1, <3>2
  <2>. QED  BY <1>1, <2>1, <2>2 DEF ListingsInv
<1>6. i \in Item
  BY <1>2
<1>7. /\ items' = [j \in Item |-> items'[j]]
      /\ items'[i] = Moved(items[i], "market", u, n)
      /\ \A j \in Item \ {i} : items'[j] = items[j]
  BY <1>1, <1>6
<1>8. CoveredInv(i)'
  <2>1. Adds(Offered(i)', Offered(i), id, n)
    BY <1>1, OfferedLess, Zenon
  <2>2. itemSupply'[i] = itemSupply[i]
    OBVIOUS
  <2>. QED  BY <1>1, <1>6, <1>7, <2>1, <2>2, CoveredLess
<1>9. ASSUME NEW j \in Item, j # i
      PROVE  CoveredInv(j)'
  <2>1. items'[j] = items[j] /\ itemSupply'[j] = itemSupply[j]
    BY <1>7, <1>9
  <2>2. /\ listings[id].item # j
        /\ id \in DOMAIN listings' => listings'[id].item # j
    BY <1>3, <1>4, <1>9
  <2>. QED  BY <1>3, <2>1, <2>2, CoveredElsewhere
<1>10. \A j \in Item : CoveredInv(j)'
  BY <1>8, <1>9
<1>. QED
  BY <1>5, <1>7, <1>10 DEF EscrowInv

\* Minting, burning and sending change no offer and take nothing from escrow.
LEMMA ItemsKeep ==
    ASSUME EscrowInv, UNCHANGED <<listings, nextListingId>>,
           items' = [i \in Item |-> items'[i]],
           \A i \in Item : /\ items'[i] \in [Owner -> Nat] /\ IsFiniteSet(Units(items'[i]))
                           /\ itemSupply'[i] = SumOf(items'[i])
                           /\ items'[i]["market"] >= items[i]["market"]
    PROVE  EscrowInv'
<1>1. ListingsInv'
  BY DEF EscrowInv, ListingsInv
<1>2. ASSUME NEW i \in Item
      PROVE  CoveredInv(i)'
  <2>1. Offered(i)' = Offered(i)
    BY DEF Offered
  <2>2. CoveredInv(i)
    BY DEF EscrowInv
  <2>. QED  BY <2>1, <2>2, CoveredStill
<1>. QED
  BY <1>1, <1>2 DEF EscrowInv

\* A mint or a burn of n units of one holder.
LEMMA SumPlus ==
    ASSUME NEW f \in [Owner -> Nat], IsFiniteSet(Units(f)), NEW o \in Owner, NEW n \in Nat
    PROVE  /\ Plus(f, o, n) \in [Owner -> Nat] /\ IsFiniteSet(Units(Plus(f, o, n)))
           /\ SumOf(Plus(f, o, n)) = SumOf(f) + n
           /\ \A h \in Owner : Plus(f, o, n)[h] >= f[h]
           /\ f[o] >= n => /\ Plus(f, o, -n) \in [Owner -> Nat]
                           /\ IsFiniteSet(Units(Plus(f, o, -n)))
                           /\ SumOf(Plus(f, o, -n)) = SumOf(f) - n
                           /\ \A h \in Owner \ {o} : Plus(f, o, -n)[h] = f[h]
<1>1. /\ Plus(f, o, n) \in [Owner -> Nat] /\ Plus(f, o, n)[o] = f[o] + n
      /\ \A h \in Owner \ {o} : Plus(f, o, n)[h] = f[h]
  BY DEF Plus
<1>2. Adds(f, Plus(f, o, n), o, n)
  <2>1. f[o] \in Nat
    OBVIOUS
  <2>. QED  BY <1>1, <2>1 DEF Adds
<1>3. /\ IsFiniteSet(Units(Plus(f, o, n))) /\ SumOf(Plus(f, o, n)) = SumOf(f) + n
  BY <1>2, SumAdded
<1>4. ASSUME f[o] >= n
      PROVE  /\ Plus(f, o, -n) \in [Owner -> Nat]
             /\ IsFiniteSet(Units(Plus(f, o, -n)))
             /\ SumOf(Plus(f, o, -n)) = SumOf(f) - n
             /\ \A h \in Owner \ {o} : Plus(f, o, -n)[h] = f[h]
  <2>1. /\ Plus(f, o, -n) \in [Owner -> Nat] /\ Plus(f, o, -n)[o] = f[o] - n
        /\ \A h \in Owner \ {o} : Plus(f, o, -n)[h] = f[h]
    BY <1>4 DEF Plus
  <2>2. Adds(Plus(f, o, -n), f, o, n)
    <3>1. Plus(f, o, -n)[o] \in Nat /\ f[o] = Plus(f, o, -n)[o] + n
      BY <2>1
    <3>. QED  BY <2>1, <3>1 DEF Adds
  <2>3. /\ IsFiniteSet(Units(Plus(f, o, -n)))
        /\ SumOf(Plus(f, o, -n)) \in Nat /\ SumOf(f) = SumOf(Plus(f, o, -n)) + n
    BY <2>2, SumAdded
  <2>. QED  BY <2>1, <2>3
<1>5. \A h \in Owner : Plus(f, o, n)[h] >= f[h]
  BY <1>1
<1>. QED
  BY <1>1, <1>3, <1>4, <1>5

LEMMA MintingKeeps ==
    ASSUME EscrowInv, NEW u \in Player, NEW amounts \in [Item -> Nat],
           MintBatch(u, amounts) \/ BurnBatch(u, amounts)
    PROVE  EscrowInv'
<1>1. u \in Owner /\ "market" \in Owner /\ u # "market"
  BY TriTokenAssumption DEF Owner
<1>2. /\ UNCHANGED <<listings, nextListingId>>
      /\ items' = [i \in Item |-> items'[i]]
  BY DEF MintBatch, BurnBatch
<1>3. ASSUME NEW i \in Item
      PROVE  /\ items'[i] \in [Owner -> Nat] /\ IsFiniteSet(Units(items'[i]))
             /\ itemSupply'[i] = SumOf(items'[i])
             /\ items'[i]["market"] >= items[i]["market"]
  <2>1. /\ items[i] \in [Owner -> Nat] /\ IsFiniteSet(Units(items[i]))
        /\ itemSupply[i] = SumOf(items[i])
    BY DEF EscrowInv, CoveredInv
  <2>2. amounts[i] \in Nat /\ items[i]["market"] \in Nat
    BY <1>1, <2>1
  <2>3. CASE MintBatch(u, amounts)
    <3>1. items'[i] = Plus(items[i], u, amounts[i]) /\ itemSupply'[i] = itemSupply[i] + amounts[i]
      BY <2>3 DEF MintBatch
    <3>. QED  BY <1>1, <2>1, <2>2, <3>1, SumPlus
  <2>4. CASE BurnBatch(u, amounts)
    <3>1. /\ items'[i] = Plus(items[i], u, -amounts[i])
          /\ itemSupply'[i] = itemSupply[i] - amounts[i]
          /\ items[i][u] >= amounts[i]
      BY <2>4 DEF BurnBatch, Covers
    <3>2. items'[i]["market"] = items[i]["market"]
      BY <1>1, <2>1, <2>2, <3>1, SumPlus
    <3>. QED  BY <1>1, <2>1, <2>2, <3>1, <3>2, SumPlus
  <2>. QED  BY <2>3, <2>4
<1>. QED
  BY <1>2, <1>3, ItemsKeep

LEMMA SendingKeeps ==
    ASSUME EscrowInv, NEW u \in Player, NEW item \in Item, SendItem(u, "market", item, 1)
    PROVE  EscrowInv'
<1>1. u \in Owner /\ "market" \in Owner /\ u # "market"
  BY TriTokenAssumption DEF Owner
<1>2. /\ UNCHANGED <<listings, nextListingId, itemSupply>>
      /\ items' = [items EXCEPT ![item] = Moved(items[item], u, "market", 1)]
      /\ items[item][u] >= 1 /\ items = [i \in Item |-> items[i]]
  BY DEF SendItem, Covers, EscrowInv
<1>3. items' = [i \in Item |-> items'[i]]
  BY <1>2
<1>4. ASSUME NEW i \in Item
      PROVE  /\ items'[i] \in [Owner -> Nat] /\ IsFiniteSet(Units(items'[i]))
             /\ itemSupply'[i] = SumOf(items'[i])
             /\ items'[i]["market"] >= items[i]["market"]
  <2>1. /\ items[i] \in [Owner -> Nat] /\ IsFiniteSet(Units(items[i]))
        /\ itemSupply[i] = SumOf(items[i])
    BY DEF EscrowInv, CoveredInv
  <2>2. items[i]["market"] \in Nat
    BY <1>1, <2>1
  <2>3. CASE i = item
    <3>1. items'[i] = Moved(items[i], u, "market", 1) /\ items[i][u] >= 1
      BY <1>2, <2>3
    <3>. QED  BY <1>1, <1>2, <2>1, <2>2, <3>1, SumMoved
  <2>4. CASE i # item
    BY <1>2, <2>1, <2>2, <2>4
  <2>. QED  BY <2>3, <2>4
<1>5. UNCHANGED <<listings, nextListingId>>
  BY <1>2
<1>. QED
  BY <1>3, <1>4, <1>5, ItemsKeep

\* What none of the marketplace's and the items' transactions is.
LEMMA ElsewhereKeeps ==
    EscrowInv /\ UNCHANGED <<items, itemSupply, listings, nextListingId>> => EscrowInv'
<1>. SUFFICES ASSUME EscrowInv, UNCHANGED <<items, itemSupply, listings, nextListingId>>
              PROVE  EscrowInv'
  OBVIOUS
<1>1. items' = [i \in Item |-> items'[i]]
  BY DEF EscrowInv
<1>2. \A i \in Item : /\ items'[i] \in [Owner -> Nat] /\ IsFiniteSet(Units(items'[i]))
                      /\ itemSupply'[i] = SumOf(items'[i])
                      /\ items'[i]["market"] >= items[i]["market"]
  BY DEF EscrowInv, CoveredInv, Owner
<1>. QED
  BY <1>1, <1>2, ItemsKeep

LEMMA MarketKeeps ==
    ASSUME EscrowInv, MarketTransaction
    PROVE  EscrowInv'
<1>1. ASSUME NEW u \in Player, NEW item \in Item, NEW amount \in 1..2, NEW price \in Price,
             List(u, item, amount, price)
      PROVE  EscrowInv'
  <2>1. amount \in Nat
    OBVIOUS
  <2>. QED  BY <1>1, <2>1, ListKeeps
<1>2. ASSUME NEW u \in Player, NEW id \in DOMAIN listings, Cancel(u, id)
      PROVE  EscrowInv'
  <2>1. listings[id].amount \in Nat
    BY DEF EscrowInv, ListingsInv
  <2>2. /\ listings' = Without(id)
        /\ items' = [items EXCEPT ![listings[id].item] = Moved(@, "market", u, listings[id].amount)]
        /\ UNCHANGED <<itemSupply, nextListingId>>
    BY <1>2 DEF Cancel
  <2>3. listings[id].amount <= listings[id].amount
    BY <2>1
  <2>. QED  BY <2>1, <2>2, <2>3, TakingKeeps
<1>3. ASSUME NEW u \in Player, NEW id \in DOMAIN listings, NEW n \in 1..2, Buy(u, id, n)
      PROVE  EscrowInv'
  <2>1. n \in Nat /\ n <= listings[id].amount
    BY <1>3 DEF Buy
  <2>2. /\ \/ listings' = Without(id) /\ n = listings[id].amount
           \/ listings' = [listings EXCEPT ![id].amount = @ - n]
        /\ items' = [items EXCEPT ![listings[id].item] = Moved(@, "market", u, n)]
        /\ UNCHANGED <<itemSupply, nextListingId>>
    BY <1>3 DEF Buy
  <2>. QED  BY <2>1, <2>2, TakingKeeps
<1>4. ASSUME NEW u \in Player, NEW item \in Item, SendItem(u, "market", item, 1)
      PROVE  EscrowInv'
  BY <1>4, SendingKeeps
<1>5. ASSUME NEW u \in Player, NEW item \in Item,
             BurnBatch(u, [i \in Item |-> IF i = item THEN 1 ELSE 0])
      PROVE  EscrowInv'
  BY <1>5, MintingKeeps
<1>6. ASSUME NEW u \in Player, Compensate(u, 1)
      PROVE  EscrowInv'
  BY <1>6, ElsewhereKeeps DEF Compensate, marketVars
<1>. QED
  BY <1>1, <1>2, <1>3, <1>4, <1>5, <1>6 DEF MarketTransaction

LEMMA EscrowStep == EscrowInv /\ [ChainNext]_chainVars => EscrowInv'
<1>. SUFFICES ASSUME EscrowInv, [ChainNext]_chainVars
              PROVE  EscrowInv'
  OBVIOUS
<1>1. CASE UNCHANGED marketVars
  BY <1>1, ElsewhereKeeps DEF marketVars
<1>2. CASE Minting
  <2>1. CASE MintingItems
    <3>1. PICK u \in Player, item \in Item : MintBatch(u, [i \in Item |-> IF i = item THEN 2 ELSE 0])
      BY <2>1 DEF MintingItems
    <3>. QED  BY <3>1, MintingKeeps
  <2>. QED  BY <1>1, <1>2, <2>1 DEF Minting
<1>3. CASE Governance
  BY <1>3, ElsewhereKeeps DEF Governance, UpdateShares
<1>4. CASE MarketTransaction
  BY <1>4, MarketKeeps
<1>5. CASE TokenTransfer
  BY <1>1, <1>5 DEF TokenTransfer
<1>6. CASE Tick /\ UNCHANGED <<shopVars, marketVars, height>>
  BY <1>1, <1>6
<1>7. CASE UNCHANGED chainVars
  BY <1>1, <1>7 DEF chainVars
<1>8. [ChainNext]_chainVars =>
        \/ UNCHANGED marketVars
        \/ Minting
        \/ Governance
        \/ MarketTransaction
        \/ TokenTransfer
        \/ Tick /\ UNCHANGED <<shopVars, marketVars, height>>
        \/ UNCHANGED chainVars
  BY DEF ChainNext, Transaction
<1>. QED
  BY <1>1, <1>2, <1>3, <1>4, <1>5, <1>6, <1>7, <1>8

\* For any players, items, prices and listings the marketplace holds what all
\* its listings still offer, and totalSupply counts the units of all holders.
THEOREM EscrowsCover == ChainSpec => []EscrowCoversListings
<1>1. EscrowInv => EscrowCoversListings
  BY DEF EscrowInv, CoveredInv, EscrowCoversListings
<1>. QED
  BY <1>1, EscrowInit, EscrowStep, PTL DEF ChainSpec
-----------------------------------------------------------------------------
(***************************************************************************)
(* The indexer.  Without a WebSocket only the sync writes.  While it may   *)
(* still be in order, it works up to a block beyond the cursor unless some *)
(* answer was stale; a tax row has its shop row except between the two     *)
(* DELETEs; and what the cursor, once saved, will say is already so of     *)
(* every event the sync has not still to persist.                          *)
(***************************************************************************)
HandlersIdle == \A e \in Event : at[e] = "idle"

WithinTip == cursor <= tip /\ latest <= tip

Clearing == {"clearTax", "resetCursor"}
Persisting == {"lookUp", "insertShop", "logTax"}

StaleOrAhead ==
    /\ at[0] # "idle" /\ failures = 0 => cursor <= latest
    /\ at[0] \in Clearing => failures > 0 /\ ~env.production

TaxedIsShopped ==
    IF at[0] = "clearTax" THEN \A e \in Event : shop[e] = 0
    ELSE \A e \in Event : tax[e] > 0 => shop[e] > 0

ShoppedUpTo(block) == \A e \in Event : BlockOf[e] <= block => shop[e] > 0

InOrder ==
    /\ at[0] \in Step \ {"readCursor", "saveCursor"}
    /\ at[0] \notin Clearing => ShoppedUpTo(cursor)
    /\ at[0] = "resetCursor" => \A e \in Event : tax[e] = 0
    /\ at[0] = "query" => ShoppedUpTo(copy[0])
    /\ at[0] \in Persisting =>
        \A e \in Event : BlockOf[e] <= latest => shop[e] > 0 \/ e \in todo
    /\ at[0] \in {"insertShop", "logTax"} => todo # {}
    /\ at[0] = "logTax" => shop[Doing(0)] > 0

PollInv ==
    PollsOnly => HandlersIdle /\ WithinTip /\ StaleOrAhead /\ TaxedIsShopped /\ InOrder

ListenerInv == TypeOK /\ PollInv
-----------------------------------------------------------------------------
\* The sync has a next log as long as any is left.
LEMMA NextLog ==
    ASSUME NEW T, T \subseteq Event, T # {}
    PROVE  \E e \in T : \A f \in T : Before(e, f)
<1>1. ASSUME NEW S, S \subseteq Event, S # {}
      PROVE  \E e \in S : \A f \in S : e <= f
  <2>1. S \subseteq Nat /\ Event \subseteq Nat
    BY <1>1, TokenShopAssumption DEF Event
  <2>2. PICK e \in S : \A f \in S : <<f, e>> \notin OpToRel(<, Nat)
    BY <1>1, <2>1, NatLessThanWellFounded, WFMin
  <2>3. \A f \in S : ~(f < e)
    BY <2>1, <2>2 DEF OpToRel
  <2>. QED
    BY <2>1, <2>3
<1>2. CASE \E e \in T : IsBought[e]
  <2>1. PICK e \in {f \in T : IsBought[f]} : \A f \in {g \in T : IsBought[g]} : e <= f
    BY <1>1, <1>2
  <2>. QED
    BY <2>1, TokenShopAssumption DEF Before
<1>3. CASE ~ \E e \in T : IsBought[e]
  <2>1. PICK e \in T : \A f \in T : e <= f
    BY <1>1
  <2>. QED
    BY <1>3, <2>1, TokenShopAssumption DEF Before
<1>. QED
  BY <1>2, <1>3

LEMMA DoingIsLeft ==
    ASSUME TypeOK, NEW w \in Worker, w = 0 => todo # {}
    PROVE  Doing(w) \in Event /\ (w = 0 => Doing(w) \in todo)
<1>1. CASE w = 0
  <2>1. \E e \in todo : \A f \in todo : Before(e, f)
    BY <1>1, NextLog DEF TypeOK
  <2>. QED
    BY <1>1, <2>1 DEF Doing, TypeOK
<1>2. CASE w # 0
  BY <1>2, TokenShopAssumption DEF Doing, Worker, Event
<1>. QED
  BY <1>1, <1>2

LEMMA Constants ==
    /\ 0 \in Worker /\ Event \subseteq Worker /\ 0 \notin Event /\ Worker = Event \cup {0}
    /\ \A e \in Event : BlockOf[e] \in 0..LastBlock /\ BlockOf[e] >= 1
    /\ LastBlock \in Nat /\ MaxFailures \in Nat
<1>1. BlockOf \in [Event -> 1..LastBlock] /\ LastBlock \in Nat /\ MaxFailures \in Nat
      /\ N \in Nat
  BY TokenShopAssumption
<1>2. \A e \in Event : BlockOf[e] \in 1..LastBlock
  BY <1>1
<1>. QED
  BY <1>1, <1>2 DEF Event, Worker

\* The parts of TypeOK: data, and what is TRUE or FALSE.
DataOK ==
    /\ tip \in 0..LastBlock
    /\ shop \in [Event -> Nat]
    /\ tax \in [Event -> Nat]
    /\ cursor \in 0..LastBlock
    /\ at \in [Worker -> Step]
    /\ copy \in [Worker -> 0..LastBlock]
    /\ latest \in 0..LastBlock
    /\ todo \subseteq Event
    /\ failures \in 0..MaxFailures

FlagsOK ==
    /\ env \in Environment
    /\ syncInProgress \in BOOLEAN
    /\ polling \in BOOLEAN
    /\ syncInProgress = (at[0] # "idle")

LEMMA TypeParts == TypeOK <=> DataOK /\ FlagsOK
BY DEF TypeOK, DataOK, FlagsOK

LEMMA ListenerInitInv == Init => ListenerInv
<1> SUFFICES ASSUME Init PROVE ListenerInv
  OBVIOUS
<1>1. DataOK
  BY Constants DEF Init, DataOK, Step
<1>2. /\ env \in [webSocket : BOOLEAN, production : BOOLEAN] /\ env \in Environment
      /\ syncInProgress = FALSE /\ at[0] = "idle" /\ polling = ~env.webSocket
  BY Constants, TokenShopAssumption DEF Init
<1>3. FlagsOK
  BY <1>2 DEF FlagsOK
<1>. QED
  BY <1>1, <1>3, Constants, TypeParts
     DEF Init, ListenerInv, PollInv, HandlersIdle, WithinTip, StaleOrAhead, Clearing,
         Persisting, TaxedIsShopped, InOrder, ShoppedUpTo, Step

LEMMA ListenerData == TypeOK /\ [Next]_vars => DataOK'
<1> SUFFICES ASSUME TypeOK, DataOK, [Next]_vars PROVE DataOK'
  BY TypeParts
<1> USE Constants
<1>2. CASE MineBlock \/ Reindex \/ WebSocketError \/ UNCHANGED vars
  BY <1>2 DEF MineBlock, Reindex, WebSocketError, vars, tables, process, DataOK
<1>3. CASE StartSync
  BY <1>3 DEF StartSync, Failure, Goto, tables, DataOK, Step
<1>4. CASE Crash
  BY <1>4 DEF Crash, Failure, tables, DataOK, Step
<1>5. CASE NothingToSync \/ ReadState \/ ClearShop \/ ClearTax \/ ResetCursor
  BY <1>5
     DEF NothingToSync, ReadState, ClearShop, ClearTax, ResetCursor, EndSync, Goto, tables,
         DataOK, Step
<1>6. CASE Query \/ SaveSyncCursor
  BY <1>6 DEF Query, SaveSyncCursor, EndSync, Goto, tables, DataOK, Step
<1>7. ASSUME NEW w \in Worker, LookUp(w) \/ InsertShop(w) \/ LogTax(w)
      PROVE  DataOK'
  <2>1. Doing(w) \in Event
    BY <1>7, DoingIsLeft DEF LookUp, InsertShop, LogTax, AtEvent
  <2>. QED
    BY <1>7, <2>1
       DEF LookUp, InsertShop, LogTax, AtEvent, Persisted, Goto, tables, DataOK, Step
<1>8. ASSUME NEW w \in Worker, Duplicate(w) \/ WorkerFails(w)
      PROVE  DataOK'
  BY <1>8
     DEF Duplicate, WorkerFails, Caught, Failure, Stops, EndSync, Goto, tables, DataOK, Step
<1>9. ASSUME NEW e \in Event, Deliver(e) \/ ReadCursor(e) \/ SaveCursor(e)
      PROVE  DataOK'
  BY <1>9 DEF Deliver, ReadCursor, SaveCursor, Goto, tables, DataOK, Step
<1>. QED
  BY <1>2, <1>3, <1>4, <1>5, <1>6, <1>7, <1>8, <1>9
     DEF Next, SyncStep, HandlerStep

LEMMA ListenerFlags == TypeOK /\ [Next]_vars => FlagsOK'
<1> SUFFICES ASSUME TypeOK, DataOK, FlagsOK, [Next]_vars
             PROVE  /\ env' = env /\ polling' \in BOOLEAN
                    /\ \/ syncInProgress' = FALSE /\ at'[0] = "idle"
                       \/ syncInProgress' = TRUE /\ at'[0] # "idle"
                       \/ syncInProgress' = syncInProgress /\ (at'[0] = "idle" <=> at[0] = "idle")
  BY TypeParts DEF FlagsOK
<1>1. env' = env
  BY DEF Next, SyncStep, HandlerStep, MineBlock, StartSync, Reindex, Deliver, WorkerFails,
         WebSocketError, Crash, NothingToSync, ReadState, ClearShop, ClearTax, ResetCursor,
         Query, LookUp, InsertShop, LogTax, Duplicate, SaveSyncCursor, ReadCursor,
         SaveCursor, Caught, Stops, vars
<1>2. polling' \in BOOLEAN
  <2>1. env.webSocket \in BOOLEAN
    BY TokenShopAssumption DEF FlagsOK
  <2>2. polling' = polling \/ polling' = TRUE \/ polling' = ~env.webSocket
    BY DEF Next, SyncStep, HandlerStep, MineBlock, StartSync, Reindex, Deliver, WorkerFails,
           WebSocketError, Crash, NothingToSync, ReadState, ClearShop, ClearTax, ResetCursor,
           Query, LookUp, InsertShop, LogTax, Duplicate, SaveSyncCursor, ReadCursor,
           SaveCursor, Caught, Stops, process, vars
  <2>. QED
    BY <2>1, <2>2 DEF FlagsOK
<1>3. \/ syncInProgress' = FALSE /\ at'[0] = "idle"
      \/ syncInProgress' = TRUE /\ at'[0] # "idle"
      \/ syncInProgress' = syncInProgress /\ (at'[0] = "idle" <=> at[0] = "idle")
  <2>1. ASSUME NEW step, NEW w \in Worker, at' = [at EXCEPT ![w] = step]
        PROVE  at'[0] = IF w = 0 THEN step ELSE at[0]
    BY <2>1, Constants DEF DataOK
  <2>2. CASE MineBlock \/ Reindex \/ WebSocketError \/ UNCHANGED vars
    BY <2>2 DEF MineBlock, Reindex, WebSocketError, process, vars
  <2>3. CASE StartSync
    <3>1. at'[0] = "readState"
      BY <2>1, <2>3, Constants DEF StartSync, Goto
    <3>2. syncInProgress' = TRUE
      BY <2>3 DEF StartSync
    <3>. QED
      BY <3>1, <3>2
  <2>4. CASE Crash
    BY <2>4, Constants DEF Crash
  <2>5. CASE NothingToSync \/ SaveSyncCursor
    BY <2>1, <2>5, Constants DEF NothingToSync, SaveSyncCursor, EndSync, Goto
  <2>6. CASE ReadState \/ ClearShop \/ ClearTax \/ ResetCursor \/ Query
    BY <2>1, <2>6, Constants
       DEF ReadState, ClearShop, ClearTax, ResetCursor, EndSync, Query, Goto
  <2>7. ASSUME NEW w \in Worker,
               LookUp(w) \/ InsertShop(w) \/ LogTax(w) \/ Duplicate(w) \/ WorkerFails(w)
        PROVE  \/ syncInProgress' = FALSE /\ at'[0] = "idle"
               \/ syncInProgress' = syncInProgress /\ (at'[0] = "idle" <=> at[0] = "idle")
    BY <2>1, <2>7, Constants
       DEF LookUp, InsertShop, LogTax, Duplicate, WorkerFails, Caught, Stops, EndSync,
           AtEvent, Persisted, Goto
  <2>8. ASSUME NEW e \in Event, Deliver(e) \/ ReadCursor(e) \/ SaveCursor(e)
        PROVE  syncInProgress' = syncInProgress /\ at'[0] = at[0]
    BY <2>1, <2>8, Constants DEF Deliver, ReadCursor, SaveCursor, Goto
  <2>. QED
    BY <2>2, <2>3, <2>4, <2>5, <2>6, <2>7, <2>8, Constants DEF Next, SyncStep, HandlerStep
<1>. QED
  BY <1>1, <1>2, <1>3

LEMMA ListenerType == TypeOK /\ [Next]_vars => TypeOK'
BY ListenerData, ListenerFlags DEF TypeOK, DataOK, FlagsOK

\* Settings stay and failures add up: a run that is beyond PollsOnly stays so.
LEMMA PollsOnlyEnds == TypeOK /\ [Next]_vars /\ PollsOnly' => PollsOnly
<1> SUFFICES ASSUME TypeOK, [Next]_vars
             PROVE  env' = env /\ failures' \in Nat /\ failures <= failures'
  BY TokenShopAssumption DEF PollsOnly, TypeOK
<1>1. failures' = failures \/ failures' = failures + 1
  BY DEF Next, SyncStep, HandlerStep, MineBlock, StartSync, Reindex, Deliver, WorkerFails,
         WebSocketError, Crash, NothingToSync, ReadState, ClearShop, ClearTax, ResetCursor,
         Query, LookUp, InsertShop, LogTax, Duplicate, SaveSyncCursor, ReadCursor,
         SaveCursor, Failure, vars
<1>2. env' = env
  BY DEF Next, SyncStep, HandlerStep, MineBlock, StartSync, Reindex, Deliver, WorkerFails,
         WebSocketError, Crash, NothingToSync, ReadState, ClearShop, ClearTax, ResetCursor,
         Query, LookUp, InsertShop, LogTax, Duplicate, SaveSyncCursor, ReadCursor,
         SaveCursor, Caught, Stops, vars
<1>. QED
  BY <1>1, <1>2, TokenShopAssumption DEF TypeOK

\* The steps of the sync, of the chain and of the process while polling is all
\* there is.
LEMMA PollStep ==
    ASSUME ListenerInv, TypeOK', PollsOnly, PollsOnly', [Next]_vars
    PROVE  PollInv'
<1>1. /\ HandlersIdle /\ WithinTip /\ StaleOrAhead /\ TaxedIsShopped /\ InOrder
      /\ TypeOK /\ DataOK /\ ~env.webSocket
  BY TypeParts DEF ListenerInv, PollInv, PollsOnly
<1>2. /\ 0 \in Worker /\ Event \subseteq Worker /\ 0 \notin Event /\ Worker = Event \cup {0}
      /\ \A e \in Event : BlockOf[e] \in Nat /\ BlockOf[e] >= 1
      /\ tip \in Nat /\ latest \in Nat /\ cursor \in Nat /\ failures \in Nat
      /\ copy[0] \in Nat
  BY <1>1, Constants DEF DataOK
<1> SUFFICES HandlersIdle' /\ WithinTip' /\ StaleOrAhead' /\ TaxedIsShopped' /\ InOrder'
  BY DEF PollInv
<1>3. CASE MineBlock
  BY <1>1, <1>2, <1>3
     DEF MineBlock, tables, process, HandlersIdle, WithinTip, StaleOrAhead, Clearing,
         TaxedIsShopped, InOrder, ShoppedUpTo, Doing, Persisting
<1>4. CASE StartSync
  <2>0. at[0] = "idle"
    BY <1>1, <1>4, TypeParts DEF StartSync, FlagsOK
  <2>1. /\ at' = [at EXCEPT ![0] = "readState"]
        /\ latest' = tip \/ (latest' \in 0..(tip - 1) /\ failures' = failures + 1)
        /\ UNCHANGED <<tip, shop, tax, cursor, copy, todo>>
    BY <1>4 DEF StartSync, Failure, Goto, tables
  <2>2. at'[0] = "readState" /\ \A e \in Event : at'[e] = at[e]
    BY <1>1, <1>2, <2>1 DEF DataOK
  <2>. QED
    BY <1>1, <1>2, <2>0, <2>1, <2>2
       DEF HandlersIdle, WithinTip, StaleOrAhead, Clearing, TaxedIsShopped, InOrder,
           ShoppedUpTo, Persisting, Step
<1>5. CASE Crash \/ \E w \in Worker : WorkerFails(w)
  <2>1. /\ failures' = failures + 1 /\ at'[0] = "idle"
        /\ \A e \in Event : at'[e] = "idle"
        /\ UNCHANGED <<env, tip, shop, tax, cursor>> /\ latest' \in {0, latest}
    BY <1>1, <1>2, <1>5
       DEF Crash, WorkerFails, Caught, Failure, Stops, EndSync, Goto, tables, HandlersIdle,
           DataOK
  <2>2. at[0] \notin Clearing
    BY <1>1, <1>2, <2>1 DEF StaleOrAhead, PollsOnly, DataOK
  <2>. QED
    BY <1>1, <1>2, <2>1, <2>2
       DEF HandlersIdle, WithinTip, StaleOrAhead, Clearing, TaxedIsShopped, InOrder,
           ShoppedUpTo, Persisting, Step
<1>6. CASE Reindex
  BY <1>1, <1>2, <1>6
     DEF Reindex, process, HandlersIdle, WithinTip, StaleOrAhead, Clearing, TaxedIsShopped,
         InOrder, ShoppedUpTo, Doing, Persisting
<1>7. CASE WebSocketError \/ \E e \in Event : Deliver(e) \/ HandlerStep(e)
  <2>1. \A e \in Event : e # 0 /\ at[e] = "idle"
    BY <1>1, <1>2 DEF HandlersIdle
  <2>. QED
    BY <1>1, <1>7, <2>1
       DEF WebSocketError, Deliver, HandlerStep, LookUp, InsertShop, LogTax, Duplicate,
           ReadCursor, SaveCursor, AtEvent
<1>8. CASE UNCHANGED vars
  BY <1>1, <1>2, <1>8
     DEF vars, HandlersIdle, WithinTip, StaleOrAhead, Clearing,
         TaxedIsShopped, InOrder, ShoppedUpTo, Doing, Persisting
<1>9. ASSUME NEW step, at' = [at EXCEPT ![0] = step]
      PROVE  at'[0] = step /\ HandlersIdle'
  BY <1>1, <1>2, <1>9 DEF HandlersIdle, DataOK
<1>10. CASE NothingToSync \/ ReadState
  <2>1. at[0] = "readState" /\ UNCHANGED <<tip, shop, tax, cursor, latest, failures>>
    BY <1>10 DEF NothingToSync, ReadState, tables
  <2>2. HandlersIdle' /\ at'[0] \in {"idle", "query"} /\ (at'[0] = "query" => copy'[0] = cursor)
    BY <1>1, <1>2, <1>9, <1>10 DEF NothingToSync, ReadState, EndSync, Goto, DataOK
  <2>. QED
    BY <1>1, <1>2, <2>1, <2>2
       DEF WithinTip, StaleOrAhead, Clearing, TaxedIsShopped, InOrder,
           ShoppedUpTo, Persisting, Step
<1>11. CASE ClearShop
  <2>1. /\ at[0] = "readState" /\ cursor > latest /\ ~env.production
        /\ shop' = [e \in Event |-> 0] /\ at'[0] = "clearTax" /\ HandlersIdle'
        /\ UNCHANGED <<env, tip, cursor, latest, failures>>
    BY <1>9, <1>11 DEF ClearShop, Goto, MayClear
  <2>. QED
    BY <1>1, <1>2, <2>1
       DEF WithinTip, StaleOrAhead, Clearing, TaxedIsShopped, InOrder, ShoppedUpTo,
           Persisting, Step
<1>12. CASE ClearTax
  <2>1. /\ at[0] = "clearTax" /\ tax' = [e \in Event |-> 0]
        /\ at'[0] = "resetCursor" /\ HandlersIdle'
        /\ UNCHANGED <<env, tip, shop, cursor, latest, failures>>
    BY <1>9, <1>12 DEF ClearTax, Goto
  <2>. QED
    BY <1>1, <1>2, <2>1
       DEF WithinTip, StaleOrAhead, Clearing, TaxedIsShopped, InOrder, ShoppedUpTo,
           Persisting, Step
<1>13. CASE ResetCursor
  <2>1. /\ at[0] = "resetCursor" /\ cursor' = 0
        /\ at'[0] \in {"idle", "query"} /\ HandlersIdle'
        /\ copy'[0] = 0
        /\ UNCHANGED <<env, tip, shop, tax, latest, failures>>
    BY <1>1, <1>2, <1>9, <1>13 DEF ResetCursor, EndSync, Goto, DataOK
  <2>. QED
    BY <1>1, <1>2, <2>1
       DEF WithinTip, StaleOrAhead, Clearing, TaxedIsShopped, InOrder, ShoppedUpTo,
           Persisting, Step
<1>14. CASE Query
  <2>1. /\ at[0] = "query" /\ at'[0] = "lookUp" /\ HandlersIdle'
        /\ todo' = {e \in Event : BlockOf[e] \in (copy[0] + 1)..latest}
        /\ UNCHANGED <<env, tip, shop, tax, cursor, latest, failures>>
    BY <1>9, <1>14 DEF Query, FirstBlock, Goto, tables
  <2>. QED
    BY <1>1, <1>2, <2>1
       DEF WithinTip, StaleOrAhead, Clearing, TaxedIsShopped, InOrder, ShoppedUpTo,
           Persisting, Step
<1>15. CASE LookUp(0)
  <2> DEFINE d == Doing(0)
  <2>1. todo # {} /\ at[0] = "lookUp" /\ UNCHANGED <<env, tip, shop, tax, cursor, latest, failures>>
    BY <1>15 DEF LookUp, AtEvent, tables
  <2>2. d \in todo /\ d \in Event
    BY <1>1, <1>2, <2>1, DoingIsLeft
  <2>3. CASE Stored(d)
    <3>1. at'[0] = "lookUp" /\ HandlersIdle' /\ todo' = todo \ {d} /\ shop[d] > 0
      BY <1>1, <1>9, <1>15, <2>1, <2>2, <2>3 DEF LookUp, Persisted, Goto, Stored, TaxedIsShopped
    <3>. QED
      BY <1>1, <1>2, <2>1, <3>1
         DEF WithinTip, StaleOrAhead, Clearing, TaxedIsShopped, InOrder, ShoppedUpTo,
             Persisting, Step
  <2>4. CASE ~Stored(d)
    <3>1. at'[0] = "insertShop" /\ HandlersIdle' /\ todo' = todo
      BY <1>9, <1>15, <2>4 DEF LookUp, Goto
    <3>. QED
      BY <1>1, <1>2, <2>1, <3>1
         DEF WithinTip, StaleOrAhead, Clearing, TaxedIsShopped, InOrder, ShoppedUpTo,
             Persisting, Step
  <2>. QED
    BY <2>3, <2>4
<1>16. CASE InsertShop(0)
  <2> DEFINE d == Doing(0)
  <2>1. /\ todo # {} /\ at[0] = "insertShop" /\ at'[0] = "logTax" /\ HandlersIdle'
        /\ shop' = [shop EXCEPT ![d] = @ + 1] /\ todo' = todo
        /\ UNCHANGED <<env, tip, tax, cursor, latest, failures>>
    BY <1>9, <1>16 DEF InsertShop, AtEvent, Goto
  <2>2. d \in Event /\ Doing(0)' = d
    BY <1>1, <1>2, <2>1, DoingIsLeft DEF Doing
  <2>3. shop'[d] > 0 /\ \A e \in Event : shop[e] > 0 => shop'[e] > 0
    BY <1>1, <2>1, <2>2 DEF DataOK
  <2>. QED
    BY <1>1, <1>2, <2>1, <2>2, <2>3
       DEF WithinTip, StaleOrAhead, Clearing, TaxedIsShopped, InOrder, ShoppedUpTo,
           Persisting, Step
<1>17. CASE LogTax(0)
  <2> DEFINE d == Doing(0)
  <2>1. /\ todo # {} /\ at[0] = "logTax" /\ at'[0] = "lookUp" /\ HandlersIdle'
        /\ tax' = [tax EXCEPT ![d] = @ + 1] /\ todo' = todo \ {d}
        /\ UNCHANGED <<env, tip, shop, cursor, latest, failures>>
    BY <1>9, <1>17 DEF LogTax, AtEvent, Persisted, Goto
  <2>2. d \in Event /\ shop[d] > 0
    BY <1>1, <1>2, <2>1, DoingIsLeft DEF InOrder
  <2>3. \A e \in Event : tax'[e] > 0 => shop'[e] > 0
    BY <1>1, <2>1, <2>2 DEF TypeOK, TaxedIsShopped
  <2>. QED
    BY <1>1, <1>2, <2>1, <2>2, <2>3
       DEF WithinTip, StaleOrAhead, Clearing, TaxedIsShopped, InOrder, ShoppedUpTo,
           Persisting, Step
<1>18. CASE Duplicate(0)
  <2>1. /\ at[0] \in {"insertShop", "logTax"} /\ at'[0] = "idle" /\ HandlersIdle'
        /\ UNCHANGED <<env, tip, shop, tax, cursor, latest, failures>>
    BY <1>9, <1>18 DEF Duplicate, AtEvent, Stops, EndSync, Goto, tables
  <2>. QED
    BY <1>1, <1>2, <2>1
       DEF WithinTip, StaleOrAhead, Clearing, TaxedIsShopped, InOrder, ShoppedUpTo,
           Persisting, Step
<1>19. CASE SaveSyncCursor
  <2>1. /\ at[0] = "lookUp" /\ todo = {} /\ at'[0] = "idle" /\ HandlersIdle'
        /\ cursor' = latest
        /\ UNCHANGED <<env, tip, shop, tax, latest, failures>>
    BY <1>9, <1>19 DEF SaveSyncCursor, EndSync, Goto
  <2>. QED
    BY <1>1, <1>2, <2>1
       DEF WithinTip, StaleOrAhead, Clearing, TaxedIsShopped, InOrder, ShoppedUpTo,
           Persisting, Step
<1>. QED
  BY <1>3, <1>4, <1>5, <1>6, <1>7, <1>8, <1>10, <1>11, <1>12, <1>13, <1>14, <1>15, <1>16,
     <1>17, <1>18, <1>19
     DEF Next, SyncStep

\* Every variable of the indexer keeps its type, with WebSocket handlers too,
\* and syncInProgress says exactly that the sync is under way.
THEOREM TypeCorrect == Spec => []TypeOK
  BY ListenerInitInv, ListenerType, PTL DEF Spec, ListenerInv

\* However the sync, the crashes and one stale answer fall, polling alone never
\* moves the cursor past a trade that is not stored.
THEOREM PollingSkipsNothing == Spec => []NothingSkipped
<1>1. ListenerInv /\ [Next]_vars => ListenerInv'
  BY ListenerType, PollsOnlyEnds, PollStep DEF ListenerInv, PollInv
<1>2. ListenerInv => NothingSkipped
  BY DEF ListenerInv, PollInv, InOrder, ShoppedUpTo, Clearing, NothingSkipped
<1>. QED
  BY ListenerInitInv, <1>1, <1>2, PTL DEF Spec
-----------------------------------------------------------------------------
(***************************************************************************)
(* The tax history: the tally of the stored events, and the handlers that  *)
(* keep a cost basis in step with it.                                      *)
(***************************************************************************)
\* What the first of two sequences of rows determines, step by step.
LEMMA SameUpTo ==
    ASSUME NEW m \in Nat, NEW f, NEW g, f[0] = g[0],
           \A i \in 1..m : f[i - 1] = g[i - 1] => f[i] = g[i]
    PROVE  \A i \in 0..m : f[i] = g[i]
<1>. DEFINE bad == {i \in 0..m : f[i] # g[i]}
<1>1. SUFFICES ASSUME bad # {} PROVE FALSE
  OBVIOUS
<1>2. bad \subseteq Nat
  OBVIOUS
<1>3. PICK i \in bad : \A j \in bad : <<j, i>> \notin OpToRel(<, Nat)
  BY <1>1, <1>2, NatLessThanWellFounded, WFMin
<1>4. \A j \in bad : ~(j < i)
  BY <1>2, <1>3 DEF OpToRel
<1>5. i \in 1..m /\ i - 1 \in 0..m /\ i - 1 < i
  OBVIOUS
<1>6. f[i - 1] = g[i - 1]
  BY <1>4, <1>5
<1>. QED
  BY <1>5, <1>6

\* Where nothing is counted, nothing changes.
LEMMA HoldsStill ==
    ASSUME NEW f, NEW a \in Nat, NEW b \in Nat, a <= b,
           \A n \in (a + 1)..b : f[n] = f[n - 1]
    PROVE  f[b] = f[a]
<1>. DEFINE differs == {n \in Nat : n \in a..b /\ f[n] # f[a]}
<1>1. SUFFICES ASSUME differs # {} PROVE FALSE
  OBVIOUS
<1>2. PICK n \in differs : \A m \in differs : <<m, n>> \notin OpToRel(<, Nat)
  <2>1. differs \subseteq Nat
    OBVIOUS
  <2>. HIDE DEF differs
  <2>. QED
    BY <1>1, <2>1, NatLessThanWellFounded, WFMin
<1>3. n \in Nat /\ n \in a..b /\ f[n] # f[a]
  BY <1>2
<1>4. n # a
  BY <1>3
<1>5. n \in (a + 1)..b /\ n - 1 \in a..b /\ n - 1 \in Nat /\ n - 1 < n
  BY <1>3, <1>4
<1>6. n - 1 \notin differs
  BY <1>2, <1>5 DEF OpToRel
<1>7. f[n] = f[n - 1]
  BY <1>5
<1>. QED
  BY <1>3, <1>5, <1>6, <1>7

\* Rows counted by two clocks that order them alike: what holds of both counts
\* at the start and is kept by every row holds at the end.
LEMMA TwoClocks ==
    ASSUME NEW rows, NEW id \in [rows -> Nat \ {0}], NEW place \in [rows -> Nat \ {0}],
           NEW f, NEW g, NEW alike,
           \A d, e \in rows : id[d] < id[e] <=> place[d] < place[e],
           \A d, e \in rows : id[d] = id[e] => d = e,
           \A n \in Nat \ {0} : (\A e \in rows : id[e] # n) => f[n] = f[n - 1],
           \A n \in Nat \ {0} : (\A e \in rows : place[e] # n) => g[n] = g[n - 1],
           <<f[0], g[0]>> \in alike,
           \A e \in rows : <<f[id[e] - 1], g[place[e] - 1]>> \in alike
                               => <<f[id[e]], g[place[e]]>> \in alike,
           NEW n \in Nat, NEW m \in Nat,
           \A e \in rows : id[e] <= n /\ place[e] <= m
    PROVE  <<f[n], g[m]>> \in alike
<1>. DEFINE Met(i, p) == \A e \in rows : id[e] <= i <=> place[e] <= p
            apart == {p \in Nat : \E i \in Nat : Met(i, p) /\ <<f[i], g[p]>> \notin alike}
<1>1. SUFFICES ASSUME apart # {} PROVE FALSE
  <2>1. Met(n, m)
    OBVIOUS
  <2>. HIDE DEF Met
  <2>. QED
    BY <2>1
<1>2. PICK p \in apart : \A q \in apart : <<q, p>> \notin OpToRel(<, Nat)
  <2>1. apart \subseteq Nat
    OBVIOUS
  <2>. HIDE DEF apart
  <2>. QED
    BY <1>1, <2>1, NatLessThanWellFounded, WFMin
<1>3. \A q \in Nat : q < p => q \notin apart
  BY <1>2 DEF OpToRel
<1>4. PICK i \in Nat : Met(i, p) /\ <<f[i], g[p]>> \notin alike
  BY <1>2
<1>5. p \in Nat
  BY <1>2
<1>6. p # 0
  <2>1. SUFFICES ASSUME p = 0 PROVE FALSE
    OBVIOUS
  <2>2. \A e \in rows : id[e] > i
    BY <1>4, <2>1
  <2>3. \A j \in (0 + 1)..i : f[j] = f[j - 1]
    BY <2>2
  <2>4. f[i] = f[0]
    BY <2>3, HoldsStill
  <2>. QED
    BY <1>4, <2>1, <2>4
<1>7. p - 1 \in Nat /\ p - 1 < p /\ p \in Nat \ {0}
  BY <1>5, <1>6
<1>8. \A j \in Nat : Met(j, p - 1) => <<f[j], g[p - 1]>> \in alike
  <2>. HIDE DEF Met
  <2>. QED
    BY <1>3, <1>7
<1>9. CASE \A e \in rows : place[e] # p
  <2>1. Met(i, p - 1)
    BY <1>4, <1>7, <1>9
  <2>2. g[p] = g[p - 1]
    BY <1>7, <1>9
  <2>. QED
    BY <1>4, <1>8, <2>1, <2>2
<1>10. CASE \E e \in rows : place[e] = p
  <2>1. PICK e \in rows : place[e] = p
    BY <1>10
  <2>2. id[e] \in Nat /\ id[e] <= i /\ id[e] - 1 \in Nat
    BY <1>4, <2>1
  <2>3. Met(id[e] - 1, p - 1)
    BY <1>7, <2>1, <2>2
  <2>4. <<f[id[e]], g[p]>> \in alike
    BY <1>8, <2>1, <2>2, <2>3
  <2>5. \A d \in rows : id[d] \notin (id[e] + 1)..i
    BY <1>4, <2>1, <2>2
  <2>6. \A j \in (id[e] + 1)..i : f[j] = f[j - 1]
    BY <2>2, <2>5
  <2>7. f[i] = f[id[e]]
    BY <2>2, <2>6, HoldsStill
  <2>. QED
    BY <1>4, <2>4, <2>7
<1>. QED
  BY <1>9, <1>10

\* A step on rows for every number, taken over and over from a first row.
Repeats(f, S, s, step) ==
    f \in [Nat -> S] /\ f[0] = s /\ \A n \in Nat \ {0} : f[n] = step[n][f[n - 1]]

LEMMA StepsRepeat ==
    ASSUME NEW S, NEW s \in S, NEW step \in [Nat -> [S -> S]]
    PROVE  \E f : Repeats(f, S, s, step)
<1>. DEFINE Good(g, n) ==
         /\ g \in [0..n -> S] /\ g[0] = s
         /\ \A i \in 1..n : g[i] = step[i][g[i - 1]]
            bad == {n \in Nat : ~ \E g : Good(g, n)}
<1>1. ASSUME NEW n \in Nat, NEW g, Good(g, n)
      PROVE  Good([i \in 0..(n + 1) |-> IF i = n + 1 THEN step[i][g[n]] ELSE g[i]], n + 1)
  <2>. DEFINE h == [i \in 0..(n + 1) |-> IF i = n + 1 THEN step[i][g[n]] ELSE g[i]]
  <2>1. step[n + 1][g[n]] \in S
    BY <1>1
  <2>2. h \in [0..(n + 1) -> S]
    BY <1>1, <2>1
  <2>3. h[0] = s
    BY <1>1
  <2>4. \A i \in 1..(n + 1) : h[i] = step[i][h[i - 1]]
    BY <1>1
  <2>. QED
    BY <2>2, <2>3, <2>4
<1>2. ASSUME bad # {} PROVE FALSE
  <2>1. PICK n \in bad : \A j \in bad : <<j, n>> \notin OpToRel(<, Nat)
    BY <1>2, NatLessThanWellFounded, WFMin
  <2>2. \A j \in bad : ~(j < n)
    BY <2>1 DEF OpToRel
  <2>3. Good([i \in 0..0 |-> s], 0)
    OBVIOUS
  <2>4. n # 0
    BY <2>3
  <2>5. n - 1 \in Nat /\ n - 1 < n
    BY <2>4
  <2>6. PICK g : Good(g, n - 1)
    BY <2>2, <2>5
  <2>7. \E h : Good(h, (n - 1) + 1)
    <3>. HIDE DEF Good
    <3>. QED
      BY <1>1, <2>5, <2>6
  <2>8. (n - 1) + 1 = n
    BY <2>5
  <2>. QED
    BY <2>7, <2>8
<1>3. \A n \in Nat : \E g : Good(g, n)
  BY <1>2
<1>. DEFINE first(n) == CHOOSE g : Good(g, n)
            f == [n \in Nat |-> first(n)[n]]
<1>4. \A n \in Nat : Good(first(n), n)
  <2>. HIDE DEF Good
  <2>. QED
    BY <1>3
<1>. HIDE DEF first
<1>5. ASSUME NEW n \in Nat PROVE first(n + 1)[n] = first(n)[n]
  <2>1. Good(first(n), n) /\ Good(first(n + 1), n + 1)
    BY <1>4
  <2>2. first(n + 1)[0] = first(n)[0]
    BY <2>1
  <2>3. \A i \in 1..n : first(n + 1)[i - 1] = first(n)[i - 1] => first(n + 1)[i] = first(n)[i]
    BY <2>1
  <2>4. \A i \in 0..n : first(n + 1)[i] = first(n)[i]
    <3>. HIDE DEF Good
    <3>. QED
      BY <2>2, <2>3, SameUpTo
  <2>. QED
    BY <2>4
<1>6. f \in [Nat -> S] /\ f[0] = s
  BY <1>4
<1>7. ASSUME NEW n \in Nat \ {0} PROVE f[n] = step[n][f[n - 1]]
  <2>1. n - 1 \in Nat /\ (n - 1) + 1 = n
    OBVIOUS
  <2>2. first(n)[n] = step[n][first(n)[n - 1]]
    BY <1>4
  <2>3. first(n)[n - 1] = first(n - 1)[n - 1]
    BY <1>5, <2>1
  <2>. QED
    BY <2>1, <2>2, <2>3
<1>. QED
  BY <1>6, <1>7 DEF Repeats


\* What a counted leg is.
Countable(leg) ==
    leg.amount \in Nat \ {0} /\ leg.usd \in Int /\ leg.type \in {"acquisition", "disposal"}

LEMMA LegsAreCountable ==
    ASSUME NEW l \in Log
    PROVE  /\ Len(Legs[l]) \in Nat /\ DOMAIN Legs[l] = 1..Len(Legs[l])
           /\ \A i \in DOMAIN Legs[l] : Countable(Legs[l][i]) /\ KeyOf(Legs[l][i]) \in Key
           /\ Legs[l] # << >> => 1 \in DOMAIN Legs[l]
           /\ FromShop(l) => Legs[l] # << >>
<1>. DEFINE e == Emitted[l]
<1>1. ASSUME NEW user, NEW asset, NEW type \in {"acquisition", "disposal"},
             NEW amount \in Nat \ {0}, NEW usd \in Int
      PROVE  Countable(LegOf(user, asset, type, amount, usd))
  BY DEF Countable, LegOf
<1>2. Unknown \in Int
  BY DEF Unknown
<1>3. Legs[l] = CASE e.event = "Marketplace.Sold" -> SoldLegs(e)
                  [] e.event = "Transfer" -> TransferLegs(e)
                  [] OTHER -> TradeLegs(e)
  BY DEF Legs
<1>4. \A i \in DOMAIN Legs[l] : KeyOf(Legs[l][i]) \in Key
  BY DEF Key
<1>5. CASE e.event = "Marketplace.Sold"
  <2>1. Legs[l] = SoldLegs(e)
    BY <1>3, <1>5
  <2>. DEFINE a == LegOf(e.seller, e.asset, "disposal", 1, Unknown)
              b == LegOf(e.buyer, e.asset, "acquisition", 1, Unknown)
              c == LegOf(e.buyer, "TRI", "disposal", 1, Unknown)
  <2>2. Legs[l] = <<a, b, c>> /\ Countable(a) /\ Countable(b) /\ Countable(c)
    BY <1>1, <1>2, <2>1 DEF SoldLegs
  <2>. HIDE DEF a, b, c
  <2>3. Len(Legs[l]) = 3 /\ DOMAIN Legs[l] = 1..3
    BY <2>2
  <2>4. \A i \in DOMAIN Legs[l] : Countable(Legs[l][i])
    BY <2>2, <2>3
  <2>. QED
    BY <1>4, <1>5, <2>3, <2>4 DEF FromShop
<1>6. CASE e.event = "Transfer"
  <2>1. Legs[l] = TransferLegs(e)
    BY <1>3, <1>6
  <2>2. CASE "zero" \in {e.from, e.to}
    BY <1>6, <2>1, <2>2 DEF TransferLegs, FromShop
  <2>3. CASE "zero" \notin {e.from, e.to}
    <3>. DEFINE a == LegOf(e.from, "TRI", "disposal", 1, Unknown)
                b == LegOf(e.to, "TRI", "acquisition", 1, Unknown)
    <3>0. Countable(a) /\ Countable(b)
      BY <1>1, <1>2
    <3>1. Legs[l] = <<a, b>> /\ Countable(a) /\ Countable(b)
      BY <2>1, <2>3, <3>0 DEF TransferLegs
    <3>. HIDE DEF a, b
    <3>2. Len(Legs[l]) = 2 /\ DOMAIN Legs[l] = 1..2
      BY <3>1
    <3>3. \A i \in DOMAIN Legs[l] : Countable(Legs[l][i])
      BY <3>1, <3>2
    <3>. QED
      BY <1>4, <1>6, <3>2, <3>3 DEF FromShop
  <2>. QED
    BY <2>2, <2>3
<1>7. CASE e.event \notin {"Marketplace.Sold", "Transfer"}
  <2>1. Legs[l] = TradeLegs(e)
    BY <1>3, <1>7
  <2>2. FromShop(l) /\ e.amount \in Nat \ {0} /\ e.usd \in Int
    BY <1>2, <1>7, TaxHistoryAssumption DEF FromShop
  <2>. DEFINE a == LegOf(e.user, "TRI", IF e.event = "Bought" THEN "acquisition" ELSE "disposal",
                         e.amount, e.usd)
  <2>3. Legs[l] = <<a>> /\ Countable(a)
    BY <1>1, <2>1, <2>2 DEF TradeLegs
  <2>. HIDE DEF a
  <2>4. Len(Legs[l]) = 1 /\ DOMAIN Legs[l] = 1..1
    BY <2>3
  <2>5. \A i \in DOMAIN Legs[l] : Countable(Legs[l][i])
    BY <2>3, <2>4
  <2>. QED
    BY <1>4, <2>4, <2>5
<1>. QED
  BY <1>5, <1>6, <1>7

LEMMA Rows ==
    /\ NoRow \in Row /\ NewRow \in Row
    /\ NoRow.h = Nothing /\ NoRow.last = -1 /\ NewRow.h = Nothing /\ NewRow.last = 0
    /\ DOMAIN Nothing = {"quantity", "cost", "gains", "losses"}
  BY DEF NoRow, NewRow, Row, Nothing

LEMMA TwoEdited ==
    ASSUME NEW D, "quantity" \in D, "cost" \in D, NEW g \in [D -> Int], NEW a \in Int, NEW b \in Int
    PROVE  [g EXCEPT !.quantity = a, !.cost = b] \in [D -> Int]
  OBVIOUS

Holding == [DOMAIN Nothing -> Int]

LEMMA HoldingKept ==
    ASSUME NEW h \in Holding, NEW price \in Int, NEW n \in Nat
    PROVE  /\ Acquired(h, price, n) \in Holding
           /\ Released(h, n) \in Holding
           /\ Realized(h, price, n) \in Holding
           /\ Disposed(h, price, n) \in Holding
<1>1. DOMAIN Nothing = {"quantity", "cost", "gains", "losses"}
  BY Rows
<1>2. ASSUME NEW g \in Holding PROVE Average(g) \in Int
  BY <1>1, <1>2 DEF Average, Holding
<1>3. ASSUME NEW g \in Holding
      PROVE  Acquired(g, price, n) \in Holding /\ Released(g, n) \in Holding /\ Realized(g, price, n) \in Holding
  <2>. DEFINE cost == price * n
              share == Average(g) * n
  <2>1. Average(g) \in Int
    BY <1>2
  <2>2. cost \in Int /\ share \in Int /\ (price - Average(g)) * n \in Int
    BY <2>1
  <2>3. Acquired(g, price, n) \in Holding
    <3>1. Acquired(g, price, n) = [g EXCEPT !.quantity = g.quantity + n, !.cost = g.cost + cost]
      BY DEF Acquired
    <3>2. g.quantity + n \in Int /\ g.cost + cost \in Int
      BY <1>1, <2>2 DEF Holding
    <3>. HIDE DEF cost
    <3>. QED
      BY <1>1, <3>1, <3>2, TwoEdited DEF Holding
  <2>4. Released(g, n) \in Holding
    <3>1. Released(g, n) = [g EXCEPT !.quantity = g.quantity - n, !.cost = g.cost - share]
      BY DEF Released
    <3>2. g.quantity - n \in Int /\ g.cost - share \in Int
      BY <1>1, <2>2 DEF Holding
    <3>. HIDE DEF share
    <3>. QED
      BY <1>1, <3>1, <3>2, TwoEdited DEF Holding
  <2>5. Realized(g, price, n) \in Holding
    BY <1>1, <2>2 DEF Realized, Holding
  <2>. QED
    BY <2>3, <2>4, <2>5
<1>. QED
  BY <1>3 DEF Disposed

LEMMA CountedType ==
    ASSUME NEW h \in [DOMAIN Nothing -> Int], NEW leg, Countable(leg)
    PROVE  Counted(h, leg) \in [DOMAIN Nothing -> Int]
  BY HoldingKept DEF Counted, Countable, Holding

\* Every stored row has a leg to count and an id of its own.
RowsOK(rows) ==
    /\ \A e \in rows : Countable(LegOfRow(e))
    /\ \A d, e \in rows : d.id = e.id => d = e

StoredAs(rows, n) == {e \in rows : e.id = n}

TallyStep(rows, n, row) ==
    IF StoredAs(rows, n) = {} THEN row
    ELSE [h |-> Counted(row.h, LegOfRow(CHOOSE e \in StoredAs(rows, n) : TRUE)), last |-> n]

LEMMA TallyStepType ==
    ASSUME NEW rows, RowsOK(rows), NEW n \in Nat, NEW row \in Row
    PROVE  TallyStep(rows, n, row) \in Row
<1>1. CASE StoredAs(rows, n) = {}
  BY <1>1 DEF TallyStep
<1>2. CASE StoredAs(rows, n) # {}
  <2>. DEFINE e == CHOOSE d \in StoredAs(rows, n) : TRUE
  <2>1. e \in rows
    BY <1>2 DEF StoredAs
  <2>2. Counted(row.h, LegOfRow(e)) \in [DOMAIN Nothing -> Int]
    BY <2>1, CountedType DEF RowsOK, Row
  <2>3. TallyStep(rows, n, row) = [h |-> Counted(row.h, LegOfRow(e)), last |-> n]
    BY <1>2 DEF TallyStep
  <2>. HIDE DEF e
  <2>. QED
    BY <2>2, <2>3 DEF Row
<1>. QED
  BY <1>1, <1>2

\* The tally is the function that its equation asks for.
LEMMA TallyUnfolds ==
    ASSUME NEW rows, RowsOK(rows)
    PROVE  /\ Tally(rows)[0] = NoRow
           /\ \A n \in Nat \ {0} : Tally(rows)[n] = TallyStep(rows, n, Tally(rows)[n - 1])
<1>. DEFINE step == [n \in Nat |-> [row \in Row |-> TallyStep(rows, n, row)]]
            Equation(f) == f = [n \in Nat |-> IF n = 0 THEN NoRow ELSE TallyStep(rows, n, f[n - 1])]
<1>1. step \in [Nat -> [Row -> Row]]
  BY TallyStepType
<1>2. \E f : Repeats(f, Row, NoRow, step)
  <2>1. NoRow \in Row
    BY Rows
  <2>. HIDE DEF step
  <2>. QED
    BY <1>1, <2>1, StepsRepeat
<1>3. PICK f \in [Nat -> Row] : f[0] = NoRow /\ \A n \in Nat \ {0} : f[n] = step[n][f[n - 1]]
  BY <1>2 DEF Repeats
<1>4. ASSUME NEW n \in Nat \ {0} PROVE f[n] = TallyStep(rows, n, f[n - 1])
  <2>1. n \in Nat /\ f[n - 1] \in Row /\ f[n] = step[n][f[n - 1]]
    BY <1>3
  <2>. QED
    BY <2>1
<1>5. Equation(f)
  BY <1>3, <1>4
<1>6. Tally(rows) = CHOOSE g : Equation(g)
  BY DEF Tally, TallyStep, StoredAs
<1>7. Equation(Tally(rows))
  BY <1>5, <1>6
<1>. QED
  BY <1>7

\* What the rows up to an id determine.
LEMMA TallyAgrees ==
    ASSUME NEW rows, RowsOK(rows), NEW more, RowsOK(more), NEW m \in Nat \ {0},
           \A n \in 1..(m - 1) : StoredAs(more, n) = StoredAs(rows, n)
    PROVE  Tally(more)[m - 1] = Tally(rows)[m - 1]
<1>. DEFINE f == Tally(rows)
            g == Tally(more)
            top == m - 1
<1>1. f[0] = NoRow /\ \A n \in Nat \ {0} : f[n] = TallyStep(rows, n, f[n - 1])
  BY TallyUnfolds
<1>2. g[0] = NoRow /\ \A n \in Nat \ {0} : g[n] = TallyStep(more, n, g[n - 1])
  BY TallyUnfolds
<1>. HIDE DEF f, g
<1>3. ASSUME NEW n \in 1..top, f[n - 1] = g[n - 1] PROVE f[n] = g[n]
  <2>1. n \in Nat \ {0}
    OBVIOUS
  <2>2. f[n] = TallyStep(rows, n, f[n - 1]) /\ g[n] = TallyStep(more, n, f[n - 1])
    BY <1>1, <1>2, <1>3, <2>1
  <2>3. StoredAs(more, n) = StoredAs(rows, n)
    OBVIOUS
  <2>4. TallyStep(more, n, f[n - 1]) = TallyStep(rows, n, f[n - 1])
    BY <2>3, Zenon DEF TallyStep
  <2>. QED
    BY <2>2, <2>4
<1>4. \A n \in 0..top : f[n] = g[n]
  <2>1. f[0] = g[0]
    BY <1>1, <1>2
  <2>2. \A n \in 1..top : f[n - 1] = g[n - 1] => f[n] = g[n]
    BY <1>3
  <2>. QED
    BY <2>1, <2>2, SameUpTo
<1>. QED
  BY <1>4 DEF f, g

\* One more row takes the tally one step further.
LEMMA TallyExtends ==
    ASSUME NEW rows, RowsOK(rows), NEW more, RowsOK(more), NEW n \in Nat \ {0}, NEW new,
           \A e \in rows : e.id \in 1..(n - 1), more = rows \union {new}, new.id = n
    PROVE  Tally(more)[n] =
              [h |-> Counted(Tally(rows)[n - 1].h, LegOfRow(new)), last |-> n]
<1>1. \A i \in 1..(n - 1) : StoredAs(more, i) = StoredAs(rows, i)
  BY DEF StoredAs
<1>2. Tally(more)[n - 1] = Tally(rows)[n - 1]
  BY <1>1, TallyAgrees
<1>3. StoredAs(more, n) = {new}
  BY DEF StoredAs
<1>4. Tally(more)[n] = TallyStep(more, n, Tally(more)[n - 1])
  BY TallyUnfolds
<1>. QED
  BY <1>2, <1>3, <1>4 DEF TallyStep

\* An id of another row takes it no further.
LEMMA TallyWaits ==
    ASSUME NEW rows, RowsOK(rows), NEW n \in Nat \ {0},
           \A e \in rows : e.id \in 1..(n - 1)
    PROVE  Tally(rows)[n] = Tally(rows)[n - 1]
<1>1. StoredAs(rows, n) = {}
  BY DEF StoredAs
<1>. QED
  BY <1>1, TallyUnfolds DEF TallyStep

(***************************************************************************)
(* Where the handlers are.                                                 *)
(***************************************************************************)
PlacesOK ==
    /\ \A l \in Log : l > mined => doing[l] = "mine"
    /\ \A l \in Log : doing[l] \notin Running => work[l] = Idle
    /\ \A l \in Log : doing[l] = "wait" => FromShop(l)

\* A handler goes on to s, with the local variables w.
Moves(l, s, w) ==
    /\ doing' = [doing EXCEPT ![l] = s] /\ work' = [work EXCEPT ![l] = w]
    /\ s \in Stage /\ w \in Locals
    /\ s \in Running => w.leg \in DOMAIN Legs[l]
    /\ s \notin Running => w = Idle
    /\ s = "wait" => FromShop(l)

LEMMA IdleType == Idle \in Locals /\ Idle.leg = 1 /\ Idle.id = 0 /\ Idle.copy = NoRow /\ Idle.seen = NoRow
  BY Rows DEF Idle, Locals, Unknown

\* What is edited in the local variables.
LEMMA SekEdited ==
    ASSUME NEW w \in Locals, NEW sek \in Int
    PROVE  [w EXCEPT !.sek = sek] \in Locals /\ [w EXCEPT !.sek = sek].leg = w.leg
  BY DEF Locals

LEMMA IdEdited ==
    ASSUME NEW w \in Locals, NEW id \in Nat
    PROVE  /\ [w EXCEPT !.id = id] \in Locals
           /\ [w EXCEPT !.id = id].leg = w.leg /\ [w EXCEPT !.id = id].id = id
           /\ [w EXCEPT !.id = id].copy = w.copy /\ [w EXCEPT !.id = id].seen = w.seen
  BY DEF Locals

LEMMA CopyEdited ==
    ASSUME NEW w \in Locals, NEW row \in Row
    PROVE  /\ [w EXCEPT !.copy = row] \in Locals
           /\ [w EXCEPT !.copy = row].leg = w.leg /\ [w EXCEPT !.copy = row].id = w.id
           /\ [w EXCEPT !.copy = row].copy = row /\ [w EXCEPT !.copy = row].seen = w.seen
  BY DEF Locals

LEMMA SeenEdited ==
    ASSUME NEW w \in Locals, NEW row \in Row
    PROVE  /\ [w EXCEPT !.seen = row] \in Locals
           /\ [w EXCEPT !.seen = row].leg = w.leg /\ [w EXCEPT !.seen = row].id = w.id
           /\ [w EXCEPT !.seen = row].copy = w.copy /\ [w EXCEPT !.seen = row].seen = row
  BY DEF Locals

\* A leg that is being stored is countable, and its key has a basis.
LEMMA LegInHand ==
    ASSUME TaxTypeOK, NEW l \in Log, doing[l] \in Running
    PROVE  Countable(Leg(l)) /\ MyKey(l) \in Key
<1>1. work[l].leg \in DOMAIN Legs[l]
  BY DEF TaxTypeOK
<1>. QED
  BY <1>1, LegsAreCountable DEF Leg, MyKey

LEMMA MyLocals ==
    ASSUME TaxTypeOK, NEW l \in Log
    PROVE  work[l] \in Locals /\ doing[l] \in Stage
  BY DEF TaxTypeOK

LEMMA StayIn ==
    ASSUME TaxTypeOK, NEW l \in Log, NEW s, NEW w, doing[l] \in Running,
           doing' = [doing EXCEPT ![l] = s], s \in Running,
           work' = [work EXCEPT ![l] = w], w \in Locals, w.leg = work[l].leg
    PROVE  Moves(l, s, w)
<1>1. work[l].leg \in DOMAIN Legs[l]
  BY DEF TaxTypeOK
<1>2. s \in Stage /\ s # "wait"
  BY DEF Stage, Running, Updating
<1>. QED
  BY <1>1, <1>2 DEF Moves

LEMMA SameLocals ==
    ASSUME TaxTypeOK, NEW l \in Log
    PROVE  work = [work EXCEPT ![l] = work[l]] /\ work[l] \in Locals
  BY DEF TaxTypeOK

LEMMA NextLegMoves ==
    ASSUME TaxTypeOK, NEW l \in Log, doing[l] \in Running, NextLeg(l)
    PROVE  \E s, w : Moves(l, s, w) /\ s \in {"value", "over"} /\ w.copy = NoRow /\ w.seen = NoRow
<1>1. work[l] \in Locals /\ work[l].leg \in DOMAIN Legs[l] /\ work[l].leg \in Nat
  BY DEF TaxTypeOK, Locals
<1>2. Len(Legs[l]) \in Nat /\ DOMAIN Legs[l] = 1..Len(Legs[l])
  BY LegsAreCountable
<1>3. CASE work[l].leg < Len(Legs[l])
  <2>. DEFINE w == [Idle EXCEPT !.leg = work[l].leg + 1]
  <2>1. doing' = [doing EXCEPT ![l] = "value"] /\ work' = [work EXCEPT ![l] = w]
    BY <1>3 DEF NextLeg, Continue
  <2>2. w \in Locals /\ w.leg = work[l].leg + 1 /\ w.copy = NoRow /\ w.seen = NoRow
    BY <1>1, IdleType DEF Locals
  <2>3. w.leg \in DOMAIN Legs[l]
    BY <1>1, <1>2, <1>3, <2>2
  <2>4. "value" \in Stage /\ "value" \in Running
    BY DEF Stage, Running
  <2>. HIDE DEF w
  <2>5. Moves(l, "value", w)
    BY <2>1, <2>2, <2>3, <2>4 DEF Moves
  <2>. QED
    BY <2>2, <2>5
<1>4. CASE ~(work[l].leg < Len(Legs[l]))
  <2>1. doing' = [doing EXCEPT ![l] = "over"] /\ work' = [work EXCEPT ![l] = Idle]
    BY <1>4 DEF NextLeg, Continue
  <2>2. "over" \in Stage /\ "over" \notin Running
    BY DEF Stage, Running, Updating
  <2>3. Moves(l, "over", Idle)
    BY <2>1, <2>2, IdleType DEF Moves
  <2>. QED
    BY <2>3, IdleType
<1>. QED
  BY <1>3, <1>4

\* A move keeps the types of what it moves, and everyone in place.
LEMMA MovesKeep ==
    ASSUME TaxTypeOK, PlacesOK, NEW l \in Log, NEW s, NEW w, Moves(l, s, w), l <= mined', mined <= mined',
           mined' \in Int
    PROVE  /\ doing' \in [Log -> Stage] /\ work' \in [Log -> Locals]
           /\ \A m \in Log : doing'[m] \in Running => work'[m].leg \in DOMAIN Legs[m]
           /\ PlacesOK'
<1>1. doing \in [Log -> Stage] /\ work \in [Log -> Locals] /\ mined \in Int /\ Log \subseteq Int
  BY TaxHistoryAssumption DEF TaxTypeOK
<1>2. doing' \in [Log -> Stage] /\ work' \in [Log -> Locals]
  BY <1>1 DEF Moves
<1>3. doing'[l] = s /\ work'[l] = w /\ \A m \in Log \ {l} : doing'[m] = doing[m] /\ work'[m] = work[m]
  BY <1>1 DEF Moves
<1>4. ASSUME NEW m \in Log PROVE doing'[m] \in Running => work'[m].leg \in DOMAIN Legs[m]
  BY <1>3 DEF TaxTypeOK, Moves
<1>5. ASSUME NEW m \in Log, m > mined' PROVE doing'[m] = "mine"
  BY <1>1, <1>3, <1>5 DEF PlacesOK
<1>6. ASSUME NEW m \in Log, doing'[m] \notin Running PROVE work'[m] = Idle
  BY <1>3, <1>6 DEF PlacesOK, Moves
<1>7. ASSUME NEW m \in Log, doing'[m] = "wait" PROVE FromShop(m)
  BY <1>3, <1>7 DEF PlacesOK, Moves
<1>. QED
  BY <1>2, <1>4, <1>5, <1>6, <1>7 DEF PlacesOK, Running

LEMMA ConnectionInit == InitConnection => ConnectionTypeOK
<1>1. 0 \in 0..MaxFaults
  BY ChainIndexerAssumption
<1>. QED
  BY <1>1 DEF InitConnection, ConnectionTypeOK, Socket, Delay

LEMMA ConnectionKeeps ==
    ASSUME ConnectionTypeOK,
           \/ ConnectionStep \/ Start \/ UNCHANGED connection
           \/ faults < MaxFaults /\ Die
    PROVE  ConnectionTypeOK'
<1>. USE ChainIndexerAssumption DEF ConnectionTypeOK, Socket, Delay
<1>1. \A d \in Delay : AtMost(d * 2, 12) \in Delay
  BY DEF AtMost
<1>2. ScheduleReconnect => reconnectTimer' \in BOOLEAN /\ reconnectDelay' \in Delay
  BY <1>1 DEF ScheduleReconnect
<1>3. CASE Connected
  BY <1>3 DEF Connected
<1>4. CASE ConnectionLost
  BY <1>2, <1>4 DEF ConnectionLost
<1>5. CASE TimerFires
  BY <1>5 DEF TimerFires
<1>6. CASE Reopen
  BY <1>6 DEF Reopen
<1>7. CASE OnModuleDestroy
  BY <1>7 DEF OnModuleDestroy
<1>8. CASE Start
  BY <1>8 DEF Start
<1>9. CASE UNCHANGED connection
  BY <1>9 DEF connection
<1>10. CASE faults < MaxFaults /\ Die
  <2>1. faults + 1 \in 0..MaxFaults
    BY <1>10
  <2>. QED
    BY <1>10, <2>1 DEF Die
<1>. QED
  BY <1>3, <1>4, <1>5, <1>6, <1>7, <1>8, <1>9, <1>10 DEF ConnectionStep

\* The tables and the caches, and what they are left as.
TablesOK ==
    /\ nextId \in Nat \ {0}
    /\ events \subseteq [id : 1..(nextId - 1), log : 1..mined, leg : Nat, sek : Int]
    /\ \A e \in events : e.leg \in DOMAIN Legs[e.log]
    /\ basis \in [Key -> Row]
    /\ healthy \in BOOLEAN
    /\ rates \in [Day -> Nat]
    /\ unsettled \subseteq Key

LEMMA TaxTypeParts ==
    TaxTypeOK <=> /\ mined \in 0..Len(Emitted)
                  /\ doing \in [Log -> Stage] /\ work \in [Log -> Locals]
                  /\ \A l \in Log : doing[l] \in Running => work[l].leg \in DOMAIN Legs[l]
                  /\ TablesOK /\ ConnectionTypeOK
  BY DEF TaxTypeOK, TablesOK

LEMMA TaxTypeStep ==
    ASSUME TaxTypeOK, PlacesOK, NEW l \in Log, doing[l] # "mine", NEW s, NEW w, Moves(l, s, w),
           mined' = mined, UNCHANGED connection, TablesOK'
    PROVE  TaxTypeOK' /\ PlacesOK'
<1>1. mined \in 0..Len(Emitted) /\ l \in Int /\ l <= mined /\ mined \in Int
  BY TaxHistoryAssumption DEF TaxTypeOK, PlacesOK
<1>2. /\ doing' \in [Log -> Stage] /\ work' \in [Log -> Locals]
      /\ \A m \in Log : doing'[m] \in Running => work'[m].leg \in DOMAIN Legs[m]
      /\ PlacesOK'
  BY <1>1, MovesKeep
<1>3. ConnectionTypeOK'
  BY ConnectionKeeps DEF TaxTypeOK
<1>. QED
  BY <1>1, <1>2, <1>3, TaxTypeParts DEF TaxTypeOK, TablesOK

LEMMA ValueMoves ==
    ASSUME TaxTypeOK, NEW l \in Log, Value(l)
    PROVE  \E s, w : Moves(l, s, w) /\ s \in {"fetch", "insert"} /\ w.leg = work[l].leg
<1>1. doing[l] \in Running /\ {"fetch", "insert"} \subseteq Running
  BY DEF Value, Running
<1>2. CASE Positive(Leg(l).usd) /\ rates[DayOf[l]] = NoRate
  BY <1>1, <1>2, StayIn, SameLocals DEF Value, Continue
<1>3. CASE ~(Positive(Leg(l).usd) /\ rates[DayOf[l]] = NoRate)
  <2>. DEFINE sek == IF Positive(Leg(l).usd) THEN InSek(Leg(l).usd, rates[DayOf[l]]) ELSE Unknown
              w == [work[l] EXCEPT !.sek = sek]
  <2>1. doing' = [doing EXCEPT ![l] = "insert"] /\ work' = [work EXCEPT ![l] = w]
    BY <1>3 DEF Value, Continue
  <2>2. sek \in Int
    <3>1. Leg(l).usd \in Int /\ rates[DayOf[l]] \in Nat
      BY <1>1, LegInHand DEF Countable, TaxTypeOK, Day
    <3>. QED
      BY <3>1 DEF InSek, Unknown
  <2>3. w \in Locals /\ w.leg = work[l].leg
    BY <2>2, MyLocals, SekEdited
  <2>. HIDE DEF w
  <2>. QED
    BY <1>1, <2>1, <2>3, StayIn
<1>. QED
  BY <1>2, <1>3

LEMMA FetchMoves ==
    ASSUME TaxTypeOK, NEW l \in Log, FetchRate(l)
    PROVE  /\ \E s, w : Moves(l, s, w) /\ s = "insert" /\ w.leg = work[l].leg
           /\ rates' \in [Day -> Nat]
<1>1. doing[l] \in Running /\ "insert" \in Running
  BY DEF FetchRate, Running
<1>2. PICK rate \in Fetched(DayOf[l]) :
         /\ rates' = IF rate = NoRate THEN rates ELSE [rates EXCEPT ![DayOf[l]] = rate]
         /\ work' = [work EXCEPT ![l].sek = InSek(Leg(l).usd, rate)]
         /\ doing' = [doing EXCEPT ![l] = "insert"]
  BY DEF FetchRate, Continue
<1>3. DayOf[l] \in Day /\ rate \in Nat
  BY TaxHistoryAssumption DEF Fetched, Day, NoRate
<1>4. rates' \in [Day -> Nat]
  BY <1>2, <1>3 DEF TaxTypeOK
<1>. DEFINE w == [work[l] EXCEPT !.sek = InSek(Leg(l).usd, rate)]
<1>5. InSek(Leg(l).usd, rate) \in Int
  <2>1. Leg(l).usd \in Int
    BY <1>1, LegInHand DEF Countable
  <2>. QED
    BY <1>3, <2>1 DEF InSek, Unknown
<1>6. w \in Locals /\ w.leg = work[l].leg
  BY <1>5, MyLocals, SekEdited
<1>7. work' = [work EXCEPT ![l] = w]
  BY <1>2
<1>. HIDE DEF w
<1>8. Moves(l, "insert", w)
  BY <1>1, <1>2, <1>6, <1>7, StayIn
<1>. QED
  BY <1>4, <1>6, <1>8

LEMMA InsertMoves ==
    ASSUME TaxTypeOK, NEW l \in Log, InsertEvent(l)
    PROVE  \E w : /\ Moves(l, "find", w) /\ w.leg = work[l].leg /\ w.id = nextId
                  /\ w.copy = work[l].copy /\ w.seen = work[l].seen
<1>. DEFINE w == [work[l] EXCEPT !.id = nextId]
<1>1. doing[l] \in Running /\ "find" \in Running
  BY DEF InsertEvent, Running, Updating
<1>2. doing' = [doing EXCEPT ![l] = "find"] /\ work' = [work EXCEPT ![l] = w]
  BY DEF InsertEvent, Continue
<1>3. /\ w \in Locals /\ w.leg = work[l].leg /\ w.id = nextId
      /\ w.copy = work[l].copy /\ w.seen = work[l].seen
  <2>1. nextId \in Nat
    BY DEF TaxTypeOK
  <2>. QED
    BY <2>1, MyLocals, IdEdited
<1>. HIDE DEF w
<1>. QED
  BY <1>1, <1>2, <1>3, StayIn

\* What updateCostBasis finds, or creates in memory.
Known(l) == IF basis[MyKey(l)] = NoRow THEN NewRow ELSE basis[MyKey(l)]
CountedCopy(l) == [h |-> Counted(Known(l).h, Leg(l)), last |-> work[l].id]

LEMMA FindMoves ==
    ASSUME TaxTypeOK, NEW l \in Log, FindBasis(l)
    PROVE  \E s, w :
              /\ Moves(l, s, w) /\ w.leg = work[l].leg /\ w.id = work[l].id /\ w.seen = work[l].seen
              /\ \/ s = "healthy" /\ work[l].id <= Known(l).last /\ w.copy = work[l].copy
                 \/ /\ ~(work[l].id <= Known(l).last) /\ w.copy = CountedCopy(l)
                    /\ s = IF basis[MyKey(l)] = NoRow THEN "create" ELSE "select"
<1>1. doing[l] \in Running /\ {"healthy", "create", "select"} \subseteq Running
  BY DEF FindBasis, Running, Updating
<1>2. CASE work[l].id <= Known(l).last
  <2>1. doing' = [doing EXCEPT ![l] = "healthy"] /\ work' = work
    BY <1>2 DEF FindBasis, Continue, Known
  <2>2. Moves(l, "healthy", work[l])
    BY <1>1, <2>1, StayIn, SameLocals
  <2>. QED
    BY <1>2, <2>2
<1>3. CASE ~(work[l].id <= Known(l).last)
  <2>. DEFINE s == IF basis[MyKey(l)] = NoRow THEN "create" ELSE "select"
              w == [work[l] EXCEPT !.copy = CountedCopy(l)]
  <2>1. doing' = [doing EXCEPT ![l] = s] /\ work' = [work EXCEPT ![l] = w]
    BY <1>3 DEF FindBasis, Continue, Known, CountedCopy
  <2>2. CountedCopy(l) \in Row
    <3>1. Countable(Leg(l)) /\ MyKey(l) \in Key
      BY <1>1, LegInHand
    <3>2. Known(l) \in Row /\ work[l].id \in Int
      BY <3>1, Rows DEF Known, TaxTypeOK, Locals
    <3>3. Counted(Known(l).h, Leg(l)) \in [DOMAIN Nothing -> Int]
      BY <3>1, <3>2, CountedType DEF Row
    <3>. QED
      BY <3>2, <3>3 DEF CountedCopy, Row
  <2>3. /\ w \in Locals /\ w.leg = work[l].leg /\ w.id = work[l].id
        /\ w.copy = CountedCopy(l) /\ w.seen = work[l].seen
    BY <2>2, MyLocals, CopyEdited
  <2>. HIDE DEF w
  <2>4. Moves(l, s, w)
    <3>1. s \in Running
      BY <1>1
    <3>. HIDE DEF s
    <3>. QED
      BY <1>1, <2>1, <2>3, <3>1, StayIn
  <2>. QED
    BY <1>3, <2>3, <2>4
<1>. QED
  BY <1>2, <1>3

LEMMA CreateMoves ==
    ASSUME TaxTypeOK, NEW l \in Log, CreateBasis(l)
    PROVE  /\ Moves(l, IF basis[MyKey(l)] = NoRow THEN "healthy" ELSE "failed", work[l])
           /\ basis' \in [Key -> Row]
<1>1. doing[l] \in Running /\ {"healthy", "failed"} \subseteq Running
  BY DEF CreateBasis, Running, Updating
<1>2. work' = work /\ doing' = [doing EXCEPT ![l] = IF basis[MyKey(l)] = NoRow THEN "healthy" ELSE "failed"]
  BY DEF CreateBasis, Continue
<1>3. basis' \in [Key -> Row]
  <2>1. work[l].copy \in Row
    BY MyLocals DEF Locals
  <2>. QED
    BY <2>1 DEF CreateBasis, TaxTypeOK
<1>4. CASE basis[MyKey(l)] = NoRow
  BY <1>1, <1>2, <1>3, <1>4, StayIn, SameLocals
<1>5. CASE basis[MyKey(l)] # NoRow
  BY <1>1, <1>2, <1>3, <1>5, StayIn, SameLocals
<1>. QED
  BY <1>4, <1>5

LEMMA SelectMoves ==
    ASSUME TaxTypeOK, NEW l \in Log, SelectBasis(l)
    PROVE  \E w : /\ Moves(l, "update", w) /\ w.leg = work[l].leg /\ w.id = work[l].id
                  /\ w.copy = work[l].copy /\ w.seen = basis[MyKey(l)]
<1>. DEFINE w == [work[l] EXCEPT !.seen = basis[MyKey(l)]]
<1>1. doing[l] \in Running /\ "update" \in Running
  BY DEF SelectBasis, Running, Updating
<1>2. doing' = [doing EXCEPT ![l] = "update"] /\ work' = [work EXCEPT ![l] = w]
  BY DEF SelectBasis, Continue
<1>3. /\ w \in Locals /\ w.leg = work[l].leg /\ w.id = work[l].id
      /\ w.copy = work[l].copy /\ w.seen = basis[MyKey(l)]
  <2>1. basis[MyKey(l)] \in Row
    BY <1>1, LegInHand DEF TaxTypeOK
  <2>. QED
    BY <2>1, MyLocals, SeenEdited
<1>. HIDE DEF w
<1>. QED
  BY <1>1, <1>2, <1>3, StayIn

LEMMA MergedType ==
    ASSUME NEW row \in Row, NEW mine \in Row, NEW selected \in Row
    PROVE  /\ Merged(row, mine, selected) \in Row
           /\ Merged(row, mine, selected).last \in {row.last, mine.last}
           /\ row = selected => Merged(row, mine, selected) = mine
<1>1. DOMAIN row.h = DOMAIN Nothing /\ mine.h \in [DOMAIN Nothing -> Int] /\ row.h \in [DOMAIN Nothing -> Int]
  BY DEF Row
<1>2. Merged(row, mine, selected).h \in [DOMAIN Nothing -> Int]
  BY <1>1 DEF Merged
<1>3. Merged(row, mine, selected).last \in {row.last, mine.last}
  BY DEF Merged
<1>4. Merged(row, mine, selected) \in Row
  BY <1>2, <1>3 DEF Row, Merged
<1>5. ASSUME row = selected PROVE Merged(row, mine, selected) = mine
  <2>1. [f \in DOMAIN row.h |-> IF mine.h[f] # selected.h[f] THEN mine.h[f] ELSE row.h[f]] = mine.h
    BY <1>1, <1>5
  <2>2. (IF mine.last # selected.last THEN mine.last ELSE row.last) = mine.last
    BY <1>5
  <2>3. mine = [h |-> mine.h, last |-> mine.last]
    BY DEF Row
  <2>. QED
    BY <2>1, <2>2, <2>3 DEF Merged
<1>. QED
  BY <1>3, <1>4, <1>5

LEMMA UpdateMoves ==
    ASSUME TaxTypeOK, NEW l \in Log, UpdateBasis(l)
    PROVE  /\ Moves(l, "healthy", work[l])
           /\ basis' = [basis EXCEPT ![MyKey(l)] = Merged(basis[MyKey(l)], work[l].copy, work[l].seen)]
           /\ basis' \in [Key -> Row]
<1>1. doing[l] \in Running /\ "healthy" \in Running
  BY DEF UpdateBasis, Running, Updating
<1>2. work' = work /\ doing' = [doing EXCEPT ![l] = "healthy"]
  BY DEF UpdateBasis, Continue
<1>3. basis' = [basis EXCEPT ![MyKey(l)] = Merged(basis[MyKey(l)], work[l].copy, work[l].seen)]
  BY DEF UpdateBasis
<1>4. MyKey(l) \in Key /\ basis[MyKey(l)] \in Row /\ work[l].copy \in Row /\ work[l].seen \in Row
  BY <1>1, LegInHand, MyLocals DEF TaxTypeOK, Locals
<1>5. basis' \in [Key -> Row]
  BY <1>3, <1>4, MergedType DEF TaxTypeOK
<1>. QED
  BY <1>1, <1>2, <1>3, <1>5, StayIn, SameLocals

LEMMA MarkMoves ==
    ASSUME TaxTypeOK, NEW l \in Log, MarkProjectionHealthy(l) \/ MarkProjectionFailed(l)
    PROVE  \E s, w : Moves(l, s, w) /\ s \in {"value", "over"} /\ w.copy = NoRow /\ w.seen = NoRow
<1>1. doing[l] \in Running /\ NextLeg(l)
  BY DEF MarkProjectionHealthy, MarkProjectionFailed, Running
<1>. QED
  BY <1>1, NextLegMoves

Places == TaxTypeOK /\ PlacesOK

LEMMA PlacesInit == TaxInit => Places
<1>. SUFFICES ASSUME TaxInit PROVE Places
  OBVIOUS
<1>. USE DEF TaxInit
<1>1. ConnectionTypeOK
  BY ConnectionInit
<1>2. "mine" \in Stage /\ "mine" \notin Running
  BY DEF Stage, Running, Updating
<1>3. mined \in 0..Len(Emitted)
  BY TaxHistoryAssumption
<1>4. doing \in [Log -> Stage] /\ work \in [Log -> Locals]
  BY <1>2, IdleType
<1>5. TablesOK
  BY Rows DEF TablesOK, NoRate
<1>6. PlacesOK
  BY <1>2 DEF PlacesOK
<1>. QED
  BY <1>1, <1>2, <1>3, <1>4, <1>5, <1>6, TaxTypeParts DEF Places

LEMMA MineMoves ==
    ASSUME Places, Mine
    PROVE  /\ mined + 1 \in Log /\ mined' = mined + 1 /\ doing[mined + 1] = "mine"
           /\ \E s, w : Moves(mined + 1, s, w) /\ s \in {"wait", "value", "over"} /\ w = Idle
<1>. DEFINE l == mined + 1
<1>1. mined \in 0..Len(Emitted) /\ Len(Emitted) \in Nat /\ Log = 1..Len(Emitted)
  BY TaxHistoryAssumption DEF Places, TaxTypeOK
<1>2. l \in Log /\ l > mined /\ mined' = l
  BY <1>1 DEF Mine
<1>3. doing[l] = "mine" /\ work[l] = Idle /\ "mine" \notin Running
  BY <1>2 DEF Places, PlacesOK, Running, Updating
<1>. DEFINE s == CASE FromShop(l) -> "wait"
                   [] ~FromShop(l) /\ Listening /\ Legs[l] # << >> -> "value"
                   [] OTHER -> "over"
<1>4. doing' = [doing EXCEPT ![l] = s] /\ work' = [work EXCEPT ![l] = Idle]
  <2>1. doing' = [doing EXCEPT ![l] = s] /\ work' = work
    BY DEF Mine, Continue
  <2>2. work = [work EXCEPT ![l] = work[l]]
    BY <1>2, SameLocals DEF Places
  <2>. QED
    BY <1>3, <2>1, <2>2
<1>5. s \in {"wait", "value", "over"} /\ (s = "wait" => FromShop(l)) /\ (s = "value" => Legs[l] # << >>)
  OBVIOUS
<1>. HIDE DEF s
<1>6. s \in Running => 1 \in DOMAIN Legs[l]
  BY <1>2, <1>5, LegsAreCountable DEF Running, Updating
<1>7. s \in Stage
  BY <1>5 DEF Stage, Running
<1>8. Moves(l, s, Idle)
  BY <1>4, <1>5, <1>6, <1>7, IdleType DEF Moves
<1>. QED
  BY <1>2, <1>3, <1>5, <1>8

LEMMA ShopMoves ==
    ASSUME Places, NEW l \in Log, HandleShopLog(l)
    PROVE  Moves(l, "value", work[l])
<1>1. FromShop(l) /\ work[l] = Idle
  BY DEF HandleShopLog, Places, PlacesOK, Running, Updating
<1>2. 1 \in DOMAIN Legs[l]
  BY <1>1, LegsAreCountable
<1>3. doing' = [doing EXCEPT ![l] = "value"] /\ work' = work
  BY DEF HandleShopLog, Continue
<1>4. "value" \in Stage /\ "value" \in Running
  BY DEF Stage, Running
<1>. QED
  BY <1>1, <1>2, <1>3, <1>4, IdleType, SameLocals DEF Moves, Places

LEMMA DiesMoves ==
    ASSUME Places, IndexerDies
    PROVE  /\ \A l \in Log : doing'[l] \notin Running /\ work'[l] = Idle
           /\ Places'
<1>. USE DEF IndexerDies
<1>1. mined \in 0..Len(Emitted) /\ mined' = mined /\ doing \in [Log -> Stage]
  BY DEF Places, TaxTypeOK
<1>2. "over" \in Stage /\ "over" \notin Running
  BY DEF Stage, Running, Updating
<1>3. doing' \in [Log -> Stage] /\ \A l \in Log : doing'[l] \notin Running
  BY <1>1, <1>2
<1>4. work' \in [Log -> Locals] /\ \A l \in Log : work'[l] = Idle
  BY IdleType
<1>5. TablesOK'
  <2>1. \A l \in Log : doing[l] \in Updating \union {"failed"} => MyKey(l) \in Key
    BY LegInHand DEF Places, Running
  <2>2. unsettled' \subseteq Key
    BY <2>1 DEF Places, TaxTypeOK
  <2>3. rates' \in [Day -> Nat]
    BY DEF NoRate
  <2>. QED
    BY <1>1, <2>2, <2>3 DEF Places, TaxTypeOK, TablesOK, taxTables
<1>6. ConnectionTypeOK'
  BY ConnectionKeeps DEF Places, TaxTypeOK
<1>7. \A l \in Log : l > mined => doing'[l] = "mine"
  <2>1. \A l \in Log : l > mined => doing[l] = "mine"
    BY DEF Places, PlacesOK
  <2>2. "mine" \notin Running
    BY DEF Running, Updating
  <2>. QED
    BY <2>1, <2>2
<1>8. \A l \in Log : doing'[l] = "wait" => FromShop(l)
  <2>1. \A l \in Log : doing[l] = "wait" => FromShop(l)
    BY DEF Places, PlacesOK
  <2>. QED
    BY <2>1
<1>9. PlacesOK'
  BY <1>1, <1>4, <1>7, <1>8 DEF PlacesOK
<1>10. TaxTypeOK'
  BY <1>1, <1>3, <1>4, <1>5, <1>6 DEF TaxTypeOK, TablesOK
<1>. QED
  BY <1>3, <1>4, <1>9, <1>10 DEF Places

LEMMA TablesInserted ==
    ASSUME Places, NEW l \in Log, InsertEvent(l)
    PROVE  TablesOK'
<1>1. doing[l] \in Running /\ doing[l] # "mine" /\ doing[l] = "insert"
  BY DEF InsertEvent, Running
<1>2. mined \in 0..Len(Emitted) /\ l \in 1..Len(Emitted) /\ l <= mined /\ Len(Emitted) \in Nat
  <2>1. mined \in 0..Len(Emitted) /\ l \in 1..Len(Emitted) /\ Len(Emitted) \in Nat
    BY TaxHistoryAssumption DEF Places, TaxTypeOK
  <2>2. ~(l > mined)
    BY <1>1 DEF Places, PlacesOK
  <2>. QED
    BY <2>1, <2>2
<1>3. work[l].leg \in DOMAIN Legs[l] /\ work[l].leg \in Nat /\ work[l].sek \in Int /\ nextId \in Nat \ {0}
  BY <1>1, MyLocals DEF Places, TaxTypeOK, Locals
<1>. DEFINE row == [id |-> nextId, log |-> l, leg |-> work[l].leg, sek |-> work[l].sek]
<1>4. nextId' = nextId + 1 /\ events' = events \union {row} /\ mined' = mined
  BY DEF InsertEvent
<1>5. row \in [id : 1..nextId, log : 1..mined, leg : Nat, sek : Int] /\ row.leg \in DOMAIN Legs[row.log]
  BY <1>2, <1>3
<1>6. events \subseteq [id : 1..nextId, log : 1..mined, leg : Nat, sek : Int]
  <2>1. events \subseteq [id : 1..(nextId - 1), log : 1..mined, leg : Nat, sek : Int]
    BY DEF Places, TaxTypeOK
  <2>. QED
    BY <1>3, <2>1
<1>7. \A e \in events : e.leg \in DOMAIN Legs[e.log]
  BY DEF Places, TaxTypeOK
<1>. HIDE DEF row
<1>8. events' \subseteq [id : 1..(nextId' - 1), log : 1..mined', leg : Nat, sek : Int]
  BY <1>3, <1>4, <1>5, <1>6
<1>9. \A e \in events' : e.leg \in DOMAIN Legs[e.log]
  BY <1>4, <1>5, <1>7
<1>10. MyKey(l) \in Key
  BY <1>1, LegInHand DEF Places
<1>11. /\ nextId' \in Nat \ {0} /\ basis' \in [Key -> Row] /\ healthy' \in BOOLEAN
       /\ rates' \in [Day -> Nat] /\ unsettled' \subseteq Key
  BY <1>3, <1>4, <1>10 DEF InsertEvent, Places, TaxTypeOK
<1>. QED
  BY <1>8, <1>9, <1>11 DEF TablesOK

LEMMA PlacesStep ==
    ASSUME Places, NEW l \in Log, doing[l] # "mine", NEW s, NEW w, Moves(l, s, w),
           mined' = mined, UNCHANGED connection, TablesOK'
    PROVE  Places'
  BY TaxTypeStep DEF Places

LEMMA StoreLegPlaces ==
    ASSUME Places, NEW l \in Log, StoreLeg(l)
    PROVE  Places' /\ doing[l] \in Running
<1>0. TablesOK /\ TaxTypeOK
  BY DEF Places, TaxTypeOK, TablesOK
<1>1. mined' = mined /\ UNCHANGED connection
  BY DEF StoreLeg, Value, FetchRate, InsertEvent, FindBasis, CreateBasis, SelectBasis, UpdateBasis,
         MarkProjectionHealthy, MarkProjectionFailed, connection
<1>2. doing[l] \in Running /\ doing[l] # "mine"
  BY DEF StoreLeg, Value, FetchRate, InsertEvent, FindBasis, CreateBasis, SelectBasis, UpdateBasis,
         MarkProjectionHealthy, MarkProjectionFailed, Running, Updating
<1>3. MyKey(l) \in Key
  BY <1>0, <1>2, LegInHand
<1>4. CASE Value(l)
  <2>1. TablesOK'
    BY <1>0, <1>4 DEF Value, TablesOK, taxTables
  <2>. QED
    BY <1>0, <1>1, <1>2, <1>4, <2>1, ValueMoves, PlacesStep
<1>5. CASE FetchRate(l)
  <2>1. TablesOK'
    BY <1>0, <1>5, FetchMoves DEF FetchRate, TablesOK, taxTables
  <2>. QED
    BY <1>0, <1>1, <1>2, <1>5, <2>1, FetchMoves, PlacesStep
<1>6. CASE InsertEvent(l)
  BY <1>0, <1>1, <1>2, <1>6, TablesInserted, InsertMoves, PlacesStep
<1>7. CASE FindBasis(l)
  <2>1. TablesOK'
    BY <1>0, <1>7 DEF FindBasis, TablesOK, taxTables
  <2>. QED
    BY <1>0, <1>1, <1>2, <1>7, <2>1, FindMoves, PlacesStep
<1>8. CASE CreateBasis(l)
  <2>1. TablesOK'
    BY <1>0, <1>8, CreateMoves DEF CreateBasis, TablesOK
  <2>. QED
    BY <1>0, <1>1, <1>2, <1>8, <2>1, CreateMoves, PlacesStep
<1>9. CASE SelectBasis(l)
  <2>1. TablesOK'
    BY <1>0, <1>9 DEF SelectBasis, TablesOK, taxTables
  <2>. QED
    BY <1>0, <1>1, <1>2, <1>9, <2>1, SelectMoves, PlacesStep
<1>10. CASE UpdateBasis(l)
  <2>1. TablesOK'
    BY <1>0, <1>10, UpdateMoves DEF UpdateBasis, TablesOK
  <2>. QED
    BY <1>0, <1>1, <1>2, <1>10, <2>1, UpdateMoves, PlacesStep
<1>11. CASE MarkProjectionHealthy(l)
  <2>1. TablesOK'
    BY <1>0, <1>11 DEF MarkProjectionHealthy, TablesOK
  <2>. QED
    BY <1>0, <1>1, <1>2, <1>11, <2>1, MarkMoves, PlacesStep
<1>12. CASE MarkProjectionFailed(l)
  <2>1. TablesOK'
    BY <1>0, <1>3, <1>12 DEF MarkProjectionFailed, TablesOK
  <2>. QED
    BY <1>0, <1>1, <1>2, <1>12, <2>1, MarkMoves, PlacesStep
<1>. QED
  BY <1>2, <1>4, <1>5, <1>6, <1>7, <1>8, <1>9, <1>10, <1>11, <1>12 DEF StoreLeg

LEMMA PlacesNext == Places /\ [TaxNext]_taxVars => Places'
<1>. SUFFICES ASSUME Places, [TaxNext]_taxVars PROVE Places'
  OBVIOUS
<1>0. TablesOK /\ TaxTypeOK /\ PlacesOK
  BY DEF Places, TaxTypeOK, TablesOK
<1>1. CASE Mine
  <2>. DEFINE l == mined + 1
  <2>1. PICK s, w : Moves(l, s, w)
    BY <1>1, MineMoves
  <2>2. l \in Log /\ mined' = l /\ mined \in 0..Len(Emitted) /\ Log = 1..Len(Emitted) /\ Len(Emitted) \in Nat
    BY <1>0, <1>1, MineMoves, TaxHistoryAssumption DEF TaxTypeOK
  <2>3. /\ doing' \in [Log -> Stage] /\ work' \in [Log -> Locals]
        /\ \A m \in Log : doing'[m] \in Running => work'[m].leg \in DOMAIN Legs[m]
        /\ PlacesOK'
    <3>1. l <= mined' /\ mined <= mined' /\ mined' \in Int
      BY <2>2
    <3>. HIDE DEF l
    <3>. QED
      BY <1>0, <2>1, <2>2, <3>1, MovesKeep
  <2>4. TablesOK'
    <3>1. UNCHANGED <<events, nextId, basis, healthy, rates, unsettled>>
      BY <1>1 DEF Mine, taxTables
    <3>2. 1..mined \subseteq 1..mined'
      BY <2>2
    <3>3. events \subseteq [id : 1..(nextId - 1), log : 1..mined', leg : Nat, sek : Int]
      BY <1>0, <3>2 DEF TablesOK
    <3>. QED
      BY <1>0, <3>1, <3>3 DEF TablesOK
  <2>5. ConnectionTypeOK'
    BY <1>0, <1>1, ConnectionKeeps DEF Mine, TaxTypeOK
  <2>6. mined' \in 0..Len(Emitted)
    BY <2>2
  <2>. QED
    BY <2>3, <2>4, <2>5, <2>6 DEF Places, TaxTypeOK, TablesOK
<1>2. CASE IndexerDies
  BY <1>2, DiesMoves
<1>3. ASSUME NEW l \in Log, HandleShopLog(l) PROVE Places'
  <2>1. TablesOK' /\ mined' = mined /\ UNCHANGED connection /\ doing[l] # "mine"
    BY <1>0, <1>3 DEF HandleShopLog, TablesOK, taxTables
  <2>. QED
    BY <1>3, <2>1, ShopMoves, PlacesStep
<1>4. ASSUME NEW l \in Log, StoreLeg(l) PROVE Places'
  BY <1>4, StoreLegPlaces
<1>5. CASE (ConnectionStep \/ Start \/ UNCHANGED connection) /\ UnchangedHistory
  <2>1. ConnectionTypeOK'
    BY <1>0, <1>5, ConnectionKeeps DEF TaxTypeOK
  <2>. QED
    BY <1>0, <1>5, <2>1 DEF Places, PlacesOK, TaxTypeOK, TablesOK, UnchangedHistory, taxTables
<1>. QED
  BY <1>1, <1>2, <1>3, <1>4, <1>5 DEF TaxNext, taxVars, UnchangedHistory

(***************************************************************************)
(* What the handlers know.                                                 *)
(***************************************************************************)
IdsOK ==
    /\ \A d, e \in events : d.id = e.id => d = e
    /\ \A k \in Key : basis[k].last < nextId
    /\ \A l \in Log : work[l].copy.last < nextId
    /\ \A l \in Log : doing[l] \in Updating => work[l].id \in 1..(nextId - 1)

Updater(l, k) == doing[l] \in Updating /\ MyKey(l) = k

TallyNow(k) == Tally(StoredRows(k))[nextId - 1]

\* The row that the handler's update is to leave.
CountedRow(l) == [h |-> Counted(basis[MyKey(l)].h, Leg(l)), last |-> work[l].id]

\* An update that is under way is the tally's last step.
Counting(l) ==
    /\ TallyNow(MyKey(l)) = CountedRow(l)
    /\ basis[MyKey(l)].last < work[l].id
    /\ doing[l] = "create" => basis[MyKey(l)] = NoRow
    /\ doing[l] \in {"create", "select", "update"} => work[l].copy = CountedRow(l)
    /\ doing[l] = "update" => work[l].seen = basis[MyKey(l)]

Exact(k) ==
    /\ \A l, m \in Log : Updater(l, k) /\ Updater(m, k) => l = m
    /\ (\A l \in Log : ~Updater(l, k)) => basis[k] = TallyNow(k)
    /\ \A l \in Log : Updater(l, k) => Counting(l)

TaxInv ==
    /\ Places /\ IdsOK
    /\ \A l \in Log : doing[l] = "failed" => MyKey(l) \in unsettled
    /\ \A k \in Key \ unsettled : Exact(k)

LEMMA RowsAreOK ==
    ASSUME Places, IdsOK, NEW k
    PROVE  RowsOK(StoredRows(k)) /\ \A e \in StoredRows(k) : e.id \in 1..(nextId - 1)
<1>1. ASSUME NEW e \in events PROVE Countable(LegOfRow(e)) /\ e.id \in 1..(nextId - 1)
  <2>1. /\ e.log \in 1..mined /\ e.leg \in DOMAIN Legs[e.log] /\ mined \in 0..Len(Emitted)
        /\ e.id \in 1..(nextId - 1)
    BY DEF Places, TaxTypeOK
  <2>2. e.log \in Log
    BY <2>1, TaxHistoryAssumption
  <2>. QED
    BY <2>1, <2>2, LegsAreCountable DEF LegOfRow
<1>. QED
  BY <1>1 DEF RowsOK, StoredRows, IdsOK

LEMMA TaxInvInit == TaxInit => TaxInv
<1>. SUFFICES ASSUME TaxInit PROVE TaxInv
  OBVIOUS
<1>1. Places
  BY PlacesInit
<1>2. \A l \in Log : doing[l] \notin Updating /\ doing[l] # "failed"
  BY DEF TaxInit, Updating
<1>3. IdsOK
  <2>1. \A k \in Key : basis[k] = NoRow
    BY DEF TaxInit
  <2>2. \A l \in Log : work[l] = Idle
    BY DEF TaxInit
  <2>. QED
    BY <1>2, <2>1, <2>2, Rows, IdleType DEF IdsOK, TaxInit
<1>4. ASSUME NEW k \in Key PROVE Exact(k)
  <2>1. Tally(StoredRows(k))[0] = NoRow
    BY <1>1, <1>3, RowsAreOK, TallyUnfolds
  <2>2. nextId - 1 = 0 /\ basis[k] = NoRow
    BY DEF TaxInit
  <2>. QED
    BY <1>2, <2>1, <2>2 DEF Exact, Updater, TallyNow
<1>. QED
  BY <1>1, <1>2, <1>3, <1>4 DEF TaxInv

LEMMA HandlerMoved ==
    ASSUME Places, NEW l \in Log, NEW s, NEW w, Moves(l, s, w)
    PROVE  /\ doing'[l] = s /\ work'[l] = w
           /\ \A m \in Log \ {l} :
                 /\ doing'[m] = doing[m] /\ work'[m] = work[m]
                 /\ MyKey(m)' = MyKey(m) /\ Leg(m)' = Leg(m)
           /\ w.leg = work[l].leg => MyKey(l)' = MyKey(l) /\ Leg(l)' = Leg(l)
<1>1. /\ doing'[l] = s /\ work'[l] = w
      /\ \A m \in Log \ {l} : doing'[m] = doing[m] /\ work'[m] = work[m]
  BY DEF Moves, Places, TaxTypeOK
<1>. QED
  BY <1>1 DEF MyKey, Leg

\* A row that one handler leaves alone is as exact as before.
LEMMA OthersKeepExact ==
    ASSUME Places, NEW l \in Log, NEW s, NEW w, Moves(l, s, w), UNCHANGED <<events, nextId>>,
           NEW k \in Key, Exact(k), ~Updater(l, k), ~Updater(l, k)', basis'[k] = basis[k]
    PROVE  Exact(k)'
<1>1. \A m \in Log \ {l} :
         /\ doing'[m] = doing[m] /\ work'[m] = work[m]
         /\ MyKey(m)' = MyKey(m) /\ Leg(m)' = Leg(m)
  BY HandlerMoved
<1>2. \A m \in Log : Updater(m, k)' <=> Updater(m, k)
  BY <1>1 DEF Updater
<1>3. TallyNow(k)' = TallyNow(k)
  BY DEF TallyNow, StoredRows, Tally, KeyOfRow, LegOfRow
<1>4. ASSUME NEW m \in Log, Updater(m, k) PROVE Counting(m)'
  <2>1. m # l /\ Counting(m) /\ MyKey(m) = k /\ MyKey(m)' = k
    BY <1>1, <1>4 DEF Exact, Updater
  <2>2. doing'[m] = doing[m] /\ work'[m] = work[m] /\ Leg(m)' = Leg(m)
    BY <1>1, <2>1
  <2>3. CountedRow(m)' = CountedRow(m) /\ TallyNow(MyKey(m))' = TallyNow(MyKey(m)) /\ basis'[MyKey(m)'] = basis[MyKey(m)]
    BY <1>3, <2>1, <2>2 DEF CountedRow
  <2>. QED
    BY <2>1, <2>2, <2>3 DEF Counting
<1>. QED
  BY <1>2, <1>3, <1>4 DEF Exact

\* A row that only one handler updates depends on its step alone.
LEMMA UpdaterKeepsExact ==
    ASSUME Places, NEW l \in Log, NEW s, NEW w, Moves(l, s, w), NEW k \in Key,
           \A m \in Log \ {l} : ~Updater(m, k),
           Updater(l, k)' => Counting(l)', ~Updater(l, k)' => basis'[k] = TallyNow(k)'
    PROVE  Exact(k)'
<1>1. \A m \in Log \ {l} : doing'[m] = doing[m] /\ MyKey(m)' = MyKey(m)
  BY HandlerMoved
<1>2. \A m \in Log \ {l} : ~Updater(m, k)'
  BY <1>1 DEF Updater
<1>. QED
  BY <1>2 DEF Exact

LEMMA StepKeeps ==
    ASSUME TaxInv, NEW l \in Log, NEW s, NEW w, Moves(l, s, w), Places',
           UNCHANGED <<events, nextId>>, unsettled \subseteq unsettled',
           w.copy.last < nextId, s \in Updating => w.id \in 1..(nextId - 1),
           \A k \in Key : basis'[k].last < nextId,
           \A k \in Key : k # MyKey(l) \/ doing[l] \notin Updating => basis'[k] = basis[k],
           s \in Updating => doing[l] \in Updating /\ w.leg = work[l].leg,
           s = "failed" => MyKey(l)' \in unsettled',
           \A k \in Key \ unsettled' : Updater(l, k) => Exact(k)'
    PROVE  TaxInv'
<1>0. Places /\ IdsOK
  BY DEF TaxInv
<1>1. /\ doing'[l] = s /\ work'[l] = w
      /\ \A m \in Log \ {l} : doing'[m] = doing[m] /\ work'[m] = work[m] /\ MyKey(m)' = MyKey(m)
      /\ w.leg = work[l].leg => MyKey(l)' = MyKey(l)
  BY <1>0, HandlerMoved
<1>2. IdsOK'
  BY <1>0, <1>1 DEF IdsOK
<1>3. \A m \in Log : doing'[m] = "failed" => MyKey(m)' \in unsettled'
  BY <1>1 DEF TaxInv
<1>4. ASSUME NEW k \in Key \ unsettled' PROVE Exact(k)'
  <2>1. Exact(k)
    BY DEF TaxInv
  <2>2. CASE Updater(l, k)
    BY <2>2
  <2>3. CASE ~Updater(l, k)
    <3>1. ~Updater(l, k)'
      BY <1>1, <2>3 DEF Updater
    <3>2. basis'[k] = basis[k]
      BY <2>3 DEF Updater
    <3>. QED
      BY <1>0, <2>1, <2>3, <3>1, <3>2, OthersKeepExact
  <2>. QED
    BY <2>2, <2>3
<1>. QED
  BY <1>2, <1>3, <1>4 DEF TaxInv

\* What a handler holds that updates a row no other update met.
LEMMA MyUpdate ==
    ASSUME TaxInv, NEW l \in Log, doing[l] \in Updating
    PROVE  /\ MyKey(l) \in Key /\ Countable(Leg(l)) /\ work[l] \in Locals
           /\ work[l].id \in 1..(nextId - 1) /\ work[l].copy.last < nextId
           /\ basis[MyKey(l)] \in Row /\ basis[MyKey(l)].last < nextId /\ nextId \in Nat \ {0}
           /\ MyKey(l) \notin unsettled =>
                 Counting(l) /\ \A m \in Log \ {l} : ~Updater(m, MyKey(l))
<1>1. MyKey(l) \in Key /\ Countable(Leg(l)) /\ work[l] \in Locals
  BY LegInHand, MyLocals DEF TaxInv, Places, Running
<1>2. work[l].id \in 1..(nextId - 1) /\ work[l].copy.last < nextId /\ basis[MyKey(l)].last < nextId
  BY <1>1 DEF TaxInv, IdsOK
<1>3. basis[MyKey(l)] \in Row /\ nextId \in Nat \ {0}
  BY <1>1 DEF TaxInv, Places, TaxTypeOK
<1>4. MyKey(l) \notin unsettled => Counting(l) /\ \A m \in Log \ {l} : ~Updater(m, MyKey(l))
  <2>1. MyKey(l) \notin unsettled => Exact(MyKey(l))
    BY <1>1 DEF TaxInv
  <2>2. Updater(l, MyKey(l))
    BY DEF Updater
  <2>. QED
    BY <2>1, <2>2 DEF Exact
<1>. QED
  BY <1>1, <1>2, <1>3, <1>4

LEMMA TallySame == ASSUME UNCHANGED <<events, nextId>>, NEW k PROVE TallyNow(k)' = TallyNow(k)
  BY DEF TallyNow, StoredRows, Tally, KeyOfRow, LegOfRow

LEMMA FindKeeps ==
    ASSUME TaxInv, NEW l \in Log, FindBasis(l), Places'
    PROVE  TaxInv'
<1>1. doing[l] = "find" /\ doing[l] \in Updating /\ UNCHANGED <<events, nextId, basis, unsettled>>
  BY DEF FindBasis, taxTables, Updating
<1>2. Places /\ TaxTypeOK
  BY DEF TaxInv, Places
<1>3. PICK s, w :
         /\ Moves(l, s, w) /\ w.leg = work[l].leg /\ w.id = work[l].id /\ w.seen = work[l].seen
         /\ \/ s = "healthy" /\ work[l].id <= Known(l).last /\ w.copy = work[l].copy
            \/ /\ ~(work[l].id <= Known(l).last) /\ w.copy = CountedCopy(l)
               /\ s = IF basis[MyKey(l)] = NoRow THEN "create" ELSE "select"
  BY <1>2, FindMoves
<1>4. /\ doing'[l] = s /\ work'[l] = w /\ MyKey(l)' = MyKey(l) /\ Leg(l)' = Leg(l)
  BY <1>2, <1>3, HandlerMoved
<1>5. w.copy.last < nextId
  BY <1>1, <1>3, MyUpdate DEF CountedCopy
<1>6. ASSUME NEW k \in Key \ unsettled', Updater(l, k) PROVE Exact(k)'
  <2>0. k = MyKey(l) /\ k \notin unsettled
    BY <1>1, <1>6 DEF Updater
  <2>1. /\ Counting(l) /\ \A m \in Log \ {l} : ~Updater(m, k)
        /\ work[l].id \in Nat \ {0} /\ basis[k].last < work[l].id /\ k \in Key
    BY <1>1, <2>0, MyUpdate DEF Counting
  <2>2. Known(l).h = basis[k].h /\ ~(work[l].id <= Known(l).last)
    <3>1. CASE basis[k] = NoRow
      BY <2>0, <2>1, <3>1, Rows DEF Known
    <3>2. CASE basis[k] # NoRow
      <4>1. basis[k].last \in Int
        BY <1>2, <2>1 DEF TaxTypeOK, Row
      <4>. QED
        BY <2>0, <2>1, <3>2, <4>1 DEF Known
    <3>. QED
      BY <3>1, <3>2
  <2>3. w.copy = CountedRow(l) /\ s = (IF basis[k] = NoRow THEN "create" ELSE "select")
    BY <1>3, <2>0, <2>2 DEF CountedCopy, CountedRow
  <2>4. CountedRow(l)' = CountedRow(l) /\ TallyNow(k)' = TallyNow(k)
    BY <1>1, <1>3, <1>4, <2>0, TallySame DEF CountedRow
  <2>5. Counting(l)'
    BY <1>1, <1>3, <1>4, <2>0, <2>1, <2>3, <2>4 DEF Counting
  <2>6. Updater(l, k)'
    BY <1>4, <2>0, <2>3 DEF Updater, Updating
  <2>. QED
    BY <1>2, <1>3, <2>1, <2>5, <2>6, UpdaterKeepsExact
<1>7. s \in Updating => w.id \in 1..(nextId - 1)
  BY <1>1, <1>3, MyUpdate
<1>8. s # "failed" /\ \A k \in Key : basis'[k] = basis[k] /\ basis'[k].last < nextId
  BY <1>1, <1>3 DEF TaxInv, IdsOK
<1>. QED
  BY <1>1, <1>3, <1>5, <1>6, <1>7, <1>8, StepKeeps

LEMMA CreateKeeps ==
    ASSUME TaxInv, NEW l \in Log, CreateBasis(l), Places'
    PROVE  TaxInv'
<1>. DEFINE s == IF basis[MyKey(l)] = NoRow THEN "healthy" ELSE "failed"
            w == work[l]
<1>1. doing[l] = "create" /\ doing[l] \in Updating /\ UNCHANGED <<events, nextId, unsettled>>
  BY DEF CreateBasis, Updating
<1>2. Places /\ TaxTypeOK
  BY DEF TaxInv, Places
<1>3. Moves(l, s, w) /\ s \notin Updating
  BY <1>2, CreateMoves DEF Updating
<1>4. basis' = IF basis[MyKey(l)] = NoRow THEN [basis EXCEPT ![MyKey(l)] = w.copy] ELSE basis
  BY DEF CreateBasis
<1>5. basis \in [Key -> Row] /\ MyKey(l) \in Key
  BY <1>1, <1>2, MyUpdate DEF TaxTypeOK
<1>6. doing'[l] = s /\ MyKey(l)' = MyKey(l)
  BY <1>2, <1>3, HandlerMoved
<1>7. MyKey(l) \notin unsettled => /\ Counting(l) /\ basis[MyKey(l)] = NoRow
                                   /\ \A m \in Log \ {l} : ~Updater(m, MyKey(l))
  BY <1>1, MyUpdate DEF Counting
<1>8. ASSUME NEW k \in Key \ unsettled', Updater(l, k) PROVE Exact(k)'
  <2>1. k = MyKey(l) /\ k \notin unsettled
    BY <1>1, <1>8 DEF Updater
  <2>2. basis'[k] = w.copy /\ w.copy = CountedRow(l) /\ TallyNow(k) = CountedRow(l)
    BY <1>1, <1>4, <1>5, <1>7, <2>1 DEF Counting
  <2>3. TallyNow(k)' = TallyNow(k)
    BY <1>1, TallySame
  <2>4. ~Updater(l, k)'
    BY <1>3, <1>6 DEF Updater
  <2>. HIDE DEF s, w
  <2>. QED
    BY <1>2, <1>3, <1>7, <2>1, <2>2, <2>3, <2>4, UpdaterKeepsExact
<1>9. w.copy.last < nextId /\ \A k \in Key : basis'[k].last < nextId
  <2>1. w.copy.last < nextId /\ \A k \in Key : basis[k].last < nextId
    BY DEF TaxInv, IdsOK
  <2>. QED
    BY <1>4, <1>5, <2>1
<1>10. \A k \in Key : k # MyKey(l) => basis'[k] = basis[k]
  BY <1>4, <1>5
<1>11. s = "failed" => MyKey(l)' \in unsettled'
  BY <1>1, <1>6, <1>7
<1>. HIDE DEF s, w
<1>. QED
  BY <1>1, <1>3, <1>8, <1>9, <1>10, <1>11, StepKeeps

LEMMA SelectKeeps ==
    ASSUME TaxInv, NEW l \in Log, SelectBasis(l), Places'
    PROVE  TaxInv'
<1>1. doing[l] = "select" /\ doing[l] \in Updating /\ UNCHANGED <<events, nextId, basis, unsettled>>
  BY DEF SelectBasis, taxTables, Updating
<1>2. Places /\ TaxTypeOK
  BY DEF TaxInv, Places
<1>3. PICK w : /\ Moves(l, "update", w) /\ w.leg = work[l].leg /\ w.id = work[l].id
               /\ w.copy = work[l].copy /\ w.seen = basis[MyKey(l)]
  BY <1>2, SelectMoves
<1>4. doing'[l] = "update" /\ work'[l] = w /\ MyKey(l)' = MyKey(l) /\ Leg(l)' = Leg(l)
  BY <1>2, <1>3, HandlerMoved
<1>5. w.copy.last < nextId /\ w.id \in 1..(nextId - 1) /\ \A k \in Key : basis'[k].last < nextId
  BY <1>1, <1>3, MyUpdate DEF TaxInv, IdsOK
<1>6. ASSUME NEW k \in Key \ unsettled', Updater(l, k) PROVE Exact(k)'
  <2>1. k = MyKey(l) /\ k \notin unsettled
    BY <1>1, <1>6 DEF Updater
  <2>2. Counting(l) /\ \A m \in Log \ {l} : ~Updater(m, k)
    BY <1>1, <2>1, MyUpdate
  <2>3. CountedRow(l)' = CountedRow(l) /\ TallyNow(k)' = TallyNow(k)
    BY <1>1, <1>3, <1>4, TallySame DEF CountedRow
  <2>4. Counting(l)'
    BY <1>1, <1>3, <1>4, <2>1, <2>2, <2>3 DEF Counting
  <2>5. Updater(l, k)'
    BY <1>4, <2>1 DEF Updater, Updating
  <2>. QED
    BY <1>2, <1>3, <2>2, <2>4, <2>5, UpdaterKeepsExact
<1>. QED
  BY <1>1, <1>3, <1>5, <1>6, StepKeeps

LEMMA UpdateKeeps ==
    ASSUME TaxInv, NEW l \in Log, UpdateBasis(l), Places'
    PROVE  TaxInv'
<1>. DEFINE w == work[l]
            row == basis[MyKey(l)]
            merged == Merged(row, w.copy, w.seen)
<1>1. doing[l] = "update" /\ doing[l] \in Updating /\ UNCHANGED <<events, nextId, unsettled>>
  BY DEF UpdateBasis, Updating
<1>2. Places /\ TaxTypeOK
  BY DEF TaxInv, Places
<1>3. Moves(l, "healthy", w) /\ basis' = [basis EXCEPT ![MyKey(l)] = merged] /\ "healthy" \notin Updating
  BY <1>2, UpdateMoves DEF Updating
<1>4. basis \in [Key -> Row] /\ MyKey(l) \in Key /\ w.copy \in Row /\ w.seen \in Row /\ row \in Row
  BY <1>1, <1>2, MyUpdate DEF TaxTypeOK, Locals
<1>5. merged.last \in {row.last, w.copy.last} /\ (row = w.seen => merged = w.copy)
  BY <1>4, MergedType
<1>6. doing'[l] = "healthy" /\ MyKey(l)' = MyKey(l)
  BY <1>2, <1>3, HandlerMoved
<1>. HIDE DEF merged
<1>7. ASSUME NEW k \in Key \ unsettled', Updater(l, k) PROVE Exact(k)'
  <2>1. k = MyKey(l) /\ k \notin unsettled
    BY <1>1, <1>7 DEF Updater
  <2>2. Counting(l) /\ \A m \in Log \ {l} : ~Updater(m, k)
    BY <1>1, <2>1, MyUpdate
  <2>3. w.seen = row /\ w.copy = CountedRow(l) /\ TallyNow(k) = CountedRow(l)
    BY <1>1, <2>1, <2>2 DEF Counting
  <2>4. basis'[k] = TallyNow(k)
    BY <1>3, <1>4, <1>5, <2>1, <2>3
  <2>5. TallyNow(k)' = TallyNow(k)
    BY <1>1, TallySame
  <2>6. ~Updater(l, k)'
    BY <1>3, <1>6 DEF Updater
  <2>. HIDE DEF w
  <2>. QED
    BY <1>2, <1>3, <2>2, <2>4, <2>5, <2>6, UpdaterKeepsExact
<1>8. w.copy.last < nextId /\ \A k \in Key : basis'[k].last < nextId
  <2>1. w.copy.last < nextId /\ \A k \in Key : basis[k].last < nextId
    BY DEF TaxInv, IdsOK
  <2>. QED
    BY <1>3, <1>4, <1>5, <2>1
<1>9. \A k \in Key : k # MyKey(l) => basis'[k] = basis[k]
  BY <1>3, <1>4
<1>. HIDE DEF w
<1>. QED
  BY <1>1, <1>3, <1>7, <1>8, <1>9, StepKeeps

\* Before its insert and after its update a handler touches no basis.
LEMMA AsideKeeps ==
    ASSUME TaxInv, NEW l \in Log, NEW s, NEW w, Moves(l, s, w), Places',
           doing[l] \notin Updating, s \notin Updating, s # "failed",
           UNCHANGED <<events, nextId, basis>>, unsettled \subseteq unsettled',
           w.copy.last < nextId
    PROVE  TaxInv'
<1>1. \A k \in Key : basis'[k].last < nextId
  BY DEF TaxInv, IdsOK
<1>2. \A k \in Key \ unsettled' : ~Updater(l, k)
  BY DEF Updater
<1>. QED
  BY <1>1, <1>2, StepKeeps

LEMMA NoRowIsOld == TaxInv => NoRow.last < nextId
  BY Rows DEF TaxInv, Places, TaxTypeOK

LEMMA InsertKeeps ==
    ASSUME TaxInv, NEW l \in Log, InsertEvent(l), Places'
    PROVE  TaxInv'
<1>. DEFINE new == [id |-> nextId, log |-> l, leg |-> work[l].leg, sek |-> work[l].sek]
<1>1. /\ doing[l] = "insert" /\ doing[l] \notin Updating /\ doing[l] \in Running
      /\ events' = events \union {new} /\ nextId' = nextId + 1 /\ basis' = basis
      /\ unsettled' = IF Overlapping(l) THEN unsettled \union {MyKey(l)} ELSE unsettled
  BY DEF InsertEvent, Updating, Running
<1>2. Places /\ TaxTypeOK /\ IdsOK /\ nextId \in Nat \ {0}
  BY DEF TaxInv, Places, TaxTypeOK
<1>3. PICK w : /\ Moves(l, "find", w) /\ w.leg = work[l].leg /\ w.id = nextId
               /\ w.copy = work[l].copy /\ w.seen = work[l].seen
  BY <1>2, InsertMoves
<1>4. /\ doing'[l] = "find" /\ work'[l] = w /\ MyKey(l)' = MyKey(l) /\ Leg(l)' = Leg(l)
      /\ \A m \in Log \ {l} :
            /\ doing'[m] = doing[m] /\ work'[m] = work[m]
            /\ MyKey(m)' = MyKey(m) /\ Leg(m)' = Leg(m)
  BY <1>2, <1>3, HandlerMoved
<1>5. new.id = nextId /\ KeyOfRow(new) = MyKey(l) /\ LegOfRow(new) = Leg(l)
  BY DEF KeyOfRow, LegOfRow, MyKey, Leg
<1>. HIDE DEF new
<1>6. IdsOK'
  <2>1. \A e \in events : e.id \in 1..(nextId - 1)
    BY <1>2 DEF TaxTypeOK
  <2>2. \A d, e \in events' : d.id = e.id => d = e
    BY <1>1, <1>2, <1>5, <2>1 DEF IdsOK
  <2>3. \A k \in Key : basis'[k].last < nextId'
    <3>1. ASSUME NEW k \in Key PROVE basis[k].last \in Int /\ basis[k].last < nextId
      BY <1>2 DEF TaxTypeOK, IdsOK, Row
    <3>. QED
      BY <1>1, <1>2, <3>1
  <2>4. ASSUME NEW m \in Log PROVE work'[m].copy.last < nextId'
    <3>1. work[m].copy.last \in Int /\ work[m].copy.last < nextId
      BY <1>2, MyLocals DEF Locals, Row, IdsOK
    <3>2. work'[m].copy = work[m].copy
      BY <1>3, <1>4
    <3>. QED
      BY <1>1, <1>2, <3>1, <3>2
  <2>5. ASSUME NEW m \in Log, doing'[m] \in Updating PROVE work'[m].id \in 1..(nextId' - 1)
    <3>1. CASE m = l
      BY <1>1, <1>2, <1>3, <1>4, <3>1
    <3>2. CASE m # l
      BY <1>1, <1>2, <1>4, <2>5, <3>2 DEF IdsOK
    <3>. QED
      BY <3>1, <3>2
  <2>. QED
    BY <2>2, <2>3, <2>4, <2>5 DEF IdsOK
<1>7. ASSUME NEW m \in Log, doing'[m] = "failed" PROVE MyKey(m)' \in unsettled'
  <2>1. m # l
    BY <1>4, <1>7
  <2>. QED
    BY <1>1, <1>4, <1>7, <2>1 DEF TaxInv
<1>8. ASSUME NEW k \in Key PROVE
         /\ RowsOK(StoredRows(k)) /\ RowsOK(StoredRows(k)')
         /\ \A e \in StoredRows(k) : e.id \in 1..(nextId - 1)
         /\ StoredRows(k)' = IF k = MyKey(l) THEN StoredRows(k) \union {new} ELSE StoredRows(k)
  <2>1. RowsOK(StoredRows(k)) /\ \A e \in StoredRows(k) : e.id \in 1..(nextId - 1)
    BY <1>2, RowsAreOK
  <2>2. StoredRows(k)' = IF k = MyKey(l) THEN StoredRows(k) \union {new} ELSE StoredRows(k)
    BY <1>1, <1>5 DEF StoredRows
  <2>3. Countable(Leg(l))
    BY <1>1, <1>2, LegInHand
  <2>4. RowsOK(StoredRows(k)')
    BY <1>2, <1>5, <2>1, <2>2, <2>3 DEF RowsOK
  <2>. QED
    BY <2>1, <2>2, <2>4
<1>9. ASSUME NEW k \in Key \ unsettled' PROVE Exact(k)'
  <2>1. k \notin unsettled /\ Exact(k)
    BY <1>1, <1>9 DEF TaxInv
  <2>2. TallyNow(k)' = Tally(StoredRows(k)')[nextId]
    BY <1>1, <1>2 DEF TallyNow
  <2>3. CASE k = MyKey(l)
    <3>1. \A m \in Log \ {l} : ~Updater(m, k)
      BY <1>1, <1>9, <2>3 DEF Overlapping, Updater
    <3>2. \A m \in Log : ~Updater(m, k)
      BY <1>1, <3>1 DEF Updater
    <3>3. basis[k] = Tally(StoredRows(k))[nextId - 1]
      BY <2>1, <3>2 DEF Exact, TallyNow
    <3>4. Tally(StoredRows(k)')[nextId] = [h |-> Counted(basis[k].h, Leg(l)), last |-> nextId]
      BY <1>2, <1>5, <1>8, <2>3, <3>3, TallyExtends
    <3>5. CountedRow(l)' = [h |-> Counted(basis[k].h, Leg(l)), last |-> nextId]
      BY <1>1, <1>3, <1>4, <2>3 DEF CountedRow
    <3>6. basis[k].last < nextId
      BY <1>2 DEF IdsOK
    <3>7. Counting(l)'
      BY <1>1, <1>3, <1>4, <2>2, <2>3, <3>4, <3>5, <3>6 DEF Counting
    <3>8. Updater(l, k)'
      BY <1>4, <2>3 DEF Updater, Updating
    <3>. QED
      BY <1>2, <1>3, <3>1, <3>7, <3>8, UpdaterKeepsExact
  <2>4. CASE k # MyKey(l)
    <3>1. TallyNow(k)' = TallyNow(k)
      <4>1. StoredRows(k)' = StoredRows(k)
        BY <1>8, <2>4
      <4>2. Tally(StoredRows(k))[nextId] = Tally(StoredRows(k))[nextId - 1]
        BY <1>2, <1>8, TallyWaits
      <4>. QED
        BY <2>2, <4>1, <4>2 DEF TallyNow
    <3>2. \A m \in Log : Updater(m, k)' <=> m # l /\ Updater(m, k)
      BY <1>4, <2>4 DEF Updater
    <3>3. ~Updater(l, k)
      BY <1>1 DEF Updater
    <3>4. ASSUME NEW m \in Log, Updater(m, k)' PROVE Counting(m)'
      <4>1. m # l /\ Counting(m) /\ MyKey(m) = k /\ MyKey(m)' = k
        BY <1>4, <2>1, <3>2, <3>4 DEF Exact, Updater
      <4>2. doing'[m] = doing[m] /\ work'[m] = work[m] /\ Leg(m)' = Leg(m)
        BY <1>4, <4>1
      <4>3. CountedRow(m)' = CountedRow(m)
        BY <1>1, <4>1, <4>2 DEF CountedRow
      <4>. QED
        BY <1>1, <3>1, <4>1, <4>2, <4>3 DEF Counting
    <3>. QED
      BY <1>1, <2>1, <3>1, <3>2, <3>3, <3>4 DEF Exact
  <2>. QED
    BY <2>3, <2>4
<1>. QED
  BY <1>6, <1>7, <1>9 DEF TaxInv

LEMMA StoreLegKeeps ==
    ASSUME TaxInv, NEW l \in Log, StoreLeg(l)
    PROVE  TaxInv'
<1>1. Places /\ TaxTypeOK /\ Places' /\ NoRow.last < nextId /\ work[l].copy.last < nextId
  BY StoreLegPlaces, NoRowIsOld DEF TaxInv, Places, IdsOK
<1>2. CASE Value(l)
  <2>1. PICK s, w : Moves(l, s, w) /\ s \in {"fetch", "insert"} /\ w.leg = work[l].leg
    BY <1>1, <1>2, ValueMoves
  <2>2. w.copy = work[l].copy
    <3>1. work'[l] = w
      BY <1>1, <2>1, HandlerMoved
    <3>2. work'[l].copy = work[l].copy
      BY <1>1, <1>2, MyLocals DEF Value, TaxTypeOK, Locals
    <3>. QED
      BY <3>1, <3>2
  <2>3. /\ doing[l] \notin Updating /\ s \notin Updating /\ s # "failed"
        /\ UNCHANGED <<events, nextId, basis, unsettled>>
    BY <1>2, <2>1 DEF Value, taxTables, Updating
  <2>. QED
    BY <1>1, <2>1, <2>2, <2>3, AsideKeeps
<1>3. CASE FetchRate(l)
  <2>1. PICK s, w : Moves(l, s, w) /\ s = "insert" /\ w.leg = work[l].leg
    BY <1>1, <1>3, FetchMoves
  <2>2. w.copy = work[l].copy
    <3>1. work'[l] = w
      BY <1>1, <2>1, HandlerMoved
    <3>2. work'[l].copy = work[l].copy
      BY <1>1, <1>3, MyLocals DEF FetchRate, TaxTypeOK, Locals
    <3>. QED
      BY <3>1, <3>2
  <2>3. /\ doing[l] \notin Updating /\ s \notin Updating /\ s # "failed"
        /\ UNCHANGED <<events, nextId, basis, unsettled>>
    BY <1>3, <2>1 DEF FetchRate, taxTables, Updating
  <2>. QED
    BY <1>1, <2>1, <2>2, <2>3, AsideKeeps
<1>4. CASE MarkProjectionHealthy(l) \/ MarkProjectionFailed(l)
  <2>1. PICK s, w : Moves(l, s, w) /\ s \in {"value", "over"} /\ w.copy = NoRow /\ w.seen = NoRow
    BY <1>1, <1>4, MarkMoves
  <2>2. /\ doing[l] \notin Updating /\ s \notin Updating /\ s # "failed"
        /\ UNCHANGED <<events, nextId, basis>> /\ unsettled \subseteq unsettled'
    BY <1>4, <2>1 DEF MarkProjectionHealthy, MarkProjectionFailed, Updating
  <2>. QED
    BY <1>1, <2>1, <2>2, AsideKeeps
<1>. QED
  BY <1>1, <1>2, <1>3, <1>4, InsertKeeps, FindKeeps, CreateKeeps, SelectKeeps, UpdateKeeps DEF StoreLeg

LEMMA DiesKeeps == ASSUME TaxInv, IndexerDies PROVE TaxInv'
<1>1. Places /\ IdsOK
  BY DEF TaxInv
<1>2. Places' /\ \A l \in Log : doing'[l] \notin Running /\ work'[l] = Idle
  BY <1>1, DiesMoves
<1>3. /\ UNCHANGED <<events, nextId, basis>>
      /\ unsettled' = unsettled \union {MyKey(l) : l \in {m \in Log : doing[m] \in Updating \union {"failed"}}}
  BY DEF IndexerDies, taxTables
<1>4. \A l \in Log : doing'[l] \notin Updating /\ doing'[l] # "failed"
  BY <1>2 DEF Running
<1>5. IdsOK'
  BY <1>1, <1>2, <1>3, <1>4, IdleType, NoRowIsOld DEF IdsOK
<1>6. ASSUME NEW k \in Key \ unsettled' PROVE Exact(k)'
  <2>1. Exact(k) /\ \A l \in Log : ~Updater(l, k)
    BY <1>3, <1>6 DEF TaxInv, Updater
  <2>2. basis[k] = TallyNow(k)
    BY <2>1 DEF Exact
  <2>3. basis'[k] = TallyNow(k)'
    BY <1>3, <2>2, TallySame
  <2>4. \A l \in Log : ~Updater(l, k)'
    BY <1>4 DEF Updater
  <2>. QED
    BY <2>3, <2>4 DEF Exact
<1>. QED
  BY <1>2, <1>4, <1>5, <1>6 DEF TaxInv

LEMMA TaxInvNext == TaxInv /\ [TaxNext]_taxVars => TaxInv'
<1>. SUFFICES ASSUME TaxInv, [TaxNext]_taxVars PROVE TaxInv'
  OBVIOUS
<1>1. Places /\ Places' /\ NoRow.last < nextId
  BY PlacesNext, NoRowIsOld DEF TaxInv
<1>2. CASE Mine
  <2>. DEFINE l == mined + 1
  <2>1. PICK s, w : Moves(l, s, w) /\ s \in {"wait", "value", "over"} /\ w = Idle
    BY <1>1, <1>2, MineMoves
  <2>2. l \in Log /\ doing[l] = "mine"
    BY <1>1, <1>2, MineMoves
  <2>3. /\ doing[l] \notin Updating /\ s \notin Updating /\ s # "failed" /\ w.copy.last < nextId
        /\ UNCHANGED <<events, nextId, basis, unsettled>>
    BY <1>1, <1>2, <2>1, <2>2, IdleType DEF Mine, taxTables, Updating
  <2>4. ASSUME NEW m \in Log, m = l PROVE TaxInv'
    <3>. HIDE DEF l
    <3>. QED
      BY <1>1, <2>1, <2>3, <2>4, AsideKeeps
  <2>. QED
    BY <2>2, <2>4
<1>3. CASE IndexerDies
  BY <1>3, DiesKeeps
<1>4. ASSUME NEW l \in Log, HandleShopLog(l) PROVE TaxInv'
  <2>1. Moves(l, "value", work[l])
    BY <1>1, <1>4, ShopMoves
  <2>2. /\ doing[l] \notin Updating /\ "value" \notin Updating /\ work[l].copy.last < nextId
        /\ UNCHANGED <<events, nextId, basis, unsettled>>
    BY <1>4 DEF HandleShopLog, taxTables, Updating, TaxInv, IdsOK
  <2>. QED
    BY <1>1, <2>1, <2>2, AsideKeeps
<1>5. ASSUME NEW l \in Log, StoreLeg(l) PROVE TaxInv'
  BY <1>5, StoreLegKeeps
<1>6. CASE UNCHANGED <<doing, work, events, nextId, basis, unsettled>>
  <2>1. IdsOK'
    BY <1>6 DEF TaxInv, IdsOK
  <2>2. \A m \in Log : doing'[m] = "failed" => MyKey(m)' \in unsettled'
    BY <1>6 DEF TaxInv, MyKey, Leg
  <2>3. ASSUME NEW k \in Key \ unsettled' PROVE Exact(k)'
    <3>1. Exact(k)
      BY <1>6 DEF TaxInv
    <3>2. \A m : MyKey(m)' = MyKey(m) /\ Leg(m)' = Leg(m)
      BY <1>6 DEF MyKey, Leg
    <3>3. \A j : TallyNow(j)' = TallyNow(j)
      BY <1>6, TallySame
    <3>. QED
      BY <1>6, <3>1, <3>2, <3>3 DEF Exact, Updater, Counting, CountedRow
  <2>. QED
    BY <1>1, <2>1, <2>2, <2>3 DEF TaxInv
<1>. QED
  BY <1>2, <1>3, <1>4, <1>5, <1>6 DEF TaxNext, taxVars, taxTables, UnchangedHistory

(***************************************************************************)
(* The reports                                                             *)
(***************************************************************************)
Figures == [quantity : Int, cost : Int, gains : Int, losses : Int, held : BOOLEAN]
Fresh == [quantity |-> 0, cost |-> 0, gains |-> 0, losses |-> 0, held |-> FALSE]
Forms(H) == [sek : Holding, usd : Holding, missing : SUBSET H, inUsd : SUBSET H]
Blank == [sek |-> Nothing, usd |-> Nothing, missing |-> {}, inUsd |-> {}]

\* What an event of a history is.
EventOK(e) ==
    /\ Countable(e) /\ e.at \in Nat \ {0} /\ e.sek \in Int
    /\ e.usd = Unknown => e.sek = Unknown

HistoryOK(H) ==
    /\ \A e \in H : EventOK(e)
    /\ \A d, e \in H : d.at = e.at => d = e
    /\ \E n \in Nat : \A e \in H : e.at <= n

LEMMA FiguresEdited ==
    ASSUME NEW h \in Figures, NEW a \in Int, NEW b \in Int, NEW held \in BOOLEAN
    PROVE  /\ [h EXCEPT !.quantity = a, !.cost = b] \in Figures
           /\ [h EXCEPT !.gains = a] \in Figures
           /\ [h EXCEPT !.losses = a] \in Figures
           /\ [h EXCEPT !.held = held] \in Figures
  BY DEF Figures

LEMMA FiguresKept ==
    ASSUME NEW h \in Figures, NEW price \in Int, NEW n \in Nat
    PROVE  /\ Acquired(h, price, n) \in Figures
           /\ Released(h, n) \in Figures
           /\ Realized(h, price, n) \in Figures
<1>. DEFINE cost == price * n
            share == Average(h) * n
            result == (price - Average(h)) * n
<1>1. h.quantity \in Int /\ h.cost \in Int /\ h.gains \in Int /\ h.losses \in Int
  BY DEF Figures
<1>2. Average(h) \in Int
  BY <1>1 DEF Average
<1>3. cost \in Int /\ share \in Int /\ result \in Int
  BY <1>2
<1>4. Acquired(h, price, n) = [h EXCEPT !.quantity = h.quantity + n, !.cost = h.cost + cost]
  BY DEF Acquired
<1>5. Released(h, n) = [h EXCEPT !.quantity = h.quantity - n, !.cost = h.cost - share]
  BY DEF Released
<1>6. Realized(h, price, n) = IF result >= 0 THEN [h EXCEPT !.gains = h.gains + result]
                                             ELSE [h EXCEPT !.losses = h.losses + result]
  BY DEF Realized
<1>. HIDE DEF cost, share, result
<1>7. /\ h.quantity + n \in Int /\ h.cost + cost \in Int /\ h.quantity - n \in Int
      /\ h.cost - share \in Int /\ h.gains + result \in Int /\ h.losses + result \in Int
  BY <1>1, <1>3
<1>8. /\ [h EXCEPT !.quantity = h.quantity + n, !.cost = h.cost + cost] \in Figures
      /\ [h EXCEPT !.quantity = h.quantity - n, !.cost = h.cost - share] \in Figures
      /\ [h EXCEPT !.gains = h.gains + result] \in Figures
      /\ [h EXCEPT !.losses = h.losses + result] \in Figures
  BY <1>7, FiguresEdited
<1>. QED
  BY <1>4, <1>5, <1>6, <1>8

LEMMA SummaryStepType ==
    ASSUME NEW h \in Figures, NEW e, EventOK(e), NEW price \in Int
    PROVE  SummaryStep(h, e, price) \in Figures
<1>1. e.amount \in Nat
  BY DEF EventOK, Countable
<1>2. Acquired(h, IF price = Unknown THEN 0 ELSE price, e.amount) \in Figures
  BY <1>1, FiguresKept
<1>3. [Acquired(h, IF price = Unknown THEN 0 ELSE price, e.amount) EXCEPT !.held = TRUE] \in Figures
  BY <1>2, FiguresEdited
<1>4. /\ Realized(h, price, e.amount) \in Figures
      /\ Released(h, e.amount) \in Figures
  BY <1>1, FiguresKept
<1>5. Released(Realized(h, price, e.amount), e.amount) \in Figures
  BY <1>1, <1>4, FiguresKept
<1>. DEFINE bought == [Acquired(h, IF price = Unknown THEN 0 ELSE price, e.amount) EXCEPT !.held = TRUE]
            known == IF price = Unknown THEN h ELSE Realized(h, price, e.amount)
<1>6. SummaryStep(h, e, price) =
          CASE e.usd = Unknown -> h
            [] e.usd # Unknown /\ e.type = "acquisition" -> bought
            [] OTHER -> IF h.held THEN Released(known, e.amount) ELSE known
  BY DEF SummaryStep
<1>7. known \in Figures /\ Released(known, e.amount) \in Figures
  BY <1>4, <1>5
<1>8. bought \in Figures
  BY <1>3
<1>. HIDE DEF bought, known
<1>. QED
  BY <1>6, <1>7, <1>8


\* The summary of an asset is taken further by each of its events.
LEMMA SummaryUnfolds ==
    ASSUME NEW H, HistoryOK(H), NEW a, NEW c \in {"usd", "sek"}
    PROVE  /\ SummaryUpTo(H, a, c)[0] = Fresh
           /\ \A n \in Nat : SummaryUpTo(H, a, c)[n] \in Figures
           /\ \A n \in Nat \ {0} : (\A e \in OfAsset(H, a) : e.at # n) =>
                  SummaryUpTo(H, a, c)[n] = SummaryUpTo(H, a, c)[n - 1]
           /\ \A e \in OfAsset(H, a) :
                  SummaryUpTo(H, a, c)[e.at] = SummaryStep(SummaryUpTo(H, a, c)[e.at - 1], e, e[c])
<1>. DEFINE rows == OfAsset(H, a)
            here(n) == {e \in rows : e.at = n}
            Turn(n, h) == LET e == CHOOSE d \in here(n) : TRUE IN SummaryStep(h, e, e[c])
            Turned(n, h) == IF here(n) = {} THEN h ELSE Turn(n, h)
            step == [n \in Nat |-> [h \in Figures |-> Turned(n, h)]]
            Equation(f) == f = [n \in Nat |-> IF n = 0 THEN Fresh ELSE Turned(n, f[n - 1])]
            F == SummaryUpTo(H, a, c)
<1>1. \A e \in rows : EventOK(e)
  BY DEF OfAsset, HistoryOK
<1>2. ASSUME NEW n \in Nat, NEW h \in Figures PROVE Turned(n, h) \in Figures
  <2>1. CASE here(n) # {}
    <3>1. PICK e : e = (CHOOSE d \in here(n) : TRUE) /\ e \in rows
      BY <2>1
    <3>2. EventOK(e) /\ e.usd \in Int /\ e.sek \in Int
      BY <1>1, <3>1 DEF EventOK, Countable
    <3>3. SummaryStep(h, e, e[c]) \in Figures
      BY <3>2, SummaryStepType
    <3>. QED
      BY <2>1, <3>1, <3>3
  <2>. QED
    BY <2>1
<1>. HIDE DEF Turned
<1>3. step \in [Nat -> [Figures -> Figures]]
  BY <1>2
<1>4. Fresh \in Figures
  BY DEF Fresh, Figures
<1>5. PICK f : Repeats(f, Figures, Fresh, step)
  <2>. HIDE DEF step
  <2>. QED
    BY <1>3, <1>4, StepsRepeat
<1>6. /\ f \in [Nat -> Figures] /\ f[0] = Fresh
      /\ \A n \in Nat \ {0} : f[n] = Turned(n, f[n - 1])
  <2>1. f \in [Nat -> Figures] /\ f[0] = Fresh /\ \A n \in Nat \ {0} : f[n] = step[n][f[n - 1]]
    BY <1>5 DEF Repeats
  <2>2. ASSUME NEW n \in Nat \ {0} PROVE f[n] = Turned(n, f[n - 1])
    <3>1. n \in Nat /\ f[n - 1] \in Figures /\ f[n] = step[n][f[n - 1]]
      BY <2>1
    <3>. QED
      BY <3>1
  <2>. QED
    BY <2>1, <2>2
<1>7. Equation(f)
  BY <1>6
<1>8. F = CHOOSE g : Equation(g)
  BY DEF SummaryUpTo, InTurn, Fresh, Turned
<1>9. Equation(F)
  BY <1>7, <1>8
<1>10. F[0] = Fresh /\ \A n \in Nat \ {0} : F[n] = Turned(n, F[n - 1])
  BY <1>9
<1>11. ASSUME NEW n \in Nat PROVE F[n] = f[n]
  <2>1. F[0] = f[0]
    BY <1>6, <1>10
  <2>2. \A i \in 1..n : F[i - 1] = f[i - 1] => F[i] = f[i]
    BY <1>6, <1>10
  <2>. HIDE DEF F
  <2>. QED
    BY <2>1, <2>2, SameUpTo
<1>12. \A n \in Nat : F[n] \in Figures
  BY <1>6, <1>11
<1>13. ASSUME NEW n \in Nat \ {0}, \A e \in rows : e.at # n PROVE F[n] = F[n - 1]
  BY <1>10, <1>13 DEF Turned
<1>14. ASSUME NEW e \in rows PROVE F[e.at] = SummaryStep(F[e.at - 1], e, e[c])
  <2>1. e.at \in Nat \ {0}
    BY <1>1 DEF EventOK
  <2>2. here(e.at) = {e}
    BY DEF OfAsset, HistoryOK
  <2>3. F[e.at] = Turned(e.at, F[e.at - 1])
    BY <1>10, <2>1
  <2>. HIDE DEF F
  <2>. QED
    BY <2>2, <2>3 DEF Turned
<1>. HIDE DEF F
<1>15. F[0] = Fresh
  BY <1>10
<1>. QED
  BY <1>12, <1>13, <1>14, <1>15 DEF F, rows

LEMMA FormsEdited ==
    ASSUME NEW H, NEW k \in Forms(H)
    PROVE  /\ \A h, g \in Holding : [k EXCEPT !.sek = h, !.usd = g] \in Forms(H)
           /\ \A M \in SUBSET H : [k EXCEPT !.missing = M] \in Forms(H)
           /\ \A c \in {"sek", "usd"}, h \in Holding, M \in SUBSET H :
                  [k EXCEPT ![c] = h, !.inUsd = M] \in Forms(H)
  BY DEF Forms

LEMMA K4StepType ==
    ASSUME NEW H, NEW k \in Forms(H), NEW e \in H, EventOK(e)
    PROVE  K4Step(k, e) \in Forms(H)
<1>. DEFINE c == K4Currency(k, e)
<1>1. e.amount \in Nat /\ e.usd \in Int /\ e.sek \in Int
  BY DEF EventOK, Countable
<1>2. k.sek \in Holding /\ k.usd \in Holding /\ k.missing \in SUBSET H /\ k.inUsd \in SUBSET H
  BY DEF Forms
<1>3. CASE e.type = "acquisition"
  <2>1. Bought(k.sek, e.sek, e.amount) \in Holding /\ Bought(k.usd, e.usd, e.amount) \in Holding
    BY <1>1, <1>2, HoldingKept DEF Bought
  <2>2. K4Step(k, e) = [k EXCEPT !.sek = Bought(k.sek, e.sek, e.amount),
                                 !.usd = Bought(k.usd, e.usd, e.amount)]
    BY <1>3 DEF K4Step
  <2>3. [k EXCEPT !.sek = Bought(k.sek, e.sek, e.amount),
                  !.usd = Bought(k.usd, e.usd, e.amount)] \in Forms(H)
    BY <2>1, FormsEdited, Zenon
  <2>. QED
    BY <2>2, <2>3
<1>4. CASE e.type = "disposal" /\ c = "missing"
  <2>1. K4Step(k, e) = [k EXCEPT !.missing = k.missing \union {e}]
    BY <1>4 DEF K4Step
  <2>2. k.missing \union {e} \in SUBSET H
    BY <1>2
  <2>3. [k EXCEPT !.missing = k.missing \union {e}] \in Forms(H)
    BY <2>2, FormsEdited, Zenon
  <2>. QED
    BY <2>1, <2>3
<1>5. CASE e.type = "disposal" /\ c # "missing"
  <2>1. c \in {"sek", "usd"}
    BY <1>5 DEF K4Currency
  <2>2. k[c] \in Holding /\ e[c] \in Int
    BY <1>1, <1>2, <2>1
  <2>3. Disposed(k[c], e[c], e.amount) \in Holding
    BY <1>1, <2>2, HoldingKept
  <2>4. K4Step(k, e) = [k EXCEPT ![c] = Disposed(k[c], e[c], e.amount),
                                 !.inUsd = IF c = "usd" THEN k.inUsd \union {e} ELSE k.inUsd]
    BY <1>5 DEF K4Step
  <2>5. (IF c = "usd" THEN k.inUsd \union {e} ELSE k.inUsd) \in SUBSET H
    BY <1>2
  <2>. HIDE DEF c
  <2>6. [k EXCEPT ![c] = Disposed(k[c], e[c], e.amount),
                  !.inUsd = IF c = "usd" THEN k.inUsd \union {e} ELSE k.inUsd] \in Forms(H)
    BY <2>1, <2>3, <2>5, FormsEdited, Zenon
  <2>. QED
    BY <2>4, <2>6
<1>. QED
  BY <1>3, <1>4, <1>5 DEF EventOK, Countable

\* The K4 rows of an asset are taken further by each of its events.
LEMMA K4Unfolds ==
    ASSUME NEW H, HistoryOK(H), NEW a
    PROVE  /\ K4UpTo(H, a)[0] = Blank
           /\ \A n \in Nat : K4UpTo(H, a)[n] \in Forms(H)
           /\ \A n \in Nat \ {0} : (\A e \in OfAsset(H, a) : e.at # n) =>
                  K4UpTo(H, a)[n] = K4UpTo(H, a)[n - 1]
           /\ \A e \in OfAsset(H, a) :
                  K4UpTo(H, a)[e.at] = K4Step(K4UpTo(H, a)[e.at - 1], e)
<1>. DEFINE rows == OfAsset(H, a)
            here(n) == {e \in rows : e.at = n}
            Turn(n, h) == LET e == CHOOSE d \in here(n) : TRUE IN K4Step(h, e)
            Turned(n, h) == IF here(n) = {} THEN h ELSE Turn(n, h)
            step == [n \in Nat |-> [h \in Forms(H) |-> Turned(n, h)]]
            Equation(f) == f = [n \in Nat |-> IF n = 0 THEN Blank ELSE Turned(n, f[n - 1])]
            F == K4UpTo(H, a)
<1>1. \A e \in rows : EventOK(e)
  BY DEF OfAsset, HistoryOK
<1>2. ASSUME NEW n \in Nat, NEW h \in Forms(H) PROVE Turned(n, h) \in Forms(H)
  <2>1. CASE here(n) # {}
    <3>1. PICK e : e = (CHOOSE d \in here(n) : TRUE) /\ e \in rows
      BY <2>1
    <3>2. EventOK(e) /\ e \in H
      BY <1>1, <3>1 DEF OfAsset
    <3>3. K4Step(h, e) \in Forms(H)
      BY <3>2, K4StepType
    <3>. QED
      BY <2>1, <3>1, <3>3
  <2>. QED
    BY <2>1
<1>. HIDE DEF Turned
<1>3. step \in [Nat -> [Forms(H) -> Forms(H)]]
  BY <1>2
<1>4. Blank \in Forms(H)
  BY Rows DEF Blank, Forms, Holding, NoRow, Row
<1>5. PICK f : Repeats(f, Forms(H), Blank, step)
  <2>. HIDE DEF step
  <2>. QED
    BY <1>3, <1>4, StepsRepeat
<1>6. /\ f \in [Nat -> Forms(H)] /\ f[0] = Blank
      /\ \A n \in Nat \ {0} : f[n] = Turned(n, f[n - 1])
  <2>1. f \in [Nat -> Forms(H)] /\ f[0] = Blank /\ \A n \in Nat \ {0} : f[n] = step[n][f[n - 1]]
    BY <1>5 DEF Repeats
  <2>2. ASSUME NEW n \in Nat \ {0} PROVE f[n] = Turned(n, f[n - 1])
    <3>1. n \in Nat /\ f[n - 1] \in Forms(H) /\ f[n] = step[n][f[n - 1]]
      BY <2>1
    <3>. QED
      BY <3>1
  <2>. QED
    BY <2>1, <2>2
<1>7. Equation(f)
  BY <1>6
<1>8. F = CHOOSE g : Equation(g)
  BY DEF K4UpTo, InTurn, Blank, Turned
<1>9. Equation(F)
  BY <1>7, <1>8
<1>10. F[0] = Blank /\ \A n \in Nat \ {0} : F[n] = Turned(n, F[n - 1])
  BY <1>9
<1>11. ASSUME NEW n \in Nat PROVE F[n] = f[n]
  <2>1. F[0] = f[0]
    BY <1>6, <1>10
  <2>2. \A i \in 1..n : F[i - 1] = f[i - 1] => F[i] = f[i]
    BY <1>6, <1>10
  <2>. HIDE DEF F
  <2>. QED
    BY <2>1, <2>2, SameUpTo
<1>12. \A n \in Nat : F[n] \in Forms(H)
  BY <1>6, <1>11
<1>13. ASSUME NEW n \in Nat \ {0}, \A e \in rows : e.at # n PROVE F[n] = F[n - 1]
  BY <1>10, <1>13 DEF Turned
<1>14. ASSUME NEW e \in rows PROVE F[e.at] = K4Step(F[e.at - 1], e)
  <2>1. e.at \in Nat \ {0}
    BY <1>1 DEF EventOK
  <2>2. here(e.at) = {e}
    BY DEF OfAsset, HistoryOK
  <2>3. F[e.at] = Turned(e.at, F[e.at - 1])
    BY <1>10, <2>1
  <2>. HIDE DEF F
  <2>. QED
    BY <2>2, <2>3 DEF Turned
<1>. HIDE DEF F
<1>15. F[0] = Blank
  BY <1>10
<1>. QED
  BY <1>12, <1>13, <1>14, <1>15 DEF F, rows

\* What the arithmetic leaves in each field.
AcquiredOK(h, g, price, n) ==
    /\ g.quantity = h.quantity + n /\ g.cost = h.cost + price * n
    /\ g.gains = h.gains /\ g.losses = h.losses

ReleasedOK(h, g, n) ==
    /\ g.quantity = h.quantity - n /\ g.cost = h.cost - Average(h) * n
    /\ g.gains = h.gains /\ g.losses = h.losses

RealizedOK(h, g, price, n) ==
    LET result == (price - Average(h)) * n
    IN /\ g.quantity = h.quantity /\ g.cost = h.cost
       /\ g.gains = IF result >= 0 THEN h.gains + result ELSE h.gains
       /\ g.losses = IF result >= 0 THEN h.losses ELSE h.losses + result

LEMMA HoldingFields ==
    ASSUME NEW h \in Holding, NEW price, NEW n
    PROVE  /\ AcquiredOK(h, Acquired(h, price, n), price, n)
           /\ ReleasedOK(h, Released(h, n), n)
           /\ RealizedOK(h, Realized(h, price, n), price, n)
<1>1. DOMAIN Nothing = {"quantity", "cost", "gains", "losses"}
  BY Rows
<1>. DEFINE cost == price * n
            share == Average(h) * n
            result == (price - Average(h)) * n
<1>2. Acquired(h, price, n) = [h EXCEPT !.quantity = h.quantity + n, !.cost = h.cost + cost]
  BY DEF Acquired
<1>3. Released(h, n) = [h EXCEPT !.quantity = h.quantity - n, !.cost = h.cost - share]
  BY DEF Released
<1>4. Realized(h, price, n) = IF result >= 0 THEN [h EXCEPT !.gains = h.gains + result]
                                             ELSE [h EXCEPT !.losses = h.losses + result]
  BY DEF Realized
<1>5. AcquiredOK(h, Acquired(h, price, n), price, n)
  BY <1>1, <1>2 DEF AcquiredOK, Holding
<1>6. ReleasedOK(h, Released(h, n), n)
  BY <1>1, <1>3 DEF ReleasedOK, Holding
<1>7. RealizedOK(h, Realized(h, price, n), price, n)
  BY <1>1, <1>4 DEF RealizedOK, Holding
<1>. QED
  BY <1>5, <1>6, <1>7

LEMMA FiguresFields ==
    ASSUME NEW h \in Figures, NEW price, NEW n
    PROVE  /\ AcquiredOK(h, Acquired(h, price, n), price, n)
           /\ ReleasedOK(h, Released(h, n), n)
           /\ RealizedOK(h, Realized(h, price, n), price, n)
           /\ Acquired(h, price, n).held = h.held
           /\ Released(h, n).held = h.held
           /\ Realized(h, price, n).held = h.held
<1>. DEFINE cost == price * n
            share == Average(h) * n
            result == (price - Average(h)) * n
<1>2. Acquired(h, price, n) = [h EXCEPT !.quantity = h.quantity + n, !.cost = h.cost + cost]
  BY DEF Acquired
<1>3. Released(h, n) = [h EXCEPT !.quantity = h.quantity - n, !.cost = h.cost - share]
  BY DEF Released
<1>4. Realized(h, price, n) = IF result >= 0 THEN [h EXCEPT !.gains = h.gains + result]
                                             ELSE [h EXCEPT !.losses = h.losses + result]
  BY DEF Realized
<1>5. AcquiredOK(h, Acquired(h, price, n), price, n) /\ Acquired(h, price, n).held = h.held
  BY <1>2 DEF AcquiredOK, Figures
<1>6. ReleasedOK(h, Released(h, n), n) /\ Released(h, n).held = h.held
  BY <1>3 DEF ReleasedOK, Figures
<1>7. RealizedOK(h, Realized(h, price, n), price, n) /\ Realized(h, price, n).held = h.held
  BY <1>4 DEF RealizedOK, Figures
<1>. QED
  BY <1>5, <1>6, <1>7

\* A holding and a summary that show the same figures.
SameFigures(h, s) ==
    h.quantity = s.quantity /\ h.cost = s.cost /\ h.gains = s.gains /\ h.losses = s.losses

LEMMA StepsAlike ==
    ASSUME NEW h, NEW s, SameFigures(h, s), NEW g, NEW t, NEW price, NEW n
    PROVE  /\ AcquiredOK(h, g, price, n) /\ AcquiredOK(s, t, price, n) => SameFigures(g, t)
           /\ ReleasedOK(h, g, n) /\ ReleasedOK(s, t, n) => SameFigures(g, t)
           /\ RealizedOK(h, g, price, n) /\ RealizedOK(s, t, price, n) => SameFigures(g, t)
<1>1. Average(h) = Average(s)
  BY DEF SameFigures, Average
<1>. QED
  BY <1>1 DEF SameFigures, AcquiredOK, ReleasedOK, RealizedOK

LEMMA DisposedAlike ==
    ASSUME NEW h \in Holding, NEW s \in Figures, SameFigures(h, s), NEW price \in Int, NEW n \in Nat
    PROVE  /\ SameFigures(Disposed(h, price, n), Released(Realized(s, price, n), n))
           /\ Released(Realized(s, price, n), n).quantity = s.quantity - n
           /\ Released(Realized(s, price, n), n).held = s.held
<1>1. Realized(h, price, n) \in Holding /\ Realized(s, price, n) \in Figures
  BY HoldingKept, FiguresKept
<1>2. /\ RealizedOK(h, Realized(h, price, n), price, n)
      /\ RealizedOK(s, Realized(s, price, n), price, n)
      /\ Realized(s, price, n).held = s.held
  BY HoldingFields, FiguresFields
<1>3. SameFigures(Realized(h, price, n), Realized(s, price, n))
  BY <1>2, StepsAlike
<1>4. /\ ReleasedOK(Realized(h, price, n), Released(Realized(h, price, n), n), n)
      /\ ReleasedOK(Realized(s, price, n), Released(Realized(s, price, n), n), n)
      /\ Released(Realized(s, price, n), n).held = Realized(s, price, n).held
  BY <1>1, HoldingFields, FiguresFields
<1>5. SameFigures(Released(Realized(h, price, n), n), Released(Realized(s, price, n), n))
  BY <1>3, <1>4, StepsAlike
<1>6. Released(Realized(s, price, n), n).quantity = s.quantity - n
  BY <1>2, <1>4 DEF ReleasedOK, RealizedOK
<1>. QED
  BY <1>2, <1>4, <1>5, <1>6 DEF Disposed

\* An event in a summary whose disposals at a price are covered.
Meets(s, e) == e.type = "disposal" /\ e.usd # Unknown => e.amount <= s.quantity

HeldIfAny(s) == s.quantity > 0 => s.held

LEMMA SummaryStepCases ==
    ASSUME NEW s \in Figures, HeldIfAny(s), NEW e, EventOK(e), Meets(s, e), NEW price \in Int
    PROVE  /\ e.usd = Unknown => SummaryStep(s, e, price) = s
           /\ e.usd # Unknown /\ price # Unknown /\ e.type = "acquisition" =>
                  /\ SummaryStep(s, e, price).held
                  /\ SummaryStep(s, e, price).quantity = s.quantity + e.amount
                  /\ SameFigures(Acquired(s, price, e.amount), SummaryStep(s, e, price))
           /\ e.usd # Unknown /\ price # Unknown /\ e.type # "acquisition" =>
                  /\ s.held /\ s.quantity > 0
                  /\ SummaryStep(s, e, price) = Released(Realized(s, price, e.amount), e.amount)
<1>1. e.amount \in Nat \ {0} /\ e.type \in {"acquisition", "disposal"} /\ s.quantity \in Int
  BY DEF EventOK, Countable, Figures
<1>2. CASE e.usd = Unknown
  BY <1>2 DEF SummaryStep
<1>3. CASE e.usd # Unknown /\ price # Unknown /\ e.type = "acquisition"
  <2>. DEFINE t == Acquired(s, price, e.amount)
  <2>1. SummaryStep(s, e, price) = [t EXCEPT !.held = TRUE]
    BY <1>3 DEF SummaryStep
  <2>2. t \in Figures /\ AcquiredOK(s, t, price, e.amount)
    BY <1>1, FiguresKept, FiguresFields
  <2>. HIDE DEF t
  <2>3. [t EXCEPT !.held = TRUE].held /\ SameFigures(t, [t EXCEPT !.held = TRUE])
    BY <2>2 DEF Figures, SameFigures
  <2>4. [t EXCEPT !.held = TRUE].quantity = s.quantity + e.amount
    BY <2>2, <2>3 DEF SameFigures, AcquiredOK
  <2>. QED
    BY <1>3, <2>1, <2>3, <2>4 DEF t
<1>4. CASE e.usd # Unknown /\ price # Unknown /\ e.type # "acquisition"
  <2>1. s.quantity > 0 /\ s.held
    BY <1>1, <1>4 DEF Meets, HeldIfAny
  <2>2. SummaryStep(s, e, price) = Released(Realized(s, price, e.amount), e.amount)
    BY <1>4, <2>1 DEF SummaryStep
  <2>. QED
    BY <1>4, <2>1, <2>2
<1>. QED
  BY <1>2, <1>3, <1>4

\* The cost basis and the summary count a covered event alike, but for one
\* with the price 0.
LEMMA CountedAlike ==
    ASSUME NEW h \in Holding, NEW s \in Figures, SameFigures(h, s), HeldIfAny(s),
           NEW e, EventOK(e), Meets(s, e), e.usd # 0
    PROVE  /\ SameFigures(Counted(h, e), SummaryStep(s, e, e.usd))
           /\ HeldIfAny(SummaryStep(s, e, e.usd))
<1>. DEFINE t == SummaryStep(s, e, e.usd)
<1>1. e.amount \in Nat \ {0} /\ e.usd \in Int /\ s.quantity \in Int
  BY DEF EventOK, Countable, Figures
<1>2. CASE e.usd = Unknown
  <2>1. t = s /\ Counted(h, e) = h
    BY <1>1, <1>2, SummaryStepCases DEF Counted, Positive
  <2>. QED
    BY <2>1
<1>3. CASE e.usd # Unknown /\ e.type = "acquisition"
  <2>1. t.held /\ SameFigures(Acquired(s, e.usd, e.amount), t)
    BY <1>1, <1>3, SummaryStepCases
  <2>2. Counted(h, e) = Acquired(h, e.usd, e.amount)
    BY <1>3 DEF Counted, Positive
  <2>3. SameFigures(Acquired(h, e.usd, e.amount), Acquired(s, e.usd, e.amount))
    BY <1>1, HoldingFields, FiguresFields, StepsAlike
  <2>. QED
    BY <2>1, <2>2, <2>3 DEF SameFigures, HeldIfAny
<1>4. CASE e.usd # Unknown /\ e.type # "acquisition"
  <2>1. s.held /\ t = Released(Realized(s, e.usd, e.amount), e.amount)
    BY <1>1, <1>4, SummaryStepCases
  <2>2. Counted(h, e) = Disposed(h, e.usd, e.amount)
    BY <1>4 DEF Counted, Positive
  <2>3. SameFigures(Counted(h, e), t) /\ t.held = s.held
    BY <1>1, <2>1, <2>2, DisposedAlike
  <2>. QED
    BY <2>1, <2>3 DEF HeldIfAny
<1>. QED
  BY <1>2, <1>3, <1>4

\* The K4 rows, the summary in SEK and the quantity that the one in USD keeps.
Aligned(H, s, t, k) ==
    /\ s \in Figures /\ t \in Figures /\ k \in Forms(H)
    /\ HeldIfAny(s) /\ HeldIfAny(t) /\ t.quantity = s.quantity
    /\ SameFigures(k.sek, t)
    /\ k.inUsd = {} /\ k.missing \subseteq Unpriced(H)

\* An event whose price is known in both currencies or in neither is counted
\* alike in the K4 rows and in the summary.
LEMMA RowsAlike ==
    ASSUME NEW H, NEW s, NEW t, NEW k, Aligned(H, s, t, k),
           NEW e \in H, EventOK(e), Meets(s, e), e.usd # Unknown => e.sek # Unknown
    PROVE  Aligned(H, SummaryStep(s, e, e.usd), SummaryStep(t, e, e.sek), K4Step(k, e))
<1>. DEFINE s1 == SummaryStep(s, e, e.usd)
            t1 == SummaryStep(t, e, e.sek)
            k1 == K4Step(k, e)
<1>1. /\ e.amount \in Nat \ {0} /\ e.usd \in Int /\ e.sek \in Int
      /\ e.type \in {"acquisition", "disposal"}
      /\ e.usd = Unknown <=> e.sek = Unknown
  BY DEF EventOK, Countable
<1>2. s \in Figures /\ t \in Figures /\ k \in Forms(H) /\ k.sek \in Holding /\ k.usd \in Holding
  BY DEF Aligned, Forms
<1>3. s1 \in Figures /\ t1 \in Figures /\ k1 \in Forms(H)
  BY <1>1, <1>2, SummaryStepType, K4StepType
<1>4. HeldIfAny(s) /\ HeldIfAny(t) /\ Meets(t, e) /\ t.quantity = s.quantity /\ SameFigures(k.sek, t)
  BY DEF Aligned, Meets
<1>5. k.inUsd = {} /\ k.missing \subseteq Unpriced(H)
  BY DEF Aligned
<1>6. CASE e.usd = Unknown
  <2>1. s1 = s /\ t1 = t
    BY <1>1, <1>2, <1>4, <1>6, SummaryStepCases
  <2>2. CASE e.type = "acquisition"
    <3>1. k1 = [k EXCEPT !.sek = k.sek, !.usd = k.usd]
      BY <1>1, <1>6, <2>2 DEF K4Step, Bought
    <3>2. k1 = k
      BY <1>2, <3>1 DEF Forms
    <3>. QED
      BY <2>1, <3>2
  <2>3. CASE e.type = "disposal"
    <3>1. K4Currency(k, e) = "missing"
      BY <1>1, <1>6 DEF K4Currency
    <3>2. k1 = [k EXCEPT !.missing = k.missing \union {e}]
      BY <2>3, <3>1 DEF K4Step
    <3>3. k1.sek = k.sek /\ k1.inUsd = k.inUsd /\ k1.missing = k.missing \union {e}
      BY <1>2, <3>2 DEF Forms
    <3>4. k1.missing \subseteq Unpriced(H)
      BY <1>5, <1>6, <3>3 DEF Unpriced
    <3>. QED
      BY <1>2, <1>3, <1>4, <1>5, <2>1, <3>3, <3>4 DEF Aligned
  <2>. QED
    BY <1>1, <2>2, <2>3
<1>7. CASE e.usd # Unknown /\ e.type = "acquisition"
  <2>1. /\ s1.held /\ s1.quantity = s.quantity + e.amount
        /\ t1.held /\ t1.quantity = t.quantity + e.amount
        /\ SameFigures(Acquired(t, e.sek, e.amount), t1)
    BY <1>1, <1>2, <1>4, <1>7, SummaryStepCases
  <2>2. k1 = [k EXCEPT !.sek = Acquired(k.sek, e.sek, e.amount),
                       !.usd = Acquired(k.usd, e.usd, e.amount)]
    BY <1>1, <1>7 DEF K4Step, Bought
  <2>3. k1.sek = Acquired(k.sek, e.sek, e.amount) /\ k1.inUsd = k.inUsd /\ k1.missing = k.missing
    BY <1>2, <2>2 DEF Forms
  <2>4. SameFigures(Acquired(k.sek, e.sek, e.amount), Acquired(t, e.sek, e.amount))
    BY <1>1, <1>2, <1>4, HoldingFields, FiguresFields, StepsAlike
  <2>5. SameFigures(k1.sek, t1)
    BY <2>1, <2>3, <2>4 DEF SameFigures
  <2>. QED
    BY <1>3, <1>4, <1>5, <2>1, <2>3, <2>5 DEF Aligned, HeldIfAny
<1>8. CASE e.usd # Unknown /\ e.type # "acquisition"
  <2>1. /\ s.held /\ t.held /\ t.quantity > 0
        /\ s1 = Released(Realized(s, e.usd, e.amount), e.amount)
        /\ t1 = Released(Realized(t, e.sek, e.amount), e.amount)
    BY <1>1, <1>2, <1>4, <1>8, SummaryStepCases
  <2>2. K4Currency(k, e) = "sek"
    BY <1>1, <1>4, <1>8, <2>1 DEF K4Currency, SameFigures
  <2>3. k1 = [k EXCEPT !["sek"] = Disposed(k.sek, e.sek, e.amount), !.inUsd = k.inUsd]
    BY <1>1, <1>8, <2>2 DEF K4Step
  <2>4. k1.sek = Disposed(k.sek, e.sek, e.amount) /\ k1.inUsd = k.inUsd /\ k1.missing = k.missing
    BY <1>2, <2>3 DEF Forms
  <2>5. SameFigures(k1.sek, t1) /\ t1.held = t.held /\ t1.quantity = t.quantity - e.amount
    <3>1. e.amount \in Nat
      BY <1>1
    <3>2. /\ SameFigures(Disposed(k.sek, e.sek, e.amount), Released(Realized(t, e.sek, e.amount), e.amount))
          /\ Released(Realized(t, e.sek, e.amount), e.amount).quantity = t.quantity - e.amount
          /\ Released(Realized(t, e.sek, e.amount), e.amount).held = t.held
      BY <1>1, <1>2, <1>4, <3>1, DisposedAlike
    <3>3. /\ SameFigures(Disposed(k.sek, e.sek, e.amount), t1)
          /\ t1.quantity = t.quantity - e.amount /\ t1.held = t.held
      BY <2>1, <3>2
    <3>. QED
      BY <2>4, <3>3
  <2>6. s1.held = s.held /\ s1.quantity = s.quantity - e.amount
    <3>1. /\ Realized(s, e.usd, e.amount) \in Figures
          /\ RealizedOK(s, Realized(s, e.usd, e.amount), e.usd, e.amount)
          /\ Realized(s, e.usd, e.amount).held = s.held
      BY <1>1, <1>2, FiguresKept, FiguresFields
    <3>2. /\ ReleasedOK(Realized(s, e.usd, e.amount), s1, e.amount)
          /\ s1.held = Realized(s, e.usd, e.amount).held
      BY <2>1, <3>1, FiguresFields
    <3>. QED
      BY <3>1, <3>2 DEF ReleasedOK, RealizedOK
  <2>. QED
    BY <1>3, <1>4, <1>5, <2>1, <2>4, <2>5, <2>6 DEF Aligned, HeldIfAny
<1>. QED
  BY <1>6, <1>7, <1>8

(***************************************************************************)
(* The stored events: a price in SEK comes only with one in USD.           *)
(***************************************************************************)
PricesOK ==
    /\ \A l \in Log : doing[l] = "fetch" => Leg(l).usd # Unknown
    /\ \A l \in Log : doing[l] = "insert" /\ Leg(l).usd = Unknown => work[l].sek = Unknown
    /\ \A e \in events : LegOfRow(e).usd = Unknown => e.sek = Unknown

LEMMA PricesInit == TaxInit => PricesOK
  BY DEF TaxInit, PricesOK

LEMMA PricesMoved ==
    ASSUME Places, PricesOK, NEW l \in Log, NEW s, NEW w, Moves(l, s, w),
           s = "fetch" => Legs[l][w.leg].usd # Unknown,
           s = "insert" /\ Legs[l][w.leg].usd = Unknown => w.sek = Unknown
    PROVE  /\ \A m \in Log : doing'[m] = "fetch" => Leg(m)'.usd # Unknown
           /\ \A m \in Log : doing'[m] = "insert" /\ Leg(m)'.usd = Unknown => work'[m].sek = Unknown
<1>1. doing \in [Log -> Stage] /\ work \in [Log -> Locals]
  BY DEF Places, TaxTypeOK
<1>2. doing'[l] = s /\ work'[l] = w /\ \A m \in Log \ {l} : doing'[m] = doing[m] /\ work'[m] = work[m]
  BY <1>1 DEF Moves
<1>. QED
  BY <1>2 DEF PricesOK, Leg

LEMMA PricesKept ==
    ASSUME Places, PricesOK, NEW l \in Log, NEW s, NEW w, Moves(l, s, w),
           s \notin {"fetch", "insert"}, events' = events
    PROVE  PricesOK'
<1>1. /\ \A m \in Log : doing'[m] = "fetch" => Leg(m)'.usd # Unknown
      /\ \A m \in Log : doing'[m] = "insert" /\ Leg(m)'.usd = Unknown => work'[m].sek = Unknown
  BY PricesMoved
<1>. QED
  BY <1>1 DEF PricesOK, LegOfRow

LEMMA ValuePrices ==
    ASSUME Places, PricesOK, NEW l \in Log, Value(l)
    PROVE  PricesOK'
<1>1. events' = events /\ work[l] \in Locals /\ TaxTypeOK
  BY MyLocals DEF Value, taxTables, Places
<1>2. PICK s, w : Moves(l, s, w) /\ s \in {"fetch", "insert"} /\ w.leg = work[l].leg
  BY <1>1, ValueMoves
<1>3. doing'[l] = s /\ work'[l] = w
  BY <1>2 DEF Moves, Places, TaxTypeOK
<1>4. s = "fetch" => Leg(l).usd # Unknown
  BY <1>3 DEF Value, Continue, Places, TaxTypeOK, Positive
<1>5. s = "insert" /\ Leg(l).usd = Unknown => w.sek = Unknown
  BY <1>1, <1>3 DEF Value, Places, TaxTypeOK, Locals, Positive
<1>6. Legs[l][w.leg] = Leg(l)
  BY <1>2 DEF Leg
<1>7. /\ \A m \in Log : doing'[m] = "fetch" => Leg(m)'.usd # Unknown
      /\ \A m \in Log : doing'[m] = "insert" /\ Leg(m)'.usd = Unknown => work'[m].sek = Unknown
  BY <1>2, <1>4, <1>5, <1>6, PricesMoved
<1>. QED
  BY <1>1, <1>7 DEF PricesOK, LegOfRow

LEMMA FetchPrices ==
    ASSUME Places, PricesOK, NEW l \in Log, FetchRate(l)
    PROVE  PricesOK'
<1>1. events' = events /\ Leg(l).usd # Unknown /\ TaxTypeOK
  BY DEF FetchRate, taxTables, PricesOK, Places
<1>2. PICK s, w : Moves(l, s, w) /\ s = "insert" /\ w.leg = work[l].leg
  BY <1>1, FetchMoves
<1>3. Legs[l][w.leg] = Leg(l)
  BY <1>2 DEF Leg
<1>4. /\ \A m \in Log : doing'[m] = "fetch" => Leg(m)'.usd # Unknown
      /\ \A m \in Log : doing'[m] = "insert" /\ Leg(m)'.usd = Unknown => work'[m].sek = Unknown
  BY <1>1, <1>2, <1>3, PricesMoved
<1>. QED
  BY <1>1, <1>4 DEF PricesOK, LegOfRow

LEMMA InsertPrices ==
    ASSUME Places, PricesOK, NEW l \in Log, InsertEvent(l)
    PROVE  PricesOK'
<1>. DEFINE row == [id |-> nextId, log |-> l, leg |-> work[l].leg, sek |-> work[l].sek]
<1>1. events' = events \union {row} /\ doing[l] = "insert" /\ TaxTypeOK
  BY DEF InsertEvent, Places
<1>2. PICK w : Moves(l, "find", w)
  BY <1>1, InsertMoves
<1>3. /\ \A m \in Log : doing'[m] = "fetch" => Leg(m)'.usd # Unknown
      /\ \A m \in Log : doing'[m] = "insert" /\ Leg(m)'.usd = Unknown => work'[m].sek = Unknown
  BY <1>2, PricesMoved
<1>4. LegOfRow(row).usd = Unknown => row.sek = Unknown
  BY <1>1 DEF PricesOK, LegOfRow, Leg
<1>. HIDE DEF row
<1>5. \A e \in events' : LegOfRow(e).usd = Unknown => e.sek = Unknown
  BY <1>1, <1>4 DEF PricesOK
<1>. QED
  BY <1>3, <1>5 DEF PricesOK, LegOfRow

LEMMA StoreLegPrices ==
    ASSUME Places, PricesOK, NEW l \in Log, StoreLeg(l)
    PROVE  PricesOK'
<1>0. TaxTypeOK
  BY DEF Places
<1>1. CASE FindBasis(l)
  <2>1. PICK s, w : Moves(l, s, w) /\ s \in {"healthy", "create", "select"}
    BY <1>0, <1>1, FindMoves
  <2>2. events' = events
    BY <1>1 DEF FindBasis, taxTables
  <2>. QED
    BY <2>1, <2>2, PricesKept
<1>2. CASE CreateBasis(l)
  <2>1. PICK s, w : Moves(l, s, w) /\ s \in {"healthy", "failed"}
    BY <1>0, <1>2, CreateMoves
  <2>2. events' = events
    BY <1>2 DEF CreateBasis
  <2>. QED
    BY <2>1, <2>2, PricesKept
<1>3. CASE SelectBasis(l)
  <2>1. PICK w : Moves(l, "update", w)
    BY <1>0, <1>3, SelectMoves
  <2>2. events' = events
    BY <1>3 DEF SelectBasis, taxTables
  <2>. QED
    BY <2>1, <2>2, PricesKept
<1>4. CASE UpdateBasis(l)
  <2>1. Moves(l, "healthy", work[l])
    BY <1>0, <1>4, UpdateMoves
  <2>2. events' = events
    BY <1>4 DEF UpdateBasis
  <2>. QED
    BY <2>1, <2>2, PricesKept
<1>5. CASE MarkProjectionHealthy(l) \/ MarkProjectionFailed(l)
  <2>1. PICK s, w : Moves(l, s, w) /\ s \in {"value", "over"}
    BY <1>0, <1>5, MarkMoves
  <2>2. events' = events
    BY <1>5 DEF MarkProjectionHealthy, MarkProjectionFailed
  <2>. QED
    BY <2>1, <2>2, PricesKept
<1>. QED
  BY <1>1, <1>2, <1>3, <1>4, <1>5, ValuePrices, FetchPrices, InsertPrices DEF StoreLeg

LEMMA PricesNext == Places /\ PricesOK /\ [TaxNext]_taxVars => PricesOK'
<1>. SUFFICES ASSUME Places, PricesOK, [TaxNext]_taxVars PROVE PricesOK'
  OBVIOUS
<1>1. CASE Mine
  <2>1. mined + 1 \in Log /\ \E s, w : Moves(mined + 1, s, w) /\ s \in {"wait", "value", "over"}
    BY <1>1, MineMoves
  <2>2. events' = events
    BY <1>1 DEF Mine, taxTables
  <2>3. PICK l \in Log : \E s, w : Moves(l, s, w) /\ s \in {"wait", "value", "over"}
    BY <2>1
  <2>4. PICK s, w : Moves(l, s, w) /\ s \in {"wait", "value", "over"}
    BY <2>3
  <2>. QED
    BY <2>2, <2>4, PricesKept
<1>2. CASE IndexerDies
  <2>1. \A l \in Log : doing'[l] \notin Running
    BY <1>2, DiesMoves
  <2>2. events' = events
    BY <1>2 DEF IndexerDies, taxTables
  <2>. QED
    BY <2>1, <2>2 DEF PricesOK, LegOfRow, Running
<1>3. ASSUME NEW l \in Log, HandleShopLog(l) PROVE PricesOK'
  <2>1. Moves(l, "value", work[l]) /\ events' = events
    BY <1>3, ShopMoves DEF HandleShopLog, taxTables
  <2>. QED
    BY <2>1, PricesKept
<1>4. ASSUME NEW l \in Log, StoreLeg(l) PROVE PricesOK'
  BY <1>4, StoreLegPrices
<1>5. CASE UnchangedHistory
  BY <1>5 DEF PricesOK, UnchangedHistory, taxTables, Leg, LegOfRow
<1>. QED
  BY <1>1, <1>2, <1>3, <1>4, <1>5 DEF TaxNext, taxVars, UnchangedHistory

(***************************************************************************)
(* A user's history, and the reports made of it.                           *)
(***************************************************************************)
LEMMA PlacesInOrder ==
    ASSUME NEW n \in Nat \ {0}, NEW a \in Nat, NEW b \in Nat, NEW i \in 1..(n - 1), NEW j \in 1..(n - 1)
    PROVE  /\ a < b => a * n + i < b * n + j
           /\ a <= b => a * n + i <= b * n + n
           /\ a * n + i \in Nat \ {0}
<1>1. \A c, d \in Nat : c <= d => c * n <= d * n
  BY ProductsGrow
<1>2. a * n \in Nat /\ b * n \in Nat /\ (a + 1) * n = a * n + n
  OBVIOUS
<1>3. a < b => a * n + n <= b * n
  <2>1. a < b => a + 1 <= b /\ a + 1 \in Nat
    OBVIOUS
  <2>. QED
    BY <1>1, <1>2, <2>1
<1>. QED
  BY <1>1, <1>2, <1>3

LEMMA StoredEvents ==
    ASSUME TaxInv, PricesOK, NEW e \in events
    PROVE  /\ EventOK(EventOf(e)) /\ Countable(LegOfRow(e))
           /\ e.id \in 1..(nextId - 1) /\ e.log \in 1..Len(Emitted) /\ e.log \in Nat
           /\ nextId \in Nat \ {0} /\ Len(Emitted) \in Nat
           /\ Place(e) <= Len(Emitted) * nextId + nextId
<1>1. /\ e.log \in 1..mined /\ e.leg \in DOMAIN Legs[e.log] /\ mined \in 0..Len(Emitted)
      /\ e.id \in 1..(nextId - 1) /\ nextId \in Nat \ {0} /\ e.sek \in Int
  BY DEF TaxInv, Places, TaxTypeOK
<1>2. e.log \in Log /\ Len(Emitted) \in Nat
  BY <1>1, TaxHistoryAssumption
<1>3. Countable(LegOfRow(e))
  BY <1>1, <1>2, LegsAreCountable DEF LegOfRow
<1>4. e.log \in 1..Len(Emitted) /\ e.log \in Nat /\ e.log <= Len(Emitted)
  BY <1>1, <1>2
<1>5. Place(e) \in Nat \ {0} /\ Place(e) <= Len(Emitted) * nextId + nextId
  BY <1>1, <1>2, <1>4, PlacesInOrder DEF Place
<1>6. LegOfRow(e).usd = Unknown => e.sek = Unknown
  BY DEF PricesOK
<1>7. EventOK(EventOf(e))
  BY <1>1, <1>3, <1>5, <1>6 DEF EventOK, EventOf, Countable
<1>. QED
  BY <1>1, <1>2, <1>3, <1>4, <1>5, <1>7

LEMMA RowsInOrder ==
    ASSUME TaxInv, PricesOK, NEW d \in events, NEW e \in events
    PROVE  /\ d.log < e.log => Place(d) < Place(e)
           /\ Place(d) = Place(e) => d = e
<1>1. /\ d.id \in 1..(nextId - 1) /\ e.id \in 1..(nextId - 1) /\ nextId \in Nat \ {0}
      /\ d.log \in Nat /\ e.log \in Nat
  BY StoredEvents
<1>2. /\ d.log < e.log => Place(d) < Place(e)
      /\ e.log < d.log => Place(e) < Place(d)
  BY <1>1, PlacesInOrder DEF Place
<1>3. Place(d) \in Nat /\ Place(e) \in Nat
  BY <1>1, PlacesInOrder DEF Place
<1>4. ASSUME Place(d) = Place(e) PROVE d = e
  <2>1. d.log = e.log
    BY <1>1, <1>2, <1>3, <1>4
  <2>2. d.log * nextId \in Nat
    BY <1>1
  <2>3. d.id = e.id
    BY <1>1, <1>4, <2>1, <2>2 DEF Place
  <2>. QED
    BY <2>3 DEF TaxInv, IdsOK
<1>. QED
  BY <1>2, <1>4

LEMMA HistoryIsOK ==
    ASSUME TaxInv, PricesOK, NEW u
    PROVE  HistoryOK(History(u)) /\ IsFiniteSet(History(u))
<1>. DEFINE H == History(u)
            bound == Len(Emitted) * nextId + nextId
<1>1. \A x \in H : \E e \in events : x = EventOf(e)
  BY DEF History
<1>2. nextId \in Nat \ {0} /\ Len(Emitted) \in Nat
  BY TaxHistoryAssumption DEF TaxInv, Places, TaxTypeOK
<1>3. bound \in Nat
  BY <1>2
<1>4. \A e \in events : EventOf(e).at = Place(e)
  BY DEF EventOf
<1>5. ASSUME NEW x \in H PROVE EventOK(x) /\ x.at <= bound
  BY <1>1, <1>4, StoredEvents
<1>6. ASSUME NEW x \in H, NEW y \in H, x.at = y.at PROVE x = y
  <2>1. PICK d \in events, e \in events : x = EventOf(d) /\ y = EventOf(e)
    BY <1>1
  <2>2. Place(d) = Place(e)
    BY <1>4, <1>6, <2>1
  <2>3. d = e
    BY <2>2, RowsInOrder
  <2>. QED
    BY <2>1, <2>3
<1>. HIDE DEF H, bound
<1>7. HistoryOK(H)
  BY <1>3, <1>5, <1>6 DEF HistoryOK
<1>8. [x \in H |-> x.at] \in Injection(H, 1..bound)
  <2>1. \A x \in H : x.at \in 1..bound
    BY <1>3, <1>5 DEF EventOK
  <2>. QED
    BY <1>6, <2>1 DEF Injection, IsInjective
<1>9. IsFiniteSet(1..bound)
  BY <1>3, FS_Interval
<1>10. IsFiniteSet(H)
  BY <1>8, <1>9, FS_Injection
<1>. QED
  BY <1>7, <1>10 DEF H

LEMMA LastPlaceBounds ==
    ASSUME NEW H, HistoryOK(H)
    PROVE  LastPlace(H) \in Nat /\ \A e \in H : e.at <= LastPlace(H)
<1>. DEFINE S == {0} \union {e.at : e \in H}
            tops == {n \in Nat : \A m \in S : m <= n}
<1>1. S \subseteq Nat /\ tops \subseteq Nat
  BY DEF HistoryOK, EventOK
<1>2. tops # {}
  BY DEF HistoryOK
<1>3. PICK n \in tops : \A m \in tops : <<m, n>> \notin OpToRel(<, Nat)
  <2>. HIDE DEF tops
  <2>. QED
    BY <1>1, <1>2, NatLessThanWellFounded, WFMin
<1>4. n \in Nat /\ \A m \in S : m <= n
  BY <1>3
<1>5. n \in S
  <2>1. SUFFICES ASSUME n \notin S PROVE FALSE
    OBVIOUS
  <2>2. n # 0 /\ n - 1 \in Nat /\ \A m \in S : m <= n - 1
    BY <1>1, <1>4, <2>1
  <2>3. n - 1 \in tops /\ n - 1 < n
    BY <1>4, <2>2
  <2>. QED
    BY <1>1, <1>3, <2>3 DEF OpToRel
<1>6. \E x \in S : \A y \in S : x >= y
  BY <1>1, <1>4, <1>5
<1>7. LastPlace(H) = CHOOSE x \in S : \A y \in S : x >= y
  BY DEF LastPlace, Max
<1>8. LastPlace(H) \in S /\ \A y \in S : LastPlace(H) >= y
  BY <1>6, <1>7
<1>. QED
  BY <1>1, <1>8

\* A user's rows of an asset are the events of that asset in the history.
LEMMA RowsAreEvents ==
    ASSUME NEW u, NEW a
    PROVE  /\ \A e \in StoredRows(<<u, a>>) : EventOf(e) \in OfAsset(History(u), a)
           /\ \A x \in OfAsset(History(u), a) : \E e \in StoredRows(<<u, a>>) : x = EventOf(e)
<1>1. \A e : KeyOfRow(e) = <<LegOfRow(e).user, LegOfRow(e).asset>> /\ EventOf(e).asset = LegOfRow(e).asset
  BY DEF KeyOfRow, KeyOf, EventOf
<1>2. \A e : KeyOfRow(e) = <<u, a>> <=> KeyOfRow(e)[1] = u /\ EventOf(e).asset = a
  BY <1>1
<1>. QED
  BY <1>2 DEF StoredRows, History, OfAsset

LEMMA CoveredMeets ==
    ASSUME NEW H, Covered(H), NEW a, NEW x \in OfAsset(H, a)
    PROVE  Meets(SummaryUpTo(H, a, "usd")[x.at - 1], x)
  BY DEF Covered, Meets, OfAsset

\* A settled cost basis shows what the summary of the events shows.
LEMMA BasisIsSummary ==
    ASSUME TaxInv, PricesOK, NEW u, NEW a, <<u, a>> \in Key, Settled(<<u, a>>),
           InTimeOrder(u), Covered(History(u)), ~ForNothing(History(u))
    PROVE  SameFigures(basis[<<u, a>>].h, AssetSummary(History(u), a, "usd"))
<1>. DEFINE k == <<u, a>>
            H == History(u)
            A == OfAsset(H, a)
            rows == StoredRows(k)
            id == [e \in rows |-> e.id]
            place == [e \in rows |-> Place(e)]
            f == [n \in Nat |-> Tally(rows)[n].h]
            g == SummaryUpTo(H, a, "usd")
            alike == {p \in Holding \X Figures : SameFigures(p[1], p[2]) /\ HeldIfAny(p[2])}
            last == LastPlace(H)
<1>1. HistoryOK(H) /\ last \in Nat /\ \A x \in H : x.at <= last
  BY HistoryIsOK, LastPlaceBounds
<1>2. rows \subseteq events /\ RowsOK(rows) /\ \A e \in rows : KeyOfRow(e) = k /\ KeyOfRow(e)[1] = u
  <2>1. RowsOK(rows)
    BY RowsAreOK DEF TaxInv
  <2>2. rows \subseteq events /\ \A e \in rows : KeyOfRow(e) = k
    BY DEF StoredRows
  <2>. QED
    BY <2>1, <2>2
<1>3. \A e \in rows : EventOf(e) \in A /\ EventOf(e) \in H /\ EventOf(e).at = Place(e)
  <2>1. \A e \in rows : EventOf(e) \in A
    BY RowsAreEvents
  <2>2. \A x \in A : x \in H
    BY DEF OfAsset
  <2>3. \A e : EventOf(e).at = Place(e)
    BY DEF EventOf
  <2>. QED
    BY <2>1, <2>2, <2>3
<1>4. \A x \in A : \E e \in rows : x = EventOf(e)
  BY RowsAreEvents
<1>5. \A e \in rows : /\ EventOK(EventOf(e)) /\ Countable(LegOfRow(e)) /\ e.id \in Nat \ {0}
                      /\ e.id <= nextId - 1 /\ Place(e) \in Nat \ {0} /\ Place(e) <= last
                      /\ nextId - 1 \in Nat
  <2>1. \A e \in rows : e \in events /\ EventOf(e).at <= last /\ EventOf(e).at = Place(e)
    BY <1>1, <1>2, <1>3
  <2>. QED
    BY <2>1, StoredEvents DEF EventOK
<1>6. nextId - 1 \in Nat
  BY DEF TaxInv, Places, TaxTypeOK
<1>7. \A d, e \in rows : d.id = e.id => d = e
  BY <1>2 DEF RowsOK
<1>8. \A d, e \in rows : d.id < e.id => Place(d) < Place(e)
  <2>1. \A d, e \in rows : d.id < e.id => d.log < e.log
    BY <1>2 DEF InTimeOrder
  <2>. QED
    BY <1>2, <2>1, RowsInOrder
<1>9. \A d, e \in rows : d.id < e.id <=> Place(d) < Place(e)
  BY <1>5, <1>7, <1>8
<1>10. /\ Tally(rows)[0] = NoRow
       /\ \A n \in Nat \ {0} : Tally(rows)[n] = TallyStep(rows, n, Tally(rows)[n - 1])
  BY <1>2, TallyUnfolds
<1>11. ASSUME NEW n \in Nat \ {0}, \A e \in rows : e.id # n PROVE f[n] = f[n - 1]
  <2>1. StoredAs(rows, n) = {}
    BY <1>11 DEF StoredAs
  <2>2. Tally(rows)[n] = Tally(rows)[n - 1]
    BY <1>10, <2>1 DEF TallyStep
  <2>. QED
    BY <2>2
<1>12. ASSUME NEW e \in rows PROVE f[e.id] = Counted(f[e.id - 1], EventOf(e))
  <2>1. StoredAs(rows, e.id) = {e}
    BY <1>7 DEF StoredAs
  <2>2. Tally(rows)[e.id].h = Counted(Tally(rows)[e.id - 1].h, LegOfRow(e))
    <3>1. Tally(rows)[e.id] = TallyStep(rows, e.id, Tally(rows)[e.id - 1])
      BY <1>5, <1>10
    <3>2. (CHOOSE d \in StoredAs(rows, e.id) : TRUE) = e
      BY <2>1
    <3>3. \A row : TallyStep(rows, e.id, row).h = Counted(row.h, LegOfRow(e))
      BY <2>1, <3>2 DEF TallyStep
    <3>. QED
      BY <3>1, <3>3
  <2>3. ASSUME NEW h PROVE Counted(h, EventOf(e)) = Counted(h, LegOfRow(e))
    <3>1. /\ EventOf(e).usd = LegOfRow(e).usd /\ EventOf(e).type = LegOfRow(e).type
          /\ EventOf(e).amount = LegOfRow(e).amount
      BY DEF EventOf
    <3>. QED
      BY <3>1 DEF Counted, Positive
  <2>. QED
    BY <1>5, <2>2, <2>3
<1>13. /\ g[0] = Fresh
       /\ \A n \in Nat : g[n] \in Figures
       /\ \A n \in Nat \ {0} : (\A x \in A : x.at # n) => g[n] = g[n - 1]
       /\ \A x \in A : g[x.at] = SummaryStep(g[x.at - 1], x, x["usd"])
  BY <1>1, SummaryUnfolds
<1>14. \A x \in A : Meets(g[x.at - 1], x) /\ x.usd # 0
  BY CoveredMeets DEF ForNothing, OfAsset
<1>15. basis[k] = Tally(rows)[nextId - 1]
  BY DEF TaxInv, Settled, Exact, Updater, TallyNow
<1>. HIDE DEF rows, H, A, g, last
<1>16. ASSUME NEW e \in rows, <<f[id[e] - 1], g[place[e] - 1]>> \in alike
       PROVE  <<f[id[e]], g[place[e]]>> \in alike
  <2>. DEFINE x == EventOf(e)
              h == f[e.id - 1]
              s == g[Place(e) - 1]
  <2>1. h \in Holding /\ s \in Figures /\ SameFigures(h, s) /\ HeldIfAny(s)
    BY <1>16
  <2>2. EventOK(x) /\ Meets(s, x) /\ x.usd # 0 /\ x \in A /\ x.at = Place(e) /\ x["usd"] = x.usd
    BY <1>3, <1>5, <1>14
  <2>3. f[e.id] = Counted(h, x) /\ g[Place(e)] = SummaryStep(s, x, x.usd)
    BY <1>12, <1>13, <2>2
  <2>. HIDE DEF f, x, h, s
  <2>4. SameFigures(Counted(h, x), SummaryStep(s, x, x.usd)) /\ HeldIfAny(SummaryStep(s, x, x.usd))
    BY <2>1, <2>2, CountedAlike
  <2>5. Counted(h, x) \in Holding /\ SummaryStep(s, x, x.usd) \in Figures
    BY <2>1, <2>2, CountedType, SummaryStepType DEF EventOK, Countable, Holding
  <2>. QED
    BY <2>3, <2>4, <2>5
<1>17. <<f[0], g[0]>> \in alike
  <2>1. f[0] = Nothing
    BY <1>10, Rows
  <2>2. Nothing \in Holding /\ Fresh \in Figures /\ SameFigures(Nothing, Fresh) /\ HeldIfAny(Fresh)
    BY Rows DEF Nothing, Fresh, Holding, Figures, SameFigures, HeldIfAny
  <2>. QED
    BY <1>13, <2>1, <2>2
<1>18. /\ id \in [rows -> Nat \ {0}] /\ place \in [rows -> Nat \ {0}]
       /\ \A d, e \in rows : id[d] < id[e] <=> place[d] < place[e]
       /\ \A d, e \in rows : id[d] = id[e] => d = e
       /\ \A n \in Nat \ {0} : (\A e \in rows : id[e] # n) => f[n] = f[n - 1]
       /\ \A n \in Nat \ {0} : (\A e \in rows : place[e] # n) => g[n] = g[n - 1]
       /\ \A e \in rows : id[e] <= nextId - 1 /\ place[e] <= last
  <2>1. \A n \in Nat \ {0} : (\A e \in rows : place[e] # n) => \A x \in A : x.at # n
    BY <1>3, <1>4
  <2>2. \A n \in Nat \ {0} : (\A e \in rows : id[e] # n) => f[n] = f[n - 1]
    BY <1>11
  <2>. HIDE DEF f
  <2>. QED
    BY <1>5, <1>7, <1>9, <1>13, <2>1, <2>2
<1>19. <<f[nextId - 1], g[last]>> \in alike
  <2>. HIDE DEF f, id, place, alike
  <2>. QED
    BY <1>1, <1>6, <1>16, <1>17, <1>18, TwoClocks
<1>20. SameFigures(f[nextId - 1], g[last])
  BY <1>19
<1>. QED
  BY <1>6, <1>15, <1>20 DEF AssetSummary, g, H, last, rows

\* The K4 rows of an asset show what its summary in SEK shows, and lack no
\* value but those of events without a price.
LEMMA K4IsSummary ==
    ASSUME NEW H, HistoryOK(H), Covered(H), Rated(H), NEW a
    PROVE  /\ SameFigures(K4(H, a).sek, AssetSummary(H, a, "sek"))
           /\ Incomplete(K4(H, a)) \subseteq Unpriced(H)
<1>. DEFINE A == OfAsset(H, a)
            place == [x \in A |-> x.at]
            su == SummaryUpTo(H, a, "usd")
            se == SummaryUpTo(H, a, "sek")
            f == [n \in Nat |-> <<su[n], se[n]>>]
            g == K4UpTo(H, a)
            alike == {p \in (Figures \X Figures) \X Forms(H) : Aligned(H, p[1][1], p[1][2], p[2])}
            last == LastPlace(H)
<1>1. last \in Nat /\ \A x \in H : x.at <= last
  BY LastPlaceBounds
<1>2. \A x \in A : x \in H /\ EventOK(x) /\ x.at \in Nat \ {0} /\ (x.usd # Unknown => x.sek # Unknown)
  BY DEF OfAsset, HistoryOK, EventOK, Rated
<1>3. \A x, y \in A : x.at = y.at => x = y
  BY DEF OfAsset, HistoryOK
<1>4. /\ su[0] = Fresh
      /\ \A n \in Nat \ {0} : (\A x \in A : x.at # n) => su[n] = su[n - 1]
      /\ \A x \in A : su[x.at] = SummaryStep(su[x.at - 1], x, x["usd"])
  BY SummaryUnfolds
<1>5. /\ se[0] = Fresh
      /\ \A n \in Nat \ {0} : (\A x \in A : x.at # n) => se[n] = se[n - 1]
      /\ \A x \in A : se[x.at] = SummaryStep(se[x.at - 1], x, x["sek"])
  BY SummaryUnfolds
<1>6. /\ g[0] = Blank
      /\ \A n \in Nat \ {0} : (\A x \in A : x.at # n) => g[n] = g[n - 1]
      /\ \A x \in A : g[x.at] = K4Step(g[x.at - 1], x)
  BY K4Unfolds
<1>7. \A x \in A : Meets(su[x.at - 1], x)
  BY CoveredMeets
<1>. HIDE DEF A, su, se, g, last
<1>8. ASSUME NEW s, NEW t, NEW k, Aligned(H, s, t, k) PROVE <<<<s, t>>, k>> \in alike
  BY <1>8 DEF Aligned
<1>9. ASSUME NEW x \in A, <<f[place[x] - 1], g[place[x] - 1]>> \in alike
      PROVE  <<f[place[x]], g[place[x]]>> \in alike
  <2>. DEFINE s == su[x.at - 1]
              t == se[x.at - 1]
              k == g[x.at - 1]
  <2>1. x.at \in Nat /\ x.at - 1 \in Nat
    BY <1>2
  <2>2. Aligned(H, s, t, k)
    BY <1>9, <2>1
  <2>3. Meets(s, x) /\ x["usd"] = x.usd /\ x["sek"] = x.sek
    BY <1>7
  <2>4. Aligned(H, SummaryStep(s, x, x.usd), SummaryStep(t, x, x.sek), K4Step(k, x))
    <3>. HIDE DEF s, t, k, alike, f, place
    <3>. QED
      BY <1>2, <2>2, <2>3, RowsAlike
  <2>5. Aligned(H, su[x.at], se[x.at], g[x.at])
    BY <1>4, <1>5, <1>6, <2>3, <2>4
  <2>6. f[place[x]] = <<su[x.at], se[x.at]>>
    BY <2>1
  <2>. HIDE DEF f, alike
  <2>. QED
    BY <1>8, <2>5, <2>6
<1>10. <<f[0], g[0]>> \in alike
  <2>1. f[0] = <<Fresh, Fresh>> /\ g[0] = Blank
    BY <1>4, <1>5, <1>6
  <2>2. Nothing \in Holding /\ Fresh \in Figures /\ SameFigures(Nothing, Fresh) /\ HeldIfAny(Fresh)
    BY Rows DEF Nothing, Fresh, Holding, Figures, SameFigures, HeldIfAny
  <2>3. Aligned(H, Fresh, Fresh, Blank)
    BY <2>2 DEF Aligned, Blank, Forms
  <2>. HIDE DEF f, alike
  <2>. QED
    BY <1>8, <2>1, <2>3
<1>11. /\ place \in [A -> Nat \ {0}]
       /\ \A x, y \in A : place[x] = place[y] => x = y
       /\ \A n \in Nat \ {0} : (\A x \in A : place[x] # n) => g[n] = g[n - 1]
       /\ \A x \in A : place[x] <= last
  BY <1>1, <1>2, <1>3, <1>6
<1>12. ASSUME NEW n \in Nat \ {0}, \A x \in A : place[x] # n PROVE f[n] = f[n - 1]
  <2>1. su[n] = su[n - 1] /\ se[n] = se[n - 1]
    BY <1>4, <1>5, <1>12
  <2>2. n \in Nat /\ n - 1 \in Nat
    OBVIOUS
  <2>. QED
    BY <2>1, <2>2
<1>13. <<f[last], g[last]>> \in alike
  <2>. HIDE DEF f, place, alike
  <2>. QED
    BY <1>1, <1>9, <1>10, <1>11, <1>12, TwoClocks
<1>14. Aligned(H, su[last], se[last], g[last])
  BY <1>1, <1>13
<1>15. SameFigures(g[last].sek, se[last]) /\ g[last].inUsd = {} /\ g[last].missing \subseteq Unpriced(H)
  BY <1>14 DEF Aligned
<1>. QED
  BY <1>15 DEF K4, AssetSummary, Incomplete, g, se, last

LEMMA TotalsSame ==
    ASSUME NEW S, NEW f, NEW g, DOMAIN f = S, DOMAIN g = S, \A a \in S : SameFigures(f[a], g[a])
    PROVE  Totals(f) = Totals(g)
<1>1. [a \in DOMAIN f |-> f[a]["gains"]] = [a \in DOMAIN g |-> g[a]["gains"]]
  BY DEF SameFigures
<1>2. [a \in DOMAIN f |-> f[a]["losses"]] = [a \in DOMAIN g |-> g[a]["losses"]]
  BY DEF SameFigures
<1>3. \A field \in {"gains", "losses"} :
         [a \in DOMAIN f |-> f[a][field]] = [a \in DOMAIN g |-> g[a][field]]
  BY <1>1, <1>2
<1>. QED
  BY <1>3 DEF Totals

LEMMA ReportsAreOne == TaxInv /\ PricesOK => ReportsAgree
<1>. SUFFICES ASSUME TaxInv, PricesOK, NEW u \in User,
                     \A a \in AssetsOf(u) : Settled(<<u, a>>),
                     InTimeOrder(u), Covered(History(u)), ~ForNothing(History(u))
              PROVE  /\ BasisTotals(u) = Summary(History(u), AssetsOf(u), "usd")
                     /\ Rated(History(u)) =>
                           /\ K4Totals(History(u), AssetsOf(u)) = Summary(History(u), AssetsOf(u), "sek")
                           /\ ~Blocked(History(u)) =>
                                 20 * Cardinality(UNION {Incomplete(K4(History(u), a)) : a \in AssetsOf(u)})
                                     <= Cardinality(History(u))
  BY DEF ReportsAgree
<1>. DEFINE H == History(u)
            S == AssetsOf(u)
<1>1. HistoryOK(H) /\ IsFiniteSet(H)
  BY HistoryIsOK
<1>2. ASSUME NEW a \in S PROVE <<u, a>> \in Key
  <2>1. PICK k \in Key : k[1] = u /\ k[2] = a
    BY DEF AssetsOf
  <2>2. \E x, y : k = <<x, y>>
    BY DEF Key, KeyOf
  <2>. QED
    BY <2>1, <2>2
<1>3. BasisTotals(u) = Summary(H, S, "usd")
  <2>1. \A a \in S : SameFigures(basis[<<u, a>>].h, AssetSummary(H, a, "usd"))
    BY <1>2, BasisIsSummary
  <2>. HIDE DEF H, S
  <2>2. Totals([a \in S |-> basis[<<u, a>>].h]) = Totals([a \in S |-> AssetSummary(H, a, "usd")])
    BY <2>1, TotalsSame
  <2>. QED
    BY <2>2 DEF BasisTotals, Summary, S
<1>4. ASSUME Rated(H) PROVE K4Totals(H, S) = Summary(H, S, "sek")
  <2>1. \A a \in S : SameFigures(K4(H, a).sek, AssetSummary(H, a, "sek"))
    BY <1>1, <1>4, K4IsSummary
  <2>. HIDE DEF H, S
  <2>2. Totals([a \in S |-> K4(H, a).sek]) = Totals([a \in S |-> AssetSummary(H, a, "sek")])
    BY <2>1, TotalsSame
  <2>. QED
    BY <2>2 DEF K4Totals, Summary
<1>5. ASSUME Rated(H), ~Blocked(H)
      PROVE  20 * Cardinality(UNION {Incomplete(K4(H, a)) : a \in S}) <= Cardinality(H)
  <2>. DEFINE lacking == UNION {Incomplete(K4(H, a)) : a \in S}
  <2>1. \A a \in S : Incomplete(K4(H, a)) \subseteq Unpriced(H)
    BY <1>1, <1>5, K4IsSummary
  <2>2. lacking \subseteq Unpriced(H)
    BY <2>1
  <2>3. Unpriced(H) \subseteq H
    BY DEF Unpriced
  <2>. HIDE DEF lacking, H
  <2>4. IsFiniteSet(Unpriced(H)) /\ Cardinality(Unpriced(H)) \in Nat
    BY <1>1, <2>3, FS_Subset, FS_CardinalityType
  <2>5. IsFiniteSet(lacking) /\ Cardinality(lacking) \in Nat /\ Cardinality(lacking) <= Cardinality(Unpriced(H))
    BY <2>2, <2>4, FS_Subset, FS_CardinalityType
  <2>6. Cardinality(H) \in Nat /\ ~(20 * Cardinality(Unpriced(H)) > Cardinality(H))
    BY <1>1, <1>5, FS_CardinalityType DEF Blocked
  <2>7. 20 * Cardinality(lacking) <= Cardinality(H)
    BY <2>4, <2>5, <2>6
  <2>. QED
    BY <2>7 DEF lacking
<1>. QED
  BY <1>3, <1>4, <1>5

\* Every variable of the tax history keeps its type: a leg in hand is one of
\* its log's, and a stored event is one of a log that the chain has reached.
THEOREM TaxTypeCorrect == TaxSpec => []TaxTypeOK
<1>1. Places => TaxTypeOK
  BY DEF Places
<1>. QED
  BY <1>1, PlacesInit, PlacesNext, PTL DEF TaxSpec

\* For any logs, rates and number of crashes, a cost basis whose updates never
\* met, failed or were cut off is what its stored events add up to.
THEOREM SettledBasesAreExact == TaxSpec => []SettledBasisIsExact
<1>1. TaxInv => SettledBasisIsExact
  BY DEF TaxInv, SettledBasisIsExact, Settled, Exact, Updater, TallyNow
<1>. QED
  BY <1>1, TaxInvInit, TaxInvNext, PTL DEF TaxSpec

\* For any logs, rates and number of crashes: where a user's events of each
\* asset were stored in the order of their times, every disposal is covered,
\* nothing was sold for nothing and the tallies are settled, the cost basis and
\* the summary of the events show the same totals; with a rate for every price
\* so do the K4 rows and the summary in SEK, and an export that the gate lets
\* through lacks a value in SEK in one row per twenty events at most.
THEOREM ReportsTellOneStory == TaxSpec => []ReportsAgree
<1>1. TaxInit => TaxInv /\ PricesOK
  BY TaxInvInit, PricesInit
<1>2. TaxInv /\ PricesOK /\ [TaxNext]_taxVars => (TaxInv /\ PricesOK)'
  <2>1. TaxInv => Places
    BY DEF TaxInv
  <2>. QED
    BY <2>1, TaxInvNext, PricesNext
<1>. QED
  BY <1>1, <1>2, ReportsAreOne, PTL DEF TaxSpec

\* Only the connection's own handlers and the end of the process touch it.
LEMMA HandlersLeaveConnection ==
    ASSUME \/ Mine \/ UNCHANGED taxVars
           \/ \E l \in Log : HandleShopLog(l) \/ StoreLeg(l)
    PROVE  UNCHANGED connection
<1>1. CASE Mine \/ UNCHANGED taxVars
  BY <1>1 DEF Mine, taxVars
<1>2. ASSUME NEW l \in Log, HandleShopLog(l) \/ StoreLeg(l) PROVE UNCHANGED connection
  BY <1>2 DEF HandleShopLog, StoreLeg, Value, FetchRate, InsertEvent, FindBasis, CreateBasis,
              SelectBasis, UpdateBasis, MarkProjectionHealthy, MarkProjectionFailed
<1>. QED
  BY <1>1, <1>2

LEMMA TimerNext ==
    ASSUME ConnectionTypeOK, TimerFits, [TaxNext]_taxVars
    PROVE  TimerFits'
<1>. USE DEF TimerFits, ConnectionTypeOK, Socket
<1>1. CASE UNCHANGED connection
  BY <1>1 DEF connection
<1>2. CASE IndexerDies
  BY <1>2 DEF IndexerDies, Die
<1>3. CASE ConnectionLost
  BY <1>3 DEF ConnectionLost, ScheduleReconnect
<1>4. CASE Connected \/ TimerFires \/ Reopen \/ OnModuleDestroy \/ Start
  BY <1>4 DEF Connected, TimerFires, Reopen, OnModuleDestroy, Start
<1>. QED
  BY <1>1, <1>2, <1>3, <1>4, HandlersLeaveConnection DEF TaxNext, ConnectionStep

\* The catch of an attempt, the close handler, the timer itself, a shutdown and
\* a restart in any order and number, with events being handled beside them.
THEOREM NoTimerIsLost == TaxSpec => []TimerFits
<1>1. TaxInit => TimerFits
  BY DEF TaxInit, InitConnection, TimerFits
<1>2. TaxInv => ConnectionTypeOK
  BY DEF TaxInv, Places, TaxTypeOK
<1>. QED
  BY <1>1, <1>2, TaxInvInit, TaxInvNext, TimerNext, PTL DEF TaxSpec
-----------------------------------------------------------------------------
(***************************************************************************)
(* The portal.                                                             *)
(***************************************************************************)
USE PortalAssumption

Steps == {"idle", "send", "wait", "event"}

TypeInv ==
    /\ chosen \in Account \cup {None}
    /\ wallet \in [address : Account \cup {None}, signer : Account \cup {None}]
    /\ connecting \in [step : {"idle", "accounts", "signer", "set"},
                       account : Account \cup {None}, signer : Account \cup {None}]
    /\ trade \in [Trades -> [step : Steps, address : Account \cup {None},
                             signer : Account \cup {None}]]
    /\ chain \in [Trades -> [sender : Account \cup {None}, confirmed : BOOLEAN]]
    /\ logged \subseteq Trades \X Account

\* The signer of a trade that runs is the sender of its transaction, once it
\* is sent; a transaction is sent once, and an event follows its confirmation.
SenderInv ==
    \A e \in Trades :
        /\ trade[e].step # "idle" => trade[e].signer # None /\ trade[e].address # None
        /\ trade[e].step = "send" => chain[e].sender = None
        /\ trade[e].step \in {"wait", "event"} => chain[e].sender = trade[e].signer
        /\ trade[e].step = "event" => chain[e].confirmed

PortalInv == TypeInv /\ SenderInv /\ EventsNameTheSender

LEMMA PortalInitInv == PortalInit => PortalInv
  BY DEF PortalInit, PortalInv, TypeInv, SenderInv, EventsNameTheSender, NoWallet,
         NotConnecting, NoTrade, Steps

\* Pages, histories and connections leave the trades and the chain alone.
LEMMA ElsewhereInv ==
    ASSUME PortalInv, UNCHANGED <<trade, chain, logged>>,
           chosen' \in Account \cup {None},
           wallet' \in [address : Account \cup {None}, signer : Account \cup {None}],
           connecting' \in [step : {"idle", "accounts", "signer", "set"},
                       account : Account \cup {None}, signer : Account \cup {None}]
    PROVE  PortalInv'
  BY DEF PortalInv, TypeInv, SenderInv, EventsNameTheSender

LEMMA HistoryInv ==
    ASSUME PortalInv,
           \/ Refresh \/ \E p \in Pages : Navigate(p)
           \/ \E q \in asked : Serve(q) \/ Arrive(q) \/ RequestFails(q)
           \/ \E e \in Trades : Store(e)
    PROVE  PortalInv'
<1>1. UNCHANGED <<trade, chain, logged, chosen, wallet, connecting>>
  BY DEF Refresh, Navigate, Serve, Arrive, RequestFails, Store, outside, tab
<1>. QED
  BY <1>1, ElsewhereInv DEF PortalInv, TypeInv

LEMMA ConnectionInv ==
    ASSUME PortalInv,
           \/ \E a \in Account \cup {None} : SwitchAccount(a)
           \/ Disconnect \/ Connect \/ GetAccounts \/ GetSigner \/ SetWallet \/ ConnectFails
    PROVE  PortalInv'
<1>1. UNCHANGED <<trade, chain, logged>>
  BY DEF SwitchAccount, Disconnect, Connect, GetAccounts, GetSigner, SetWallet,
         ConnectFails, outside
<1>2. chosen' \in Account \cup {None}
  BY DEF SwitchAccount, Disconnect, Connect, GetAccounts, GetSigner, SetWallet,
         ConnectFails, outside, PortalInv, TypeInv
<1>3. wallet' \in [address : Account \cup {None}, signer : Account \cup {None}]
  BY DEF SwitchAccount, Disconnect, Connect, GetAccounts, GetSigner, SetWallet,
         ConnectFails, NoWallet, PortalInv, TypeInv
<1>4. connecting' \in [step : {"idle", "accounts", "signer", "set"},
                       account : Account \cup {None}, signer : Account \cup {None}]
  <2>1. CASE GetAccounts
    BY <2>1 DEF GetAccounts, PortalInv, TypeInv
  <2>2. CASE GetSigner
    BY <2>2 DEF GetSigner, PortalInv, TypeInv
  <2>3. CASE Connect \/ SetWallet \/ ConnectFails
    BY <2>3 DEF Connect, SetWallet, ConnectFails, NotConnecting
  <2>4. CASE Disconnect \/ \E a \in Account \cup {None} : SwitchAccount(a)
    BY <2>4 DEF Disconnect, SwitchAccount, PortalInv, TypeInv
  <2>. QED
    BY <2>1, <2>2, <2>3, <2>4
<1>. QED
  BY <1>1, <1>2, <1>3, <1>4, ElsewhereInv

LEMMA ReloadInv ==
    ASSUME PortalInv, Reload
    PROVE  PortalInv'
<1>1. UNCHANGED <<chain, logged, chosen>>
      /\ trade' = [e \in Trades |-> NoTrade] /\ wallet' = NoWallet
      /\ connecting'.step \in {"idle", "accounts"}
      /\ connecting' = [NotConnecting EXCEPT !.step = IF chosen = None THEN "idle" ELSE "accounts"]
  BY DEF Reload, outside, NotConnecting
<1>. QED
  BY <1>1 DEF PortalInv, TypeInv, SenderInv, EventsNameTheSender, NoTrade, NoWallet,
              NotConnecting, Steps

LEMMA TradeInv ==
    ASSUME PortalInv, NEW e \in Trades,
           Press(e) \/ Send(e) \/ Confirmed(e) \/ LogEvent(e) \/ TradeFails(e) \/ Confirm(e)
    PROVE  PortalInv'
<1>. TypeInv /\ SenderInv /\ EventsNameTheSender
  BY DEF PortalInv
<1>1. CASE Press(e)
  <2>1. UNCHANGED <<chain, logged, chosen, wallet, connecting>>
    BY <1>1 DEF Press, outside
  <2>2. trade' = [trade EXCEPT ![e] =
            [step |-> "send", address |-> wallet.address, signer |-> wallet.signer]]
        /\ wallet.address # None /\ wallet.signer # None /\ chain[e].sender = None
    BY <1>1 DEF Press
  <2>3. TypeInv'
    BY <2>1, <2>2 DEF TypeInv, Steps
  <2>4. SenderInv'
    BY <2>1, <2>2 DEF TypeInv, SenderInv
  <2>5. EventsNameTheSender'
    BY <2>1 DEF EventsNameTheSender
  <2>. QED
    BY <2>3, <2>4, <2>5 DEF PortalInv
<1>2. CASE Send(e)
  <2>1. \A l \in logged : l[1] # e
    BY <1>2 DEF Send, TypeInv, SenderInv, EventsNameTheSender
  <2>2. TypeInv'
    BY <1>2 DEF Send, TypeInv, Steps
  <2>3. SenderInv'
    BY <1>2 DEF Send, TypeInv, SenderInv, Steps
  <2>4. EventsNameTheSender'
    BY <1>2, <2>1 DEF Send, TypeInv, EventsNameTheSender
  <2>. QED
    BY <2>2, <2>3, <2>4 DEF PortalInv
<1>3. CASE Confirmed(e)
  BY <1>3 DEF Confirmed, outside, PortalInv, TypeInv, SenderInv, EventsNameTheSender, NoTrade, Steps
<1>4. CASE LogEvent(e)
  <2>1. UNCHANGED <<chain, chosen, wallet, connecting>>
        /\ trade' = [trade EXCEPT ![e] = NoTrade] /\ trade[e].step = "event"
    BY <1>4 DEF LogEvent
  <2>2. trade[e].address \in Account
        /\ chain[e].sender = trade[e].signer /\ chain[e].confirmed
    BY <2>1 DEF TypeInv, SenderInv
  <2>3. logged' = logged
        \/ (trade[e].signer = trade[e].address /\ logged' = logged \cup {<<e, trade[e].address>>})
    BY <1>4 DEF LogEvent, Verified
  <2>4. TypeInv' /\ SenderInv'
    BY <2>1, <2>2, <2>3 DEF TypeInv, SenderInv, NoTrade, Steps
  <2>5. EventsNameTheSender'
    BY <2>1, <2>2, <2>3 DEF EventsNameTheSender
  <2>. QED
    BY <2>4, <2>5 DEF PortalInv
<1>5. CASE TradeFails(e)
  <2>1. UNCHANGED <<chain, logged, chosen, wallet, connecting>>
        /\ trade' = [trade EXCEPT ![e] = NoTrade]
    BY <1>5 DEF TradeFails, outside
  <2>2. TypeInv' /\ SenderInv'
    BY <2>1 DEF TypeInv, SenderInv, NoTrade, Steps
  <2>. QED
    BY <2>1, <2>2 DEF PortalInv, EventsNameTheSender
<1>6. CASE Confirm(e)
  <2>1. UNCHANGED <<trade, logged, chosen, wallet, connecting>>
        /\ chain' = [chain EXCEPT ![e].confirmed = TRUE]
    BY <1>6 DEF Confirm, tab
  <2>2. TypeInv'
    BY <2>1 DEF TypeInv
  <2>3. SenderInv'
    BY <2>1 DEF TypeInv, SenderInv
  <2>4. EventsNameTheSender'
    BY <2>1 DEF TypeInv, EventsNameTheSender
  <2>. QED
    BY <2>2, <2>3, <2>4 DEF PortalInv
<1>. QED
  BY <1>1, <1>2, <1>3, <1>4, <1>5, <1>6

LEMMA PortalNextInv == PortalInv /\ [PortalNext]_portalVars => PortalInv'
<1>. SUFFICES ASSUME PortalInv, [PortalNext]_portalVars
              PROVE  PortalInv'
  OBVIOUS
<1>1. CASE UNCHANGED portalVars
  BY <1>1, ElsewhereInv DEF portalVars, tab, outside, PortalInv, TypeInv
<1>. QED
  BY <1>1, HistoryInv, ConnectionInv, ReloadInv, TradeInv DEF PortalNext

(***************************************************************************)
(* However the player changes accounts, pages and trades, and whatever     *)
(* fails on the way, an economic event names the account that sent the     *)
(* trade, which is confirmed: what is checked is the signature, and the    *)
(* signer a handler works with is the one it sent the trade with.          *)
(***************************************************************************)
THEOREM EventsAreTheSenders == PortalSpec => []EventsNameTheSender
<1>1. PortalInv => EventsNameTheSender
  BY DEF PortalInv
<1>. QED
  BY <1>1, PortalInitInv, PortalNextInv, PTL DEF PortalSpec

(***************************************************************************)
(* Histories.  What is stored is confirmed and what is confirmed was sent, *)
(* so nothing about it changes any more, and what an answer has read stays *)
(* true of the account it was read for however late it arrives.            *)
(***************************************************************************)
\* A history that is asked for: nothing read yet, or rows that belong in it.
Sound(q) ==
    /\ q = [account |-> q.account, rows |-> q.rows]
    /\ q.rows = Unread \/ q.rows \subseteq Belong(q.account)

ChainGoesOn == \A e \in Trades : chain[e].confirmed => chain'[e] = chain[e]

AnswersInv ==
    /\ stored \subseteq {e \in Trades : chain[e].confirmed}
    /\ \A e \in Trades : chain[e].confirmed => chain[e].sender # None
    /\ \A q \in asked : Sound(q)
    /\ HistoriesOnlyLack

LEMMA BelongGrows ==
    ASSUME ChainGoesOn, NEW a
    PROVE  Belong(a) \subseteq Belong(a)'
  BY DEF ChainGoesOn, Belong

\* The rows that are asked for, read, shown or forgotten.
LEMMA AnswersStep ==
    ASSUME AnswersInv, ChainGoesOn,
           stored' \subseteq {e \in Trades : chain'[e].confirmed},
           \A e \in Trades : chain'[e].confirmed => chain'[e].sender # None,
           \A q \in asked' : q \in asked \/ Sound(q),
           \/ shown' \in {shown, NoHistory}
           \/ shown' \in asked /\ shown'.rows # Unread
    PROVE  AnswersInv'
<1>1. \A q \in asked' : Sound(q)'
  BY BelongGrows DEF AnswersInv, Sound
<1>2. shown'.rows \subseteq Belong(shown'.account)
  BY DEF AnswersInv, Sound, HistoriesOnlyLack, NoHistory
<1>3. HistoriesOnlyLack'
  BY <1>2, BelongGrows DEF HistoriesOnlyLack
<1>. QED
  BY <1>1, <1>3 DEF AnswersInv

LEMMA PathAsks ==
    ASSUME NEW a, PathChanges(a)
    PROVE  /\ \A q \in asked' : q \in asked \/ Sound(q)
           /\ shown' = shown \/ shown' = NoHistory
  BY DEF PathChanges, Question, Sound

LEMMA AnswersNext ==
    ASSUME PortalInv, AnswersInv, [PortalNext]_portalVars
    PROVE  AnswersInv'
<1>. /\ TypeInv /\ SenderInv
     /\ stored \subseteq {e \in Trades : chain[e].confirmed}
     /\ \A e \in Trades : chain[e].confirmed => chain[e].sender # None
  BY DEF PortalInv, AnswersInv
<1>0. ASSUME UNCHANGED <<chain, stored>>,
             \A q \in asked' : q \in asked \/ Sound(q),
             \/ shown' \in {shown, NoHistory}
             \/ shown' \in asked /\ shown'.rows # Unread
      PROVE  AnswersInv'
  BY <1>0, AnswersStep DEF ChainGoesOn
<1>1. CASE UNCHANGED portalVars
  BY <1>0, <1>1 DEF portalVars, tab, outside
<1>2. ASSUME Refresh \/ \E p \in Pages : Navigate(p) PROVE AnswersInv'
  <2>1. \A q \in asked' : q \in asked \/ Sound(q)
    BY <1>2 DEF Refresh, Navigate, Question, Sound
  <2>. QED
    BY <1>0, <1>2, <2>1 DEF Refresh, Navigate, outside
<1>3. ASSUME NEW q \in asked, Serve(q) PROVE AnswersInv'
  <2>1. RowsOf(q.account) \subseteq Belong(q.account)
    BY DEF RowsOf, Belong
  <2>2. q = [account |-> q.account, rows |-> q.rows]
    BY DEF AnswersInv, Sound
  <2>3. [q EXCEPT !.rows = RowsOf(q.account)] = [account |-> q.account, rows |-> RowsOf(q.account)]
    BY <2>2
  <2>4. \A p \in asked' : p \in asked \/ Sound(p)
    BY <1>3, <2>1, <2>3 DEF Serve, Sound
  <2>. QED
    BY <1>0, <1>3, <2>4 DEF Serve, outside
<1>4. ASSUME NEW q \in asked, Arrive(q) \/ RequestFails(q) PROVE AnswersInv'
  BY <1>0, <1>4 DEF Arrive, RequestFails, outside
<1>5. CASE \/ \E a \in Account \cup {None} : SwitchAccount(a)
           \/ Disconnect \/ Connect \/ GetAccounts \/ GetSigner \/ SetWallet \/ ConnectFails
  <2>1. \/ UNCHANGED <<asked, shown>>
        \/ \E a : PathChanges(a)
    BY <1>5 DEF SwitchAccount, Disconnect, Connect, GetAccounts, GetSigner, SetWallet, ConnectFails
  <2>2. UNCHANGED <<chain, stored>>
    BY <1>5 DEF SwitchAccount, Disconnect, Connect, GetAccounts, GetSigner, SetWallet,
                ConnectFails, outside
  <2>. QED
    BY <1>0, <2>1, <2>2, PathAsks
<1>6. CASE Reload
  BY <1>0, <1>6 DEF Reload, outside
<1>7. ASSUME NEW e \in Trades, Press(e) \/ Confirmed(e) \/ LogEvent(e) \/ TradeFails(e)
      PROVE  AnswersInv'
  BY <1>0, <1>7 DEF Press, Confirmed, LogEvent, TradeFails, outside
<1>8. ASSUME NEW e \in Trades, Send(e) PROVE AnswersInv'
  <2>1. /\ chain' = [chain EXCEPT ![e].sender = trade[e].signer]
        /\ trade[e].signer # None /\ ~chain[e].confirmed
        /\ UNCHANGED <<stored, asked, shown>>
    BY <1>8 DEF Send, SenderInv
  <2>2. \A f \in Trades : /\ chain'[f].confirmed = chain[f].confirmed
                          /\ f # e => chain'[f] = chain[f]
    BY <2>1 DEF TypeInv
  <2>3. ChainGoesOn
    BY <2>1, <2>2 DEF ChainGoesOn
  <2>. QED
    BY <2>1, <2>2, <2>3, AnswersStep
<1>9. ASSUME NEW e \in Trades, Confirm(e) PROVE AnswersInv'
  <2>1. /\ chain' = [chain EXCEPT ![e].confirmed = TRUE]
        /\ chain[e].sender # None /\ ~chain[e].confirmed
        /\ UNCHANGED <<stored, asked, shown>>
    BY <1>9 DEF Confirm, tab
  <2>2. \A f \in Trades : /\ chain'[f].sender = chain[f].sender
                          /\ f # e => chain'[f] = chain[f]
    BY <2>1 DEF TypeInv
  <2>3. ChainGoesOn
    BY <2>1, <2>2 DEF ChainGoesOn
  <2>. QED
    BY <2>1, <2>2, <2>3, AnswersStep
<1>10. ASSUME NEW e \in Trades, Store(e) PROVE AnswersInv'
  <2>1. stored' = stored \cup {e} /\ chain[e].confirmed /\ UNCHANGED <<chain, asked, shown>>
    BY <1>10 DEF Store, tab
  <2>. QED
    BY <2>1, AnswersStep DEF ChainGoesOn
<1>. QED
  BY <1>1, <1>2, <1>3, <1>4, <1>5, <1>6, <1>7, <1>8, <1>9, <1>10 DEF PortalNext

\* A history is of the account whose name it bears, in whatever order requests
\* are answered, accounts are changed and trades are sent, confirmed and stored.
THEOREM HistoriesAreTheAccounts == PortalSpec => []HistoriesOnlyLack
<1>1. PortalInit => AnswersInv
  BY DEF PortalInit, AnswersInv, HistoriesOnlyLack, NoHistory
<1>2. AnswersInv => HistoriesOnlyLack
  BY DEF AnswersInv
<1>. QED
  BY <1>1, <1>2, AnswersNext, PortalInitInv, PortalNextInv, PTL DEF PortalSpec
=============================================================================
