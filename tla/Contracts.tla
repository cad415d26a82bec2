------------------------------ MODULE Contracts ------------------------------
(***************************************************************************)
(* The platform's contracts on one chain: transactions of the token shop,  *)
(* the marketplace with its fee distributor and vault, the players' wallet *)
(* contract, and mints of TRI and items come in any order and share the    *)
(* balances of TRI.                                                        *)
(***************************************************************************)
EXTENDS TokenShopContract, MarketplaceContract, GenesisWallets

CONSTANTS
    MaxTransactions,
    Funds           \* ETH and coins a player starts with

ASSUME ContractsAssumption == Funds \in Nat

VARIABLE height     \* transactions so far, which MaxTransactions bounds

chainVars == <<token, shopVars, marketVars, walletVars, height>>

\* The contracts are deployed, and every player holds TRI and items.
ChainInit ==
    /\ \E pair \in Rates, added \in {{"eth"}, Asset} : InitShop(pair, added, Funds)
    /\ InitMarket
    /\ InitWallet
    /\ InitToken
    /\ height = 0

Minting ==
    \/ \E to \in Player \union {"wallet"} :
          MintTri(to, MaxMint) /\ UNCHANGED <<shopVars, marketVars, walletVars>>
    \/ MintingItems /\ UNCHANGED <<shopVars, walletVars>>

TokenTransfer ==
    \E from \in Player, to \in Player \union {"wallet"} :
        /\ from # to
        /\ Covers(tri, from, 1)
        /\ tri' = Moved(tri, from, to, 1)
        /\ UNCHANGED <<supply, shopVars, marketVars, walletVars>>

Governance == \E split \in Shares : UpdateShares(split) /\ UNCHANGED <<shopVars, walletVars>>

Transaction ==
    \/ Minting
    \/ TokenTransfer
    \/ Governance
    \/ ShopTransaction /\ UNCHANGED <<marketVars, walletVars>>
    \/ MarketTransaction /\ UNCHANGED <<shopVars, walletVars>>
    \/ WalletTransaction /\ UNCHANGED <<shopVars, marketVars>>

ChainNext ==
    \/ height < MaxTransactions /\ height' = height + 1 /\ Transaction
    \/ Tick /\ UNCHANGED <<shopVars, marketVars, height>>

ChainSpec == ChainInit /\ [][ChainNext]_chainVars

ChainTypeOK ==
    /\ tri \in [Holder -> Nat]
    /\ \A a \in Asset : money[a] \in [Player \union {"shop"} -> Nat]
    /\ \A i \in Item : items[i] \in [Owner -> Nat]
    /\ DOMAIN listings \subseteq 0..(nextListingId - 1)
    /\ genesis.owner \in Player \union {Address0}
=============================================================================
