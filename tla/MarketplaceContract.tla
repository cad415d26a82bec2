------------------------- MODULE MarketplaceContract -------------------------
(***************************************************************************)
(* Marketplace.sol sells Collectibles (ERC-1155) it holds in escrow for    *)
(* TRI.  The fee of a sale goes through FeeDistributor.sol, which splits   *)
(* it at once, to its three receivers and the SAFU.sol vault.              *)
(***************************************************************************)
EXTENDS TriToken

CONSTANTS
    Item,           \* token ids
    Price,          \* prices per unit a seller may ask
    Shares,         \* <<devBps, triolithBps, stakingBps>> an admin may set
    MaxListings     \* bounds nextListingId

Split == 10000      \* BPS_DENOMINATOR
FeeBps == 500
FeeCap == 100
SafuBps == 500

ASSUME MarketplaceContractAssumption ==
    /\ Price \subseteq Nat \ {0}
    /\ \A s \in Shares :
          /\ s[1] \in Nat /\ s[2] \in Nat /\ s[3] \in Nat
          /\ s[1] + s[2] + s[3] = Split
    /\ MaxListings \in Nat

Owner == Player \union {"market", "wallet"}

VARIABLES
    items,          \* [Item -> [Owner -> Nat]], Collectibles.balanceOf
    itemSupply,     \* [Item -> Nat], Collectibles.totalSupply
    listings,       \* [listing id -> listing]; what is deleted is not in it
    nextListingId,
    shares          \* FeeDistributor's split

marketVars == <<items, itemSupply, listings, nextListingId, shares>>

\* After the deployment and a first mint to every player.
InitMarket ==
    /\ items = [i \in Item |-> [o \in Owner |-> IF o \in Player THEN 2 ELSE 0]]
    /\ itemSupply = [i \in Item |-> 2 * Cardinality(Player)]
    /\ listings = << >>
    /\ nextListingId = 0
    /\ shares = <<6000, 3000, 1000>>
-----------------------------------------------------------------------------
(***************************************************************************)
(* Collectibles.sol                                                        *)
(***************************************************************************)
Contents == [Item -> Nat]       \* the ids and amounts of a batch

MintBatch(to, amounts) ==
    /\ items' = [i \in Item |-> Plus(items[i], to, amounts[i])]
    /\ itemSupply' = [i \in Item |-> itemSupply[i] + amounts[i]]
    /\ UNCHANGED <<token, listings, nextListingId, shares>>

\* By the holder, or one the holder has approved.
BurnBatch(from, amounts) ==
    /\ \A i \in Item : Covers(items[i], from, amounts[i])
    /\ items' = [i \in Item |-> Plus(items[i], from, -amounts[i])]
    /\ itemSupply' = [i \in Item |-> itemSupply[i] - amounts[i]]
    /\ UNCHANGED <<token, listings, nextListingId, shares>>

\* safeTransferFrom by the holder; the marketplace accepts tokens from anyone.
SendItem(from, to, item, amount) ==
    /\ Covers(items[item], from, amount)
    /\ items' = [items EXCEPT ![item] = Moved(@, from, to, amount)]
    /\ UNCHANGED <<token, itemSupply, listings, nextListingId, shares>>
-----------------------------------------------------------------------------
(***************************************************************************)
(* Marketplace.sol                                                         *)
(***************************************************************************)
List(u, item, amount, price) ==
    /\ nextListingId < MaxListings
    /\ amount > 0
    /\ Covers(items[item], u, amount)
    /\ items' = [items EXCEPT ![item] = Moved(@, u, "market", amount)]
    /\ listings' = [l \in DOMAIN listings \union {nextListingId} |->
          IF l = nextListingId
          THEN [seller |-> u, item |-> item, amount |-> amount, pricePerUnit |-> price]
          ELSE listings[l]]
    /\ nextListingId' = nextListingId + 1
    /\ UNCHANGED <<token, itemSupply, shares>>

Without(id) == [l \in DOMAIN listings \ {id} |-> listings[l]]

Cancel(u, id) ==
    LET l == listings[id]
    IN /\ u = l.seller
       /\ listings' = Without(id)
       /\ items' = [items EXCEPT ![l.item] = Moved(@, "market", u, l.amount)]
       /\ UNCHANGED <<token, itemSupply, nextListingId, shares>>

FeeOf(total) ==
    LET fee == (total * FeeBps) \div Split
    IN IF fee > FeeCap THEN FeeCap ELSE fee

\* FeeDistributor.distribute: what rounding leaves goes to the stakers.
ToDev(amount) == (amount * shares[1]) \div Split
TriolithFull(amount) == (amount * shares[2]) \div Split
ToSafu(amount) == (TriolithFull(amount) * SafuBps) \div Split
ToTriolith(amount) == TriolithFull(amount) - ToSafu(amount)
ToStakers(amount) == amount - ToDev(amount) - ToTriolith(amount) - ToSafu(amount)

Distributed(balance, amount) ==
    LET dev == Moved(balance, "distributor", "dev", ToDev(amount))
        triolith == Moved(dev, "distributor", "triolith", ToTriolith(amount))
        safu == Moved(triolith, "distributor", "safu", ToSafu(amount))
    IN Moved(safu, "distributor", "staking", ToStakers(amount))

\* The buyer pays the fee first, which is distributed, and then the seller.
Paid(u, seller, total) ==
    LET fee == FeeOf(total)
    IN Moved(Distributed(Moved(tri, u, "distributor", fee), fee), u, seller, total - fee)

\* Mutant: a partial purchase leaves the listing's amount alone.
BuyMutant(u, id, purchaseAmount) ==
    LET l == listings[id]
        total == l.pricePerUnit * purchaseAmount
    IN /\ purchaseAmount > 0
       /\ purchaseAmount <= l.amount
       /\ Covers(tri, u, total)
       /\ tri' = Paid(u, l.seller, total)
       /\ items' = [items EXCEPT ![l.item] = Moved(@, "market", u, purchaseAmount)]
       /\ listings' = IF purchaseAmount = l.amount THEN Without(id) ELSE listings
       /\ UNCHANGED <<supply, itemSupply, nextListingId, shares>>

Buy(u, id, purchaseAmount) ==
    LET l == listings[id]
        total == l.pricePerUnit * purchaseAmount
    IN /\ purchaseAmount > 0
       /\ purchaseAmount <= l.amount
       /\ Covers(tri, u, total)
       /\ tri' = Paid(u, l.seller, total)
       /\ items' = [items EXCEPT ![l.item] = Moved(@, "market", u, purchaseAmount)]
       /\ listings' = IF purchaseAmount = l.amount THEN Without(id)
                      ELSE [listings EXCEPT ![id].amount = @ - purchaseAmount]
       /\ UNCHANGED <<supply, itemSupply, nextListingId, shares>>

UpdateShares(split) ==
    /\ shares' = split
    /\ UNCHANGED <<token, items, itemSupply, listings, nextListingId>>

\* SAFU.compensate by its admin.
Compensate(to, amount) ==
    /\ Covers(tri, "safu", amount)
    /\ tri' = Moved(tri, "safu", to, amount)
    /\ UNCHANGED <<supply, marketVars>>
-----------------------------------------------------------------------------
MintingItems ==
    \E u \in Player, item \in Item :
        MintBatch(u, [i \in Item |-> IF i = item THEN 2 ELSE 0])

MarketTransaction ==
    \E u \in Player :
        \/ \E item \in Item, amount \in 1..2, price \in Price : List(u, item, amount, price)
        \/ \E id \in DOMAIN listings :
              Cancel(u, id) \/ \E n \in 1..2 : Buy(u, id, n)
        \/ \E item \in Item :
              \/ SendItem(u, "market", item, 1)
              \/ BurnBatch(u, [i \in Item |-> IF i = item THEN 1 ELSE 0])
        \/ Compensate(u, 1)
-----------------------------------------------------------------------------
\* What each listing of an item still offers.
Offered(item) ==
    [l \in {l \in DOMAIN listings : listings[l].item = item} |-> listings[l].amount]

(***************************************************************************)
(* The escrow always covers what is listed: after any sequence of listing, *)
(* partial and complete purchases and cancellations, several of them for   *)
(* one item, the marketplace holds the units every listing still offers,   *)
(* and Collectibles' own totalSupply counts the units all holders have.    *)
(***************************************************************************)
EscrowCoversListings ==
    \A i \in Item :
        /\ items[i]["market"] >= SumOf(Offered(i))
        /\ itemSupply[i] = SumOf(items[i])
=============================================================================
