---------------------------- MODULE MCNftMarket ----------------------------
(***************************************************************************)
(* Small instances of NftMarket for TLC: player p owns NFT a and player q  *)
(* NFT b; p already offers a as listing l1.                                *)
(***************************************************************************)
EXTENDS NftMarket, TLC

CONSTANTS p, q, s, r1, r2, r3, a, b, l1, l2, l3, l4

MCOpening == [w \in Wallet |-> 200]
MCOwner == [x \in Asset |-> IF x = a THEN p ELSE q]

Offer(w, x, price) ==
    [seller |-> w, asset |-> x, askPrice |-> price, status |-> "active", buyer |-> NoBuyer]

MCTwoOffers ==
    [l \in Listing |->
        CASE l = l1 -> Offer(p, a, 150)
          [] l = l2 -> Offer(q, b, 200)
          [] OTHER -> NotListed]

Buys(players, listings) == [kind : {"buy"}, player : players, listing : listings]
Cancels(players, listings) == [kind : {"cancel"}, player : players, listing : listings]
Lists(players, assets, prices) ==
    [kind : {"list"}, player : players, asset : assets, askPrice : prices]
Gives(players, assets, tos) ==
    [kind : {"give"}, player : players, asset : assets, to : tos]
Updates(players, assets) == [kind : {"update"}, player : players, asset : assets]

\* Every handler: buyers of one listing, players who buy from each other, and
\* a seller who cancels, relists, updates and gives away what is being sold.
MCMixed ==
    Buys({p, q, s}, {l1}) \cup Buys({p, s}, {l2}) \cup Buys({s}, {l3})
    \cup Cancels({p, q}, {l1})
    \cup Lists({p, q}, {a}, {200})
    \cup Gives({p}, {a}, {p, q})
    \cup Updates({p, q}, {a})

RequestSymmetry == Permutations(Request)
=============================================================================
