----------------------------- MODULE NftMarket -----------------------------
(***************************************************************************)
(* NFTs that change hands inside a game: marketplace listings are created, *)
(* cancelled and bought, and owners give their NFTs away and update them,  *)
(* as concurrent HTTP requests over the rows of GameWalletRows.  A player  *)
(* is named by the wallet every player of a game has exactly one of.       *)
(*                                                                         *)
(* A purchase locks the listing, the buyer's wallet, the seller's wallet   *)
(* and the NFT, in this order, and commits.  Everything else reads a row,  *)
(* checks it and saves it without a lock; save() writes every loaded       *)
(* column, the owner and the status included, that differs from the row it *)
(* finds.                                                                  *)
(***************************************************************************)
EXTENDS GameWalletRows

CONSTANTS
    Asset,          \* ids of nft_instances rows
    Listing,        \* ids of marketplace_listings rows, those to come included
    Price,          \* askPrice values
    FirstOwner,     \* [Asset -> Wallet]
    FirstListing,   \* [Listing -> ListingRow \cup {NotListed}]
    NotListed,      \* the id has not been given to a row yet
    NoBuyer,        \* the null buyer
    Operation,      \* what requests may ask for
    NoOp

ListingRow ==
    [seller : Wallet, asset : Asset, askPrice : Price,
     status : {"active", "sold", "cancelled"}, buyer : Wallet \cup {NoBuyer}]

Ask ==
    [kind : {"list"}, player : Wallet, asset : Asset, askPrice : Price]
    \cup [kind : {"cancel", "buy"}, player : Wallet, listing : Listing]
    \cup [kind : {"give"}, player : Wallet, asset : Asset, to : Wallet]
    \cup [kind : {"update"}, player : Wallet, asset : Asset]

ASSUME NftMarketAssumption ==
    /\ \A p \in Price : p \in Nat \ {0}
    /\ NotListed \notin ListingRow
    /\ NoBuyer \notin Wallet
    /\ NoOp \notin Ask
    /\ FirstOwner \in [Asset -> Wallet]
    /\ FirstListing \in [Listing -> ListingRow \cup {NotListed}]
    /\ \A l \in Listing :
        FirstListing[l] # NotListed =>
            FirstListing[l].status = "active" /\ FirstListing[l].buyer = NoBuyer
    /\ Operation \subseteq Ask

VARIABLES
    owner,      \* [Asset -> Wallet]
    listing,    \* [Listing -> ListingRow \cup {NotListed}]
    listingLock,\* [Listing -> Request \cup {Free}], FOR UPDATE locks on listings
    op, pc, snap, reply     \* per request; snap is the locked copy of the buyer's wallet

vars == <<wallet, ledger, lock, owner, listing, listingLock, op, pc, snap, reply>>
marketVars == <<owner, listing>>

Step == {"idle", "sent", "found", "unlisted", "lockBuyer", "lockSeller", "done"}
Reply ==
    {"none", "ok", "replayed", "notFound", "forbidden", "conflict", "notActive",
     "ownListing", "selfTransfer", "insufficient", "failed"}

Init ==
    /\ RowsInit
    /\ owner = FirstOwner
    /\ listing = FirstListing
    /\ listingLock = [l \in Listing |-> Free]
    /\ op = [r \in Request |-> NoOp]
    /\ pc = [r \in Request |-> "idle"]
    /\ snap = [r \in Request |-> EmptyRow]
    /\ reply = [r \in Request |-> "none"]

Goto(r, step) == pc' = [pc EXCEPT ![r] = step]

\* Mutant of Answer: the handler returns with its transaction open.
AnswerMutant(r, answer) ==
    /\ Goto(r, "done")
    /\ reply' = [reply EXCEPT ![r] = answer]
    /\ UNCHANGED <<lock, listingLock, op, snap>>

\* The handler returns or throws, and its transaction, if it has one, ends.
Answer(r, answer) ==
    /\ Goto(r, "done")
    /\ reply' = [reply EXCEPT ![r] = answer]
    /\ lock' = Unlocked(r)
    /\ listingLock' = [l \in Listing |-> IF listingLock[l] = r THEN Free ELSE listingLock[l]]
    /\ UNCHANGED <<op, snap>>

\* The answer of a handler that has written nothing.
Refuse(r, answer) ==
    /\ Answer(r, answer)
    /\ UNCHANGED <<wallet, ledger, marketVars>>

Send(r, o) ==
    /\ pc[r] = "idle"
    /\ op' = [op EXCEPT ![r] = o]
    /\ Goto(r, "sent")
    /\ UNCHANGED <<rowVars, marketVars, listingLock, snap, reply>>

At(r, step, kind) == pc[r] = step /\ op[r].kind = kind
Offered(r) == listing[op[r].listing]
-----------------------------------------------------------------------------
(***************************************************************************)
(* createNFTListing, playerTransferNFT and updateNFTInstance begin by      *)
(* looking the NFT up among those of the player.                           *)
(***************************************************************************)
FindAsset(r) ==
    /\ pc[r] = "sent"
    /\ op[r].kind \in {"list", "give", "update"}
    /\ op[r].kind = "give" => op[r].to # op[r].player
    /\ owner[op[r].asset] = op[r].player
    /\ Goto(r, "found")
    /\ UNCHANGED <<rowVars, marketVars, listingLock, op, snap, reply>>

AssetNotFound(r) ==
    /\ pc[r] = "sent"
    /\ op[r].kind \in {"list", "give", "update"}
    /\ op[r].kind = "give" => op[r].to # op[r].player
    /\ owner[op[r].asset] # op[r].player
    /\ Refuse(r, "notFound")

GiveToSelf(r) ==
    /\ At(r, "sent", "give")
    /\ op[r].to = op[r].player
    /\ Refuse(r, "selfTransfer")

\* Active listings of an NFT.
ActiveListings(a) ==
    {l \in Listing : listing[l] # NotListed /\ listing[l].asset = a
                        /\ listing[l].status = "active"}

\* createNFTListing finds one of the active listings of the NFT.
AlreadyListed(r) ==
    /\ At(r, "found", "list")
    /\ \E l \in ActiveListings(op[r].asset) :
        Refuse(r, IF listing[l].seller = op[r].player THEN "ok" ELSE "conflict")

FindNoListing(r) ==
    /\ At(r, "found", "list")
    /\ ActiveListings(op[r].asset) = {}
    /\ Goto(r, "unlisted")
    /\ UNCHANGED <<rowVars, marketVars, listingLock, op, snap, reply>>

InsertListing(r) ==
    /\ At(r, "unlisted", "list")
    /\ \E l \in Listing :
        /\ listing[l] = NotListed
        /\ listing' = [listing EXCEPT ![l] =
                [seller |-> op[r].player, asset |-> op[r].asset,
                 askPrice |-> op[r].askPrice, status |-> "active", buyer |-> NoBuyer]]
    /\ Answer(r, "ok")
    /\ UNCHANGED <<wallet, ledger, owner>>

\* The INSERT or UPDATE of a save that takes no part in a transaction.
SaveGift(r) ==
    /\ At(r, "found", "give")
    /\ owner' = [owner EXCEPT ![op[r].asset] = op[r].to]
    /\ Answer(r, "ok")
    /\ UNCHANGED <<wallet, ledger, listing>>

(***************************************************************************)
(* updateNFTInstance loads the owner with the NFT and saves the entity: if *)
(* the NFT has changed hands since, the row gets its old owner back.       *)
(***************************************************************************)
SaveUpdate(r) ==
    /\ At(r, "found", "update")
    /\ owner' = [owner EXCEPT ![op[r].asset] = op[r].player]
    /\ Answer(r, "ok")
    /\ UNCHANGED <<wallet, ledger, listing>>
-----------------------------------------------------------------------------
\* cancelNFTListing reads the listing without a lock.
FindListing(r) ==
    /\ At(r, "sent", "cancel")
    /\ Offered(r) # NotListed
    /\ Offered(r).seller = op[r].player
    /\ Offered(r).status = "active"
    /\ Goto(r, "found")
    /\ UNCHANGED <<rowVars, marketVars, listingLock, op, snap, reply>>

CancelRefused(r) ==
    /\ At(r, "sent", "cancel")
    /\ \/ Offered(r) = NotListed /\ Refuse(r, "notFound")
       \/ /\ Offered(r) # NotListed
          /\ \/ Offered(r).seller # op[r].player /\ Refuse(r, "forbidden")
             \/ /\ Offered(r).seller = op[r].player
                /\ \/ Offered(r).status = "cancelled" /\ Refuse(r, "ok")
                   \/ Offered(r).status = "sold" /\ Refuse(r, "notActive")

\* The UPDATE waits for a purchase that has the row locked.
SaveCancelled(r) ==
    /\ At(r, "found", "cancel")
    /\ listingLock[op[r].listing] = Free
    /\ listing' = [listing EXCEPT ![op[r].listing].status = "cancelled"]
    /\ Answer(r, "ok")
    /\ UNCHANGED <<wallet, ledger, owner>>
-----------------------------------------------------------------------------
\* purchaseNFTListing reads the listing FOR UPDATE, once nobody else holds it.
AtListing(r) ==
    /\ At(r, "sent", "buy")
    /\ listingLock[op[r].listing] = Free

Buyable(r) ==
    /\ Offered(r) # NotListed
    /\ Offered(r).status = "active"
    /\ Offered(r).seller # op[r].player

LockListing(r) ==
    /\ AtListing(r)
    /\ Buyable(r)
    /\ listingLock' = [listingLock EXCEPT ![op[r].listing] = r]
    /\ Goto(r, "lockBuyer")
    /\ UNCHANGED <<rowVars, marketVars, op, snap, reply>>

\* Mutant of BoughtBefore: any player may be told that the purchase is done.
BoughtBeforeMutant(r) == Offered(r).status = "sold"

BoughtBefore(r) == Offered(r).status = "sold" /\ Offered(r).buyer = op[r].player

PurchaseRefused(r) ==
    /\ AtListing(r)
    /\ \/ Offered(r) = NotListed /\ Refuse(r, "notFound")
       \/ /\ Offered(r) # NotListed
          /\ \/ BoughtBefore(r) /\ Refuse(r, "replayed")
             \/ ~BoughtBefore(r) /\ Offered(r).status # "active" /\ Refuse(r, "notFound")
             \/ /\ Offered(r).status = "active"
                /\ Offered(r).seller = op[r].player
                /\ Refuse(r, "ownListing")

LockBuyer(r) ==
    /\ pc[r] = "lockBuyer"
    /\ LockRow(r, op[r].player)
    /\ Covers(wallet[op[r].player], Offered(r).askPrice)
    /\ snap' = [snap EXCEPT ![r] = wallet[op[r].player]]
    /\ Goto(r, "lockSeller")
    /\ UNCHANGED <<wallet, ledger, marketVars, listingLock, op, reply>>

BuyerInsufficient(r) ==
    /\ pc[r] = "lockBuyer"
    /\ lock[op[r].player] = Free
    /\ ~Covers(wallet[op[r].player], Offered(r).askPrice)
    /\ Refuse(r, "insufficient")

\* Mutant of StillOwned: the owner is not compared with the seller.
StillOwnedMutant(r) == TRUE

StillOwned(r) == owner[Offered(r).asset] = Offered(r).seller

Sold(row, player) == [row EXCEPT !.status = "sold", !.buyer = player]

SaleEntries(r) ==
    {Entry(r, op[r].player, "spend", "out", Offered(r).askPrice, NoKey),
     Entry(r, Offered(r).seller, "earn", "in", Offered(r).askPrice, NoKey)}

(***************************************************************************)
(* The seller's wallet and the NFT are locked, both wallets, the ledger    *)
(* rows, the owner and the listing are written, and the COMMIT.  From the  *)
(* last lock on nobody can tell these apart.                               *)
(***************************************************************************)
CommitPurchase(r) ==
    LET buyer == op[r].player
        seller == Offered(r).seller
        ask == Offered(r).askPrice
    IN  /\ pc[r] = "lockSeller"
        /\ lock[seller] = Free
        /\ StillOwned(r)
        /\ wallet' = [wallet EXCEPT ![buyer] = Debited(snap[r], ask),
                                    ![seller] = Credited(wallet[seller], ask)]
        /\ ledger' = ledger \cup SaleEntries(r)
        /\ owner' = [owner EXCEPT ![Offered(r).asset] = buyer]
        /\ listing' = [listing EXCEPT ![op[r].listing] = Sold(@, buyer)]
        /\ Answer(r, "ok")

\* "Listing is no longer valid": the seller has parted with the NFT.
ListingInvalid(r) ==
    /\ pc[r] = "lockSeller"
    /\ lock[Offered(r).seller] = Free
    /\ ~StillOwned(r)
    /\ Refuse(r, "conflict")

(***************************************************************************)
(* PostgreSQL.  Buyers who buy from each other wait for each other's       *)
(* wallet, and the server aborts one.  A lost connection rolls back too.   *)
(***************************************************************************)
WaitsFor(r) == IF pc[r] = "lockBuyer" THEN lock[op[r].player] ELSE lock[Offered(r).seller]

Deadlocked(S) ==
    /\ \A r \in S : pc[r] \in {"lockBuyer", "lockSeller"}
    /\ {WaitsFor(r) : r \in S} = S

DeadlockVictim(r) ==
    /\ \E S \in SUBSET Request : r \in S /\ Deadlocked(S)
    /\ Refuse(r, "failed")

ConnectionLost(r) ==
    /\ pc[r] \in {"found", "unlisted", "lockBuyer", "lockSeller"}
    /\ Refuse(r, "failed")

Handle(r) ==
    \/ FindAsset(r)
    \/ AssetNotFound(r)
    \/ GiveToSelf(r)
    \/ AlreadyListed(r)
    \/ FindNoListing(r)
    \/ InsertListing(r)
    \/ SaveGift(r)
    \/ SaveUpdate(r)
    \/ FindListing(r)
    \/ CancelRefused(r)
    \/ SaveCancelled(r)
    \/ LockListing(r)
    \/ PurchaseRefused(r)
    \/ LockBuyer(r)
    \/ BuyerInsufficient(r)
    \/ CommitPurchase(r)
    \/ ListingInvalid(r)
    \/ DeadlockVictim(r)

AllAnswered ==
    /\ \A r \in Request : pc[r] = "done"
    /\ UNCHANGED vars

Next ==
    \/ \E r \in Request, o \in Operation : Send(r, o)
    \/ \E r \in Request : Handle(r) \/ ConnectionLost(r)
    \/ AllAnswered

Spec == Init /\ [][Next]_vars

\* A handler that can go on does, and the deadlock detector always runs.
FairSpec == Spec /\ \A r \in Request : WF_vars(Handle(r))
-----------------------------------------------------------------------------
TypeOK ==
    /\ wallet \in [Wallet -> Row]
    /\ \A e \in ledger :
        /\ e.by \in Request
        /\ e.wallet \in Wallet
        /\ e.amount \in Price
    /\ lock \in [Wallet -> Request \cup {Free}]
    /\ owner \in [Asset -> Wallet]
    /\ listing \in [Listing -> ListingRow \cup {NotListed}]
    /\ \A l \in Listing :
        listing[l] # NotListed =>
            /\ listing[l].status = "active" => listing[l].buyer = NoBuyer
            /\ listing[l].status = "sold" => listing[l].buyer \in Wallet
    /\ listingLock \in [Listing -> Request \cup {Free}]
    /\ op \in [Request -> Operation \cup {NoOp}]
    /\ pc \in [Request -> Step]
    /\ snap \in [Request -> Row]
    /\ reply \in [Request -> Reply]

(***************************************************************************)
(* Who is told that it bought has paid, once: a purchase answered as a     *)
(* success or as a replay means money left that player's wallet for that   *)
(* listing, at the price asked, the seller was paid by the same request,   *)
(* and no other request, his own retries included, charged anybody for it. *)
(***************************************************************************)
BuyersHavePaid ==
    \A r \in Request :
        reply[r] \in {"ok", "replayed"} /\ op[r].kind = "buy" =>
            \E q \in Request :
                /\ op[q] = op[r]
                /\ Offered(r).buyer = op[r].player
                /\ SaleEntries(q) = {e \in ledger : e.by = q}
                /\ \A e \in ledger : op[e.by].listing = op[r].listing => e.by = q

(***************************************************************************)
(* Nobody is charged for an NFT the seller could not give: a committed     *)
(* sale finds the NFT with the seller and the listing active, moves        *)
(* exactly the price between the two current balances and nothing else,    *)
(* although gifts and updates take no lock and several listings may offer  *)
(* one NFT.                                                                *)
(***************************************************************************)
SalesAreExact ==
    [][\A r \in Request :
        pc[r] = "lockSeller" /\ reply'[r] = "ok" =>
            LET row == Offered(r)
                m == Micro(row.askPrice)
            IN  /\ row.status = "active"
                /\ owner[row.asset] = row.seller
                /\ owner' = [owner EXCEPT ![row.asset] = op[r].player]
                /\ wallet'[op[r].player].balance = wallet[op[r].player].balance - m
                /\ wallet'[row.seller].balance = wallet[row.seller].balance + m
                /\ \A w \in Wallet \ {op[r].player, row.seller} : wallet'[w] = wallet[w]]_vars

(***************************************************************************)
(* A handler waits for nobody but the holder of a listing or a wallet, and *)
(* a deadlock that it is part of ends it: the guards of Handle, put        *)
(* together (a new listing always finds an id, see "unlisted").            *)
(***************************************************************************)
CanGoOn(r) ==
    \/ pc[r] = "unlisted"
    \/ pc[r] = "sent" /\ (op[r].kind = "buy" => listingLock[op[r].listing] = Free)
    \/ pc[r] = "found" /\ (op[r].kind = "cancel" => listingLock[op[r].listing] = Free)
    \/ pc[r] \in {"lockBuyer", "lockSeller"} /\ WaitsFor(r) = Free
    \/ \E S \in SUBSET Request : r \in S /\ Deadlocked(S)

UnderWay(r) == pc[r] \notin {"idle", "done"}

(***************************************************************************)
(* Purchases, which hold a listing and a wallet while they wait for one    *)
(* more, and cancellations, which wait for purchases, never bring each     *)
(* other to a halt: while requests are under way, one of them can go on.   *)
(***************************************************************************)
SomebodyCanGoOn == (\E r \in Request : UnderWay(r)) => \E r \in Request : CanGoOn(r)

(***************************************************************************)
(* Every request is answered, also when two players buy from each other.   *)
(***************************************************************************)
EveryRequestAnswered == \A r \in Request : pc[r] = "sent" ~> pc[r] = "done"
=============================================================================
