-------------------------- MODULE NftMarketProofs --------------------------
(***************************************************************************)
(* Proofs about NftMarket for every set of wallets, NFTs, listings and     *)
(* requests.                                                               *)
(***************************************************************************)
EXTENDS NftMarket, GameWalletRowsProofs

(***************************************************************************)
(* The inductive invariant.  A purchase past its first FOR UPDATE holds    *)
(* the lock of a listing that is active and somebody else's; past the      *)
(* second it holds the buyer's wallet too, and its copy of that row is     *)
(* fresh and covers the price.                                             *)
(***************************************************************************)
Buying == {"lockBuyer", "lockSeller"}

Asked ==
    \A r \in Request :
        /\ pc[r] # "idle" => op[r] \in Operation
        /\ pc[r] \in Buying => op[r].kind = "buy"
        /\ pc[r] # "done" => reply[r] = "none"

ListingHeld ==
    \A r \in Request :
        pc[r] \in Buying => listingLock[op[r].listing] = r /\ Buyable(r)

BuyerHeld ==
    \A r \in Request :
        pc[r] = "lockSeller" =>
            /\ lock[op[r].player] = r
            /\ snap[r] = wallet[op[r].player]
            /\ Covers(snap[r], Offered(r).askPrice)

\* A cancellation decided on a row that is still there, whatever it says now.
CancelFound ==
    \A r \in Request : At(r, "found", "cancel") => Offered(r) # NotListed

PosInv == TypeOK /\ RowsSound /\ Asked /\ CancelFound /\ ListingHeld /\ BuyerHeld

\* A request writes its ledger rows with its answer.
Unposted == \A e \in ledger : pc[e.by] = "done"

\* Whose name a listing bears as the buyer's has paid for it.
PaidBy(l, q) ==
    /\ op[q] \in Operation /\ op[q].kind = "buy" /\ op[q].listing = l
    /\ op[q].player = listing[l].buyer
    /\ SaleEntries(q) = {e \in ledger : e.by = q}
    /\ \A e \in ledger : op[e.by].listing = l => e.by = q

SoldWasPaid ==
    \A l \in Listing :
        listing[l] # NotListed /\ listing[l].buyer # NoBuyer =>
            \E q \in Request : PaidBy(l, q)

\* Nobody was charged for a listing without a buyer.
Uncharged ==
    \A e \in ledger, l \in Listing :
        op[e.by].listing = l => listing[l] # NotListed /\ listing[l].buyer # NoBuyer

\* Who was told so is the buyer in the row.
ToldIsBuyer ==
    \A r \in Request :
        reply[r] \in {"ok", "replayed"} /\ op[r].kind = "buy" =>
            /\ pc[r] = "done"
            /\ Offered(r) # NotListed
            /\ Offered(r).buyer = op[r].player

PayInv == PosInv /\ Unposted /\ SoldWasPaid /\ Uncharged /\ ToldIsBuyer

-----------------------------------------------------------------------------
\* What a purchase names.
LEMMA BuyFields ==
    ASSUME NEW o \in Operation, o.kind = "buy"
    PROVE  /\ o.listing \in Listing /\ o.player \in Wallet
           /\ o = [kind |-> "buy", player |-> o.player, listing |-> o.listing]
  BY NftMarketAssumption DEF Ask

LEMMA AskFields ==
    ASSUME NEW o \in Operation
    PROVE  /\ o.player \in Wallet
           /\ o.kind \in {"list", "give", "update"} => o.asset \in Asset
           /\ o.kind = "list" => o.askPrice \in Price
           /\ o.kind = "give" => o.to \in Wallet
           /\ o.kind \in {"cancel", "buy"} => o.listing \in Listing
  BY NftMarketAssumption DEF Ask

\* What a purchase that holds its listing has found there.
LEMMA BuyingFields ==
    ASSUME PosInv, NEW r \in Request, pc[r] \in Buying
    PROVE  /\ op[r] \in Operation /\ op[r].kind = "buy"
           /\ op[r].listing \in Listing /\ op[r].player \in Wallet
           /\ Offered(r) \in ListingRow
           /\ Offered(r).seller \in Wallet \ {op[r].player}
           /\ Offered(r).asset \in Asset
           /\ Offered(r).askPrice \in Nat
           /\ Offered(r).status = "active" /\ Offered(r).buyer = NoBuyer
           /\ listingLock[op[r].listing] = r
           /\ reply[r] = "none"
  <1>1. op[r] \in Operation /\ op[r].kind = "buy" /\ reply[r] = "none"
    BY DEF PosInv, Asked, Buying
  <1>2. op[r].listing \in Listing /\ op[r].player \in Wallet
    BY <1>1, BuyFields
  <1>3. Buyable(r) /\ listingLock[op[r].listing] = r
    BY DEF PosInv, ListingHeld
  <1>4. Offered(r) \in ListingRow /\ Offered(r).buyer = NoBuyer
    BY <1>2, <1>3 DEF Buyable, Offered, PosInv, TypeOK
  <1>. QED
    BY <1>1, <1>2, <1>3, <1>4, NftMarketAssumption DEF Buyable, ListingRow

LEMMA PosInit == Init => PosInv
  <1> SUFFICES ASSUME Init PROVE PosInv
    OBVIOUS
  <1>1. wallet \in [Wallet -> Row] /\ RowsSound
    BY OpeningSound DEF Init, RowsInit, RowsSound
  <1>2. snap \in [Request -> Row]
    BY EmptySound DEF Init
  <1>3. TypeOK
    BY <1>1, <1>2, NftMarketAssumption DEF Init, RowsInit, TypeOK, Step, Reply
  <1>. QED
    BY <1>1, <1>3 DEF Init, PosInv, Asked, CancelFound, At, ListingHeld, BuyerHeld, Buying

-----------------------------------------------------------------------------
(***************************************************************************)
(* Steps that end a request.  What others hold is still theirs if the step *)
(* wrote only listings that nobody or the request itself has locked, and   *)
(* wallets likewise.                                                       *)
(***************************************************************************)
LEMMA AnswerPos ==
    ASSUME PosInv, NEW r \in Request, NEW a \in Reply, Answer(r, a), pc[r] # "idle",
           TypeOK', RowsSound',
           \A l \in Listing :
              \/ listing'[l] = listing[l]
              \/ listing'[l] # NotListed
                 /\ (listing[l] = NotListed \/ listingLock[l] \in {Free, r}),
           \A w \in Wallet : wallet'[w] = wallet[w] \/ lock[w] \in {Free, r}
    PROVE  PosInv'
  <1>1. /\ op' = op /\ snap' = snap /\ pc'[r] = "done"
        /\ \A q \in Request \ {r} : pc'[q] = pc[q] /\ reply'[q] = reply[q]
    BY DEF Answer, Goto, PosInv, TypeOK
  <1>2. Asked'
    BY <1>1 DEF PosInv, Asked, Buying
  <1>3. ASSUME NEW q \in Request, pc'[q] \in Buying
        PROVE  /\ q # r /\ pc[q] = pc'[q]
               /\ Offered(q)' = Offered(q)
               /\ listingLock'[op[q].listing] = q
    <2>1. q # r /\ pc[q] = pc'[q]
      BY <1>1, <1>3 DEF Buying
    <2>2. /\ op[q].listing \in Listing /\ listingLock[op[q].listing] = q
          /\ Offered(q) \in ListingRow
      BY <1>3, <2>1, BuyingFields
    <2>3. q # Free /\ NotListed \notin ListingRow
      BY GameWalletAssumption, NftMarketAssumption
    <2>. QED
      BY <1>1, <2>1, <2>2, <2>3 DEF Offered, Answer
  <1>4. ListingHeld'
    BY <1>1, <1>3 DEF PosInv, ListingHeld, Buyable
  <1>5. BuyerHeld'
    <2> SUFFICES ASSUME NEW q \in Request, pc'[q] = "lockSeller"
                 PROVE  /\ lock'[op[q].player] = q
                        /\ snap[q] = wallet'[op[q].player]
                        /\ Covers(snap[q], Offered(q)'.askPrice)
      BY <1>1 DEF BuyerHeld, Covers
    <2>1. q # r /\ pc[q] = "lockSeller" /\ Offered(q)' = Offered(q)
      BY <1>3 DEF Buying
    <2>2. op[q].player \in Wallet
      BY <2>1, BuyingFields DEF Buying
    <2>3. q # Free
      BY GameWalletAssumption
    <2>. QED
      BY <2>1, <2>2, <2>3 DEF PosInv, BuyerHeld, Answer, Unlocked
  <1>6. CancelFound'
    <2> SUFFICES ASSUME NEW q \in Request, pc'[q] = "found", op[q].kind = "cancel"
                 PROVE  Offered(q)' # NotListed
      BY <1>1 DEF CancelFound, At
    <2>1. pc[q] = "found" /\ Offered(q) # NotListed /\ op[q].listing \in Listing
      BY <1>1, AskFields DEF PosInv, CancelFound, At, Asked
    <2>. QED
      BY <1>1, <2>1 DEF Offered
  <1>. QED
    BY <1>2, <1>4, <1>5, <1>6 DEF PosInv

LEMMA AnswerType ==
    ASSUME TypeOK, NEW r \in Request, NEW a \in Reply, Answer(r, a),
           wallet' \in [Wallet -> Row],
           \A e \in ledger' : e.by \in Request /\ e.wallet \in Wallet /\ e.amount \in Price,
           owner' \in [Asset -> Wallet],
           listing' \in [Listing -> ListingRow \cup {NotListed}],
           \A l \in Listing : listing'[l] # NotListed =>
              /\ listing'[l].status = "active" => listing'[l].buyer = NoBuyer
              /\ listing'[l].status = "sold" => listing'[l].buyer \in Wallet
    PROVE  TypeOK'
  BY DEF TypeOK, Answer, Goto, Unlocked, Step

\* A handler that refuses changes nothing but its own answer.
LEMMA RefusePos ==
    ASSUME PosInv, NEW r \in Request, NEW a \in Reply, Refuse(r, a), pc[r] # "idle"
    PROVE  PosInv'
  <1>1. TypeOK'
    BY AnswerType DEF Refuse, marketVars, PosInv, TypeOK
  <1>. QED
    BY <1>1, AnswerPos DEF Refuse, marketVars, PosInv, RowsSound

\* The handlers that refuse.
Refusing(r) ==
    \/ AssetNotFound(r) \/ GiveToSelf(r) \/ AlreadyListed(r) \/ CancelRefused(r)
    \/ PurchaseRefused(r) \/ BuyerInsufficient(r) \/ ListingInvalid(r)
    \/ DeadlockVictim(r) \/ ConnectionLost(r)

LEMMA RefusingRefuses ==
    ASSUME NEW r \in Request, Refusing(r)
    PROVE  \E a \in Reply :
              /\ Refuse(r, a) /\ pc[r] # "idle"
              /\ op[r].kind = "buy" /\ a \in {"ok", "replayed"} =>
                    Offered(r) # NotListed /\ Offered(r).buyer = op[r].player
  <1>1. CASE AssetNotFound(r) \/ GiveToSelf(r)
    BY <1>1 DEF AssetNotFound, GiveToSelf, At, Reply
  <1>2. CASE AlreadyListed(r)
    BY <1>2 DEF AlreadyListed, At, Reply
  <1>3. CASE CancelRefused(r)
    BY <1>3 DEF CancelRefused, At, Reply
  <1>4. CASE PurchaseRefused(r)
    BY <1>4 DEF PurchaseRefused, AtListing, BoughtBefore, At, Reply
  <1>5. CASE BuyerInsufficient(r) \/ ListingInvalid(r) \/ ConnectionLost(r)
    BY <1>5 DEF BuyerInsufficient, ListingInvalid, ConnectionLost, Reply
  <1>6. CASE DeadlockVictim(r)
    BY <1>6 DEF DeadlockVictim, Deadlocked, Reply
  <1>. QED
    BY <1>1, <1>2, <1>3, <1>4, <1>5, <1>6 DEF Refusing

\* The handlers that look something up and go on.
Looking(r) == FindAsset(r) \/ FindNoListing(r) \/ FindListing(r)

LEMMA LookingPos ==
    ASSUME PosInv, NEW r \in Request, Looking(r)
    PROVE  PosInv'
  <1>1. PICK step \in {"found", "unlisted"} : Goto(r, step)
    BY DEF Looking, FindAsset, FindNoListing, FindListing
  <1>2. pc[r] \in {"sent", "found"}
        /\ UNCHANGED <<rowVars, marketVars, listingLock, op, snap, reply>>
    BY DEF Looking, FindAsset, FindNoListing, FindListing, At
  <1>3. /\ pc'[r] \notin Buying /\ pc'[r] # "done" /\ reply[r] = "none"
        /\ op[r] \in Operation
        /\ \A q \in Request \ {r} : pc'[q] = pc[q]
    BY <1>1, <1>2 DEF Goto, Buying, PosInv, TypeOK, Asked
  <1>4. TypeOK' /\ RowsSound'
    BY <1>1, <1>2 DEF Goto, PosInv, TypeOK, RowsSound, Step, rowVars, marketVars
  <1>5. Asked'
    BY <1>2, <1>3 DEF PosInv, Asked
  <1>6. ListingHeld' /\ BuyerHeld'
    BY <1>2, <1>3
       DEF PosInv, ListingHeld, BuyerHeld, Buying, Buyable, Offered, rowVars, marketVars
  <1>7. CancelFound'
    BY <1>2, <1>3
       DEF PosInv, CancelFound, At, Offered, marketVars, Looking, FindAsset, FindNoListing,
           FindListing, Goto
  <1>. QED
    BY <1>4, <1>5, <1>6, <1>7 DEF PosInv

\* Saves without a lock.
LEMMA SavePos ==
    ASSUME PosInv, NEW r \in Request,
           InsertListing(r) \/ SaveGift(r) \/ SaveUpdate(r) \/ SaveCancelled(r)
    PROVE  PosInv'
  <1>1. pc[r] \in {"found", "unlisted"} /\ op[r] \in Operation /\ Answer(r, "ok")
        /\ UNCHANGED <<wallet, ledger>>
    BY DEF InsertListing, SaveGift, SaveUpdate, SaveCancelled, At, PosInv, Asked
  <1>2. CASE InsertListing(r)
    <2>1. op[r].player \in Wallet /\ op[r].asset \in Asset /\ op[r].askPrice \in Price
      BY <1>1, <1>2, AskFields DEF InsertListing, At
    <2>2. PICK l \in Listing :
            /\ listing[l] = NotListed
            /\ listing' = [listing EXCEPT ![l] =
                [seller |-> op[r].player, asset |-> op[r].asset,
                 askPrice |-> op[r].askPrice, status |-> "active", buyer |-> NoBuyer]]
      BY <1>2 DEF InsertListing
    <2>3. TypeOK'
      BY <1>1, <1>2, <2>1, <2>2, AnswerType
         DEF InsertListing, PosInv, TypeOK, ListingRow, Reply
    <2>4. /\ \A k \in Listing \ {l} : listing'[k] = listing[k]
          /\ listing'[l].seller = op[r].player /\ listing'[l] \in ListingRow
      BY <2>1, <2>2 DEF PosInv, TypeOK, ListingRow
    <2>. QED
      BY <1>1, <2>2, <2>3, <2>4, NftMarketAssumption, AnswerPos DEF PosInv, RowsSound, Reply
  <1>3. CASE SaveGift(r) \/ SaveUpdate(r)
    <2>1. op[r].player \in Wallet /\ op[r].asset \in Asset
          /\ (op[r].kind = "give" => op[r].to \in Wallet)
      BY <1>1, <1>3, AskFields DEF SaveGift, SaveUpdate, At
    <2>2. owner' \in [Asset -> Wallet] /\ listing' = listing
      BY <1>3, <2>1 DEF SaveGift, SaveUpdate, At, PosInv, TypeOK
    <2>3. TypeOK'
      BY <1>1, <2>2, AnswerType DEF PosInv, TypeOK, Reply
    <2>. QED
      BY <1>1, <2>2, <2>3, AnswerPos DEF PosInv, RowsSound, Reply
  <1>4. CASE SaveCancelled(r)
    <2>1. op[r].listing \in Listing /\ listingLock[op[r].listing] = Free
          /\ UNCHANGED owner
          /\ listing' = [listing EXCEPT ![op[r].listing].status = "cancelled"]
      BY <1>1, <1>4, AskFields DEF SaveCancelled, At
    <2>2. listing[op[r].listing] # NotListed
      BY <1>4 DEF SaveCancelled, PosInv, CancelFound, Offered
    <2>3. TypeOK'
      BY <1>1, <2>1, <2>2, AnswerType DEF PosInv, TypeOK, ListingRow, Reply
    <2>4. /\ \A k \in Listing \ {op[r].listing} : listing'[k] = listing[k]
          /\ listing'[op[r].listing] \in ListingRow
      BY <2>1, <2>2 DEF PosInv, TypeOK, ListingRow
    <2>. QED
      BY <1>1, <2>1, <2>3, <2>4, NftMarketAssumption, AnswerPos DEF PosInv, RowsSound, Reply
  <1>. QED
    BY <1>2, <1>3, <1>4

\* The three steps of a purchase.
LEMMA LockListingPos ==
    ASSUME PosInv, NEW r \in Request, LockListing(r)
    PROVE  PosInv'
  <1>1. /\ pc[r] = "sent" /\ op[r] \in Operation /\ op[r].kind = "buy"
        /\ op[r].listing \in Listing
        /\ listingLock[op[r].listing] = Free
        /\ reply[r] = "none"
    BY AskFields DEF LockListing, AtListing, At, PosInv, Asked
  <1>2. /\ listingLock' = [listingLock EXCEPT ![op[r].listing] = r]
        /\ Goto(r, "lockBuyer") /\ Buyable(r)
        /\ UNCHANGED <<rowVars, marketVars, op, snap, reply>>
    BY DEF LockListing
  <1>3. TypeOK' /\ RowsSound'
    BY <1>1, <1>2 DEF Goto, PosInv, TypeOK, RowsSound, Step, rowVars, marketVars
  <1>4. pc'[r] = "lockBuyer" /\ \A q \in Request \ {r} : pc'[q] = pc[q]
    BY <1>2 DEF Goto, PosInv, TypeOK
  <1>5. Asked' /\ CancelFound'
    BY <1>1, <1>2, <1>4
       DEF PosInv, Asked, Buying, CancelFound, At, Offered, marketVars
  <1>6. ListingHeld'
    <2> SUFFICES ASSUME NEW q \in Request, pc'[q] \in Buying
                 PROVE  listingLock'[op[q].listing] = q /\ Buyable(q)'
      BY <1>2 DEF ListingHeld
    <2>1. Buyable(q)' = Buyable(q)
      BY <1>2 DEF Buyable, Offered, marketVars
    <2>2. CASE q = r
      BY <1>1, <1>2, <2>1, <2>2 DEF PosInv, TypeOK
    <2>3. CASE q # r
      <3>1. pc[q] \in Buying
        BY <1>4, <2>3
      <3>2. /\ listingLock[op[q].listing] = q /\ Buyable(q)
            /\ op[q].listing \in Listing /\ q # Free
        BY <3>1, BuyingFields, GameWalletAssumption DEF PosInv, ListingHeld
      <3>. QED
        BY <1>1, <1>2, <2>1, <2>3, <3>2 DEF PosInv, TypeOK
    <2>. QED
      BY <2>2, <2>3
  <1>7. BuyerHeld'
    BY <1>2, <1>4 DEF PosInv, BuyerHeld, Covers, Offered, rowVars, marketVars
  <1>. QED
    BY <1>3, <1>5, <1>6, <1>7 DEF PosInv

LEMMA LockBuyerPos ==
    ASSUME PosInv, NEW r \in Request, LockBuyer(r)
    PROVE  PosInv'
  <1>1. /\ pc[r] = "lockBuyer" /\ op[r].player \in Wallet
        /\ op[r] \in Operation /\ op[r].kind = "buy" /\ reply[r] = "none"
    BY BuyingFields DEF LockBuyer, Buying
  <1>2. /\ lock[op[r].player] \in {Free, r}
        /\ lock' = [lock EXCEPT ![op[r].player] = r]
        /\ Covers(wallet[op[r].player], Offered(r).askPrice)
        /\ snap' = [snap EXCEPT ![r] = wallet[op[r].player]]
        /\ Goto(r, "lockSeller")
        /\ UNCHANGED <<wallet, ledger, marketVars, listingLock, op, reply>>
    BY DEF LockBuyer, LockRow
  <1>3. TypeOK' /\ RowsSound'
    BY <1>1, <1>2 DEF Goto, PosInv, TypeOK, RowsSound, Step, marketVars
  <1>4. pc'[r] = "lockSeller" /\ \A q \in Request \ {r} : pc'[q] = pc[q]
    BY <1>2 DEF Goto, PosInv, TypeOK
  <1>5. Asked' /\ CancelFound'
    BY <1>1, <1>2, <1>4
       DEF PosInv, Asked, Buying, CancelFound, At, Offered, marketVars
  <1>6. ListingHeld'
    BY <1>1, <1>2, <1>4 DEF PosInv, ListingHeld, Buying, Buyable, Offered, marketVars
  <1>7. BuyerHeld'
    <2> SUFFICES ASSUME NEW q \in Request, pc'[q] = "lockSeller"
                 PROVE  /\ lock'[op[q].player] = q
                        /\ snap'[q] = wallet[op[q].player]
                        /\ Covers(snap'[q], Offered(q).askPrice)
      BY <1>2 DEF BuyerHeld, Covers, Offered, marketVars
    <2>1. CASE q = r
      BY <1>1, <1>2, <2>1 DEF PosInv, TypeOK
    <2>2. CASE q # r
      <3>1. pc[q] = "lockSeller" /\ op[q].player \in Wallet /\ q # Free
        BY <1>4, <2>2, BuyingFields, GameWalletAssumption DEF Buying
      <3>. QED
        BY <1>1, <1>2, <2>2, <3>1 DEF PosInv, TypeOK, BuyerHeld
    <2>. QED
      BY <2>1, <2>2
  <1>. QED
    BY <1>3, <1>5, <1>6, <1>7 DEF PosInv

\* What a purchase writes: the buyer's copy is the row, so both balances move
\* by the rounded price from what they are now.
LEMMA CommitWrites ==
    ASSUME PosInv, NEW r \in Request, CommitPurchase(r)
    PROVE  LET buyer == op[r].player
               row == Offered(r)
           IN  /\ pc[r] = "lockSeller" /\ Answer(r, "ok")
               /\ lock[buyer] = r /\ lock[row.seller] = Free
               /\ owner[row.asset] = row.seller
               /\ owner' = [owner EXCEPT ![row.asset] = buyer]
               /\ listing' = [listing EXCEPT ![op[r].listing] = Sold(@, buyer)]
               /\ ledger' = ledger \cup SaleEntries(r)
               /\ wallet' \in [Wallet -> Row] /\ RowsSound'
               /\ wallet'[buyer].balance = wallet[buyer].balance - Micro(row.askPrice)
               /\ wallet'[row.seller].balance = wallet[row.seller].balance + Micro(row.askPrice)
               /\ \A w \in Wallet \ {buyer, row.seller} : wallet'[w] = wallet[w]
  <1> DEFINE buyer == op[r].player
             seller == Offered(r).seller
             ask == Offered(r).askPrice
  <1>1. /\ pc[r] = "lockSeller" /\ Answer(r, "ok")
        /\ lock[seller] = Free /\ owner[Offered(r).asset] = seller
        /\ owner' = [owner EXCEPT ![Offered(r).asset] = buyer]
        /\ listing' = [listing EXCEPT ![op[r].listing] = Sold(@, buyer)]
        /\ ledger' = ledger \cup SaleEntries(r)
        /\ wallet' = [wallet EXCEPT ![buyer] = Debited(snap[r], ask),
                                    ![seller] = Credited(wallet[seller], ask)]
    BY DEF CommitPurchase, StillOwned
  <1>2. buyer \in Wallet /\ seller \in Wallet /\ seller # buyer /\ ask \in Nat
    BY <1>1, BuyingFields DEF Buying
  <1>3. lock[buyer] = r /\ snap[r] = wallet[buyer] /\ Covers(snap[r], ask)
    BY <1>1 DEF PosInv, BuyerHeld
  <1>4. /\ wallet[buyer] \in Row /\ Sound(wallet[buyer])
        /\ wallet[seller] \in Row /\ Sound(wallet[seller])
    BY <1>2 DEF PosInv, TypeOK, RowsSound
  <1>5. /\ Debited(snap[r], ask) \in Row /\ Sound(Debited(snap[r], ask))
        /\ Debited(snap[r], ask).balance = wallet[buyer].balance - Micro(ask)
    BY <1>2, <1>3, <1>4, DebitedSound
  <1>6. /\ Credited(wallet[seller], ask) \in Row /\ Sound(Credited(wallet[seller], ask))
        /\ Credited(wallet[seller], ask).balance = wallet[seller].balance + Micro(ask)
    BY <1>2, <1>4, CreditedSound
  <1>7. /\ wallet'[buyer] = Debited(snap[r], ask)
        /\ wallet'[seller] = Credited(wallet[seller], ask)
        /\ \A w \in Wallet \ {buyer, seller} : wallet'[w] = wallet[w]
        /\ wallet' \in [Wallet -> Row]
    BY <1>1, <1>2, <1>5, <1>6 DEF PosInv, TypeOK
  <1>8. RowsSound'
    BY <1>5, <1>6, <1>7 DEF PosInv, RowsSound
  <1>. QED
    BY <1>1, <1>3, <1>5, <1>6, <1>7, <1>8

LEMMA CommitPos ==
    ASSUME PosInv, NEW r \in Request, CommitPurchase(r)
    PROVE  PosInv'
  <1>1. /\ pc[r] = "lockSeller" /\ Answer(r, "ok")
        /\ lock[op[r].player] = r /\ lock[Offered(r).seller] = Free
        /\ owner' = [owner EXCEPT ![Offered(r).asset] = op[r].player]
        /\ listing' = [listing EXCEPT ![op[r].listing] = Sold(@, op[r].player)]
        /\ ledger' = ledger \cup SaleEntries(r)
        /\ wallet' \in [Wallet -> Row] /\ RowsSound'
        /\ \A w \in Wallet \ {op[r].player, Offered(r).seller} : wallet'[w] = wallet[w]
    BY CommitWrites
  <1>2. /\ op[r].listing \in Listing /\ op[r].player \in Wallet
        /\ Offered(r) \in ListingRow /\ Offered(r).seller \in Wallet
        /\ Offered(r).askPrice \in Price
        /\ listingLock[op[r].listing] = r
    BY <1>1, BuyingFields DEF Buying, ListingRow
  <1>3. Sold(Offered(r), op[r].player) \in ListingRow
        /\ Sold(Offered(r), op[r].player).status = "sold"
        /\ Sold(Offered(r), op[r].player).buyer = op[r].player
    BY <1>2 DEF Sold, ListingRow
  <1>4. /\ listing' \in [Listing -> ListingRow \cup {NotListed}]
        /\ listing'[op[r].listing] = Sold(Offered(r), op[r].player)
        /\ \A l \in Listing \ {op[r].listing} : listing'[l] = listing[l]
    BY <1>1, <1>2, <1>3 DEF Offered, PosInv, TypeOK
  <1>5. \A e \in ledger' : e.by \in Request /\ e.wallet \in Wallet /\ e.amount \in Price
    BY <1>1, <1>2 DEF SaleEntries, Entry, PosInv, TypeOK
  <1>6. TypeOK'
    BY <1>1, <1>2, <1>3, <1>4, <1>5, AnswerType DEF PosInv, TypeOK, Reply
  <1>7. listing'[op[r].listing] # NotListed
    BY <1>3, <1>4, NftMarketAssumption
  <1>. QED
    BY <1>1, <1>2, <1>4, <1>6, <1>7, AnswerPos DEF Reply

LEMMA PosStep == PosInv /\ [Next]_vars => PosInv'
  <1> SUFFICES ASSUME PosInv, [Next]_vars
               PROVE  PosInv'
    OBVIOUS
  <1>1. ASSUME NEW r \in Request, NEW o \in Operation, Send(r, o)
        PROVE  PosInv'
    <2>1. pc'[r] = "sent" /\ \A q \in Request \ {r} : pc'[q] = pc[q] /\ op'[q] = op[q]
      BY <1>1 DEF Send, Goto, PosInv, TypeOK
    <2>2. TypeOK' /\ RowsSound'
      BY <1>1 DEF Send, Goto, PosInv, TypeOK, RowsSound, Step, rowVars, marketVars
    <2>3. Asked' /\ CancelFound'
      BY <1>1, <2>1
         DEF Send, PosInv, TypeOK, Asked, Buying, CancelFound, At, Offered, marketVars
    <2>4. ListingHeld' /\ BuyerHeld'
      BY <1>1, <2>1
         DEF Send, PosInv, ListingHeld, BuyerHeld, Buying, Buyable, Covers, Offered,
             rowVars, marketVars
    <2>. QED
      BY <2>2, <2>3, <2>4 DEF PosInv
  <1>2. ASSUME NEW r \in Request, Refusing(r)
        PROVE  PosInv'
    BY <1>2, RefusingRefuses, RefusePos
  <1>3. CASE UNCHANGED vars
    BY <1>3
       DEF vars, PosInv, TypeOK, RowsSound, Asked, CancelFound, At, ListingHeld, BuyerHeld,
           Buyable, Covers, Offered
  <1>. QED
    BY <1>1, <1>2, <1>3, LookingPos, SavePos, LockListingPos, LockBuyerPos, CommitPos
       DEF Next, Handle, AllAnswered, Refusing, Looking

-----------------------------------------------------------------------------
(***************************************************************************)
(* What a sold listing says about the ledger.                              *)
(***************************************************************************)

\* A row that is there keeps its terms, and a buyer once written stays.
KeepsTerms(row, next) ==
    /\ next # NotListed
    /\ next.seller = row.seller
    /\ next.askPrice = row.askPrice

LEMMA PayInit == Init => PayInv
  BY PosInit, NftMarketAssumption
     DEF Init, RowsInit, PayInv, Unposted, SoldWasPaid, Uncharged, ToldIsBuyer

\* Every step but a committed purchase leaves the ledger as it is and writes
\* no buyer.
Unsold ==
    /\ ledger' = ledger
    /\ \A l \in Listing :
        \/ listing'[l] = listing[l]
        \/ listing[l] = NotListed /\ listing'[l].buyer = NoBuyer
        \/ /\ listing[l] # NotListed /\ KeepsTerms(listing[l], listing'[l])
           /\ listing'[l].buyer = listing[l].buyer

LEMMA UnsoldPay ==
    ASSUME PayInv, PosInv', Unsold,
           \A q \in Request : pc[q] = "done" => pc'[q] = "done" /\ op'[q] = op[q],
           \A q \in Request :
              \/ reply'[q] = reply[q] /\ op'[q] = op[q]
              \/ reply'[q] \notin {"ok", "replayed"}
              \/ op'[q].kind # "buy"
              \/ /\ pc'[q] = "done" /\ op'[q] = op[q] /\ listing' = listing
                 /\ Offered(q) # NotListed /\ Offered(q).buyer = op[q].player
    PROVE  PayInv'
  <1>0. \A e \in ledger : op'[e.by] = op[e.by]
    BY DEF PayInv, Unposted, PosInv, TypeOK
  <1>1. Unposted'
    BY DEF PayInv, Unposted, Unsold, PosInv, TypeOK
  <1>2. SoldWasPaid'
    <2> SUFFICES ASSUME NEW l \in Listing, listing'[l] # NotListed, listing'[l].buyer # NoBuyer
                 PROVE  \E q \in Request : PaidBy(l, q)'
      BY DEF SoldWasPaid
    <2>1. /\ listing[l] # NotListed /\ listing'[l].buyer = listing[l].buyer
          /\ listing'[l].seller = listing[l].seller
          /\ listing'[l].askPrice = listing[l].askPrice
      BY DEF Unsold, KeepsTerms
    <2>2. PICK q \in Request : PaidBy(l, q)
      BY <2>1 DEF PayInv, SoldWasPaid
    <2>3. PICK e \in ledger : e.by = q
      BY <2>2 DEF PaidBy, SaleEntries
    <2>4. pc[q] = "done" /\ op'[q] = op[q]
      BY <2>3 DEF PayInv, Unposted
    <2>5. SaleEntries(q)' = SaleEntries(q)
      BY <2>1, <2>2, <2>4 DEF PaidBy, SaleEntries, Entry, Offered
    <2>6. PaidBy(l, q)'
      BY <1>0, <2>1, <2>2, <2>4, <2>5 DEF PaidBy, Unsold
    <2>. QED
      BY <2>6
  <1>3. ToldIsBuyer'
    <2> SUFFICES ASSUME NEW q \in Request, reply'[q] \in {"ok", "replayed"},
                        op'[q].kind = "buy"
                 PROVE  /\ pc'[q] = "done" /\ Offered(q)' # NotListed
                        /\ Offered(q)'.buyer = op'[q].player
      BY DEF ToldIsBuyer
    <2>1. CASE reply'[q] = reply[q] /\ op'[q] = op[q]
      <3>1. /\ pc[q] = "done" /\ Offered(q) # NotListed
            /\ Offered(q).buyer = op[q].player
        BY <2>1 DEF PayInv, ToldIsBuyer
      <3>2. op[q].listing \in Listing
        BY <2>1, <3>1, BuyFields DEF PayInv, PosInv, Asked
      <3>3. /\ Offered(q)' = listing'[op[q].listing]
            /\ Offered(q) = listing[op[q].listing]
        BY <2>1 DEF Offered
      <3>. QED
        BY <2>1, <3>1, <3>2, <3>3 DEF Unsold, KeepsTerms
    <2>2. CASE /\ pc'[q] = "done" /\ op'[q] = op[q] /\ listing' = listing
               /\ Offered(q) # NotListed /\ Offered(q).buyer = op[q].player
      BY <2>2 DEF Offered
    <2>. QED
      BY <2>1, <2>2
  <1>4. Uncharged'
    <2> SUFFICES ASSUME NEW e \in ledger, NEW l \in Listing, op[e.by].listing = l
                 PROVE  listing'[l] # NotListed /\ listing'[l].buyer # NoBuyer
      BY <1>0 DEF Uncharged, Unsold
    <2>1. listing[l] # NotListed /\ listing[l].buyer # NoBuyer
      BY DEF PayInv, Uncharged
    <2>. QED
      BY <2>1 DEF Unsold, KeepsTerms
  <1>. QED
    BY <1>1, <1>2, <1>3, <1>4 DEF PayInv

\* The purchase that commits is the one that paid.
LEMMA CommitPay ==
    ASSUME PayInv, NEW r \in Request, CommitPurchase(r)
    PROVE  PayInv'
  <1> DEFINE k == op[r].listing
  <1>1. /\ pc[r] = "lockSeller" /\ Answer(r, "ok")
        /\ listing' = [listing EXCEPT ![k] = Sold(@, op[r].player)]
        /\ ledger' = ledger \cup SaleEntries(r)
    BY CommitWrites DEF PayInv
  <1>2. /\ k \in Listing /\ op[r].player \in Wallet /\ Offered(r) \in ListingRow
        /\ op[r] \in Operation /\ op[r].kind = "buy" /\ reply[r] = "none"
        /\ Offered(r).buyer = NoBuyer
    BY <1>1, BuyingFields DEF PayInv, Buying
  <1>3. /\ op' = op /\ pc'[r] = "done" /\ reply'[r] = "ok"
        /\ \A q \in Request \ {r} : pc'[q] = pc[q] /\ reply'[q] = reply[q]
    BY <1>1 DEF Answer, Goto, PayInv, PosInv, TypeOK
  <1>4. /\ listing'[k] = Sold(listing[k], op[r].player)
        /\ Offered(r) = listing[k]
        /\ \A l \in Listing \ {k} : listing'[l] = listing[l]
    BY <1>1, <1>2 DEF Offered, PayInv, PosInv, TypeOK
  <1>5. /\ listing'[k].buyer = op[r].player /\ listing'[k].seller = listing[k].seller
        /\ listing'[k].askPrice = listing[k].askPrice
        /\ listing'[k] \in ListingRow
    BY <1>2, <1>4 DEF Sold, ListingRow
  <1>6. listing'[k] # NotListed /\ listing[k] # NotListed
    BY <1>2, <1>4, <1>5, NftMarketAssumption
  <1>7. SaleEntries(r)' = SaleEntries(r) /\ \A e \in SaleEntries(r) : e.by = r
    BY <1>3, <1>4, <1>5 DEF SaleEntries, Entry, Offered
  <1>8. Unposted'
    BY <1>1, <1>3, <1>7 DEF PayInv, Unposted, PosInv, TypeOK
  <1>9. SoldWasPaid'
    <2> SUFFICES ASSUME NEW l \in Listing, listing'[l] # NotListed, listing'[l].buyer # NoBuyer
                 PROVE  \E q \in Request : PaidBy(l, q)'
      BY DEF SoldWasPaid
    <2>1. CASE l = k
      <3>1. {e \in ledger' : e.by = r} = SaleEntries(r)
        BY <1>1, <1>7 DEF PayInv, Unposted
      <3>2. \A e \in ledger : op[e.by].listing # k
        BY <1>2, <1>4 DEF PayInv, Uncharged
      <3>3. \A e \in ledger' : op'[e.by].listing = k => e.by = r
        BY <1>1, <1>3, <1>7, <3>2
      <3>. QED
        BY <1>2, <1>3, <1>5, <1>7, <2>1, <3>1, <3>3 DEF PaidBy
    <2>2. CASE l # k
      <3>1. PICK q \in Request : PaidBy(l, q)
        BY <1>4, <2>2 DEF PayInv, SoldWasPaid
      <3>2. q # r
        BY <2>2, <3>1 DEF PaidBy
      <3>3. SaleEntries(q)' = SaleEntries(q)
        BY <1>3, <1>4, <2>2, <3>1 DEF PaidBy, SaleEntries, Offered
      <3>4. {e \in ledger' : e.by = q} = {e \in ledger : e.by = q}
        BY <1>1, <1>7, <3>2
      <3>5. \A e \in ledger' : op'[e.by].listing = l => e.by = q
        BY <1>1, <1>3, <1>7, <2>2, <3>1 DEF PaidBy
      <3>. QED
        BY <1>3, <1>4, <2>2, <3>1, <3>3, <3>4, <3>5 DEF PaidBy
    <2>. QED
      BY <2>1, <2>2
  <1>10. ToldIsBuyer'
    <2> SUFFICES ASSUME NEW q \in Request, reply'[q] \in {"ok", "replayed"},
                        op[q].kind = "buy"
                 PROVE  /\ pc'[q] = "done" /\ Offered(q)' # NotListed
                        /\ Offered(q)'.buyer = op[q].player
      BY <1>3 DEF ToldIsBuyer
    <2>1. CASE q = r
      BY <1>3, <1>5, <1>6, <2>1 DEF Offered
    <2>2. CASE q # r
      <3>1. /\ pc[q] = "done" /\ Offered(q) # NotListed
            /\ Offered(q).buyer = op[q].player
        BY <1>3, <2>2 DEF PayInv, ToldIsBuyer
      <3>2. op[q].listing \in Listing /\ op[q].player \in Wallet
        BY <3>1, BuyFields DEF PayInv, PosInv, Asked
      <3>3. op[q].listing # k
        BY <1>2, <1>4, <3>1, <3>2, NftMarketAssumption DEF Offered
      <3>. QED
        BY <1>3, <1>4, <2>2, <3>1, <3>2, <3>3 DEF Offered
    <2>. QED
      BY <2>1, <2>2
  <1>11. PosInv'
    BY CommitPos DEF PayInv
  <1>12. Uncharged'
    <2> SUFFICES ASSUME NEW e \in ledger', NEW l \in Listing, op[e.by].listing = l
                 PROVE  listing'[l] # NotListed /\ listing'[l].buyer # NoBuyer
      BY <1>3 DEF Uncharged
    <2>1. CASE l = k
      BY <1>2, <1>5, <1>6, <2>1, NftMarketAssumption
    <2>2. CASE l # k
      <3>1. e \in ledger
        BY <1>1, <1>7, <2>2
      <3>. QED
        BY <1>4, <2>2, <3>1 DEF PayInv, Uncharged
    <2>. QED
      BY <2>1, <2>2
  <1>. QED
    BY <1>8, <1>9, <1>10, <1>11, <1>12 DEF PayInv

LEMMA PayStep == PayInv /\ [Next]_vars => PayInv'
  <1> SUFFICES ASSUME PayInv, [Next]_vars
               PROVE  PayInv'
    OBVIOUS
  <1>1. PosInv'
    BY PosStep DEF PayInv
  <1>2. ASSUME NEW r \in Request, NEW o \in Operation, Send(r, o)
        PROVE  PayInv'
    <2>1. /\ pc[r] = "idle" /\ reply[r] = "none" /\ reply' = reply /\ listing' = listing
          /\ ledger' = ledger
          /\ \A q \in Request \ {r} : pc'[q] = pc[q] /\ op'[q] = op[q]
      BY <1>2 DEF Send, Goto, PayInv, PosInv, TypeOK, Asked, rowVars, marketVars
    <2>. QED
      BY <1>1, <2>1, UnsoldPay DEF Unsold
  <1>3. ASSUME NEW r \in Request, Refusing(r)
        PROVE  PayInv'
    <2>1. PICK a \in Reply :
            /\ Refuse(r, a) /\ pc[r] # "idle"
            /\ op[r].kind = "buy" /\ a \in {"ok", "replayed"} =>
                  Offered(r) # NotListed /\ Offered(r).buyer = op[r].player
      BY <1>3, RefusingRefuses
    <2>2. /\ op' = op /\ listing' = listing /\ ledger' = ledger
          /\ pc'[r] = "done" /\ reply'[r] = a
          /\ \A q \in Request \ {r} : pc'[q] = pc[q] /\ reply'[q] = reply[q]
      BY <2>1 DEF Refuse, Answer, Goto, marketVars, PayInv, PosInv, TypeOK
    <2>. QED
      BY <1>1, <2>1, <2>2, UnsoldPay DEF Unsold
  <1>4. ASSUME NEW r \in Request, Looking(r)
        PROVE  PayInv'
    <2>1. /\ op' = op /\ reply' = reply /\ listing' = listing /\ ledger' = ledger
          /\ pc[r] # "done"
          /\ \A q \in Request \ {r} : pc'[q] = pc[q]
      BY <1>4
         DEF Looking, FindAsset, FindNoListing, FindListing, At, Goto, PayInv, PosInv, TypeOK,
             rowVars, marketVars
    <2>. QED
      BY <1>1, <2>1, UnsoldPay DEF Unsold
  <1>5. ASSUME NEW r \in Request,
               InsertListing(r) \/ SaveGift(r) \/ SaveUpdate(r) \/ SaveCancelled(r)
        PROVE  PayInv'
    <2>1. /\ op' = op /\ ledger' = ledger /\ op[r].kind # "buy" /\ pc'[r] = "done"
          /\ \A q \in Request \ {r} : pc'[q] = pc[q] /\ reply'[q] = reply[q]
      BY <1>5
         DEF InsertListing, SaveGift, SaveUpdate, SaveCancelled, At, Answer, Goto, PayInv,
             PosInv, TypeOK
    <2>2. Unsold
      <3>1. CASE InsertListing(r)
        <4>1. PICK l \in Listing :
                /\ listing[l] = NotListed
                /\ listing' = [listing EXCEPT ![l] =
                    [seller |-> op[r].player, asset |-> op[r].asset,
                     askPrice |-> op[r].askPrice, status |-> "active", buyer |-> NoBuyer]]
          BY <3>1 DEF InsertListing
        <4>2. /\ \A k \in Listing \ {l} : listing'[k] = listing[k]
              /\ listing'[l].buyer = NoBuyer
          BY <4>1 DEF PayInv, PosInv, TypeOK
        <4>. QED
          BY <2>1, <4>1, <4>2 DEF Unsold
      <3>2. CASE SaveGift(r) \/ SaveUpdate(r)
        BY <2>1, <3>2 DEF SaveGift, SaveUpdate, Unsold
      <3>3. CASE SaveCancelled(r)
        <4> DEFINE k == op[r].listing
        <4>1. /\ k \in Listing /\ listing[k] # NotListed
              /\ listing' = [listing EXCEPT ![k].status = "cancelled"]
          BY <3>3, AskFields DEF SaveCancelled, At, PayInv, PosInv, Asked, CancelFound, Offered
        <4>2. listing[k] \in ListingRow
          BY <4>1 DEF PayInv, PosInv, TypeOK
        <4>3. /\ \A l \in Listing \ {k} : listing'[l] = listing[l]
              /\ listing'[k] = [listing[k] EXCEPT !.status = "cancelled"]
          BY <4>1 DEF PayInv, PosInv, TypeOK
        <4>4. listing'[k] \in ListingRow
          BY <4>2, <4>3 DEF ListingRow
        <4>5. /\ listing'[k].seller = listing[k].seller
              /\ listing'[k].askPrice = listing[k].askPrice
              /\ listing'[k].buyer = listing[k].buyer
          BY <4>2, <4>3 DEF ListingRow
        <4>. QED
          BY <2>1, <4>1, <4>3, <4>4, <4>5, NftMarketAssumption DEF Unsold, KeepsTerms
      <3>. QED
        BY <1>5, <3>1, <3>2, <3>3
    <2>. QED
      BY <1>1, <2>1, <2>2, UnsoldPay
  <1>6. ASSUME NEW r \in Request, LockListing(r) \/ LockBuyer(r)
        PROVE  PayInv'
    <2>1. /\ op' = op /\ reply' = reply /\ listing' = listing /\ ledger' = ledger
          /\ pc[r] # "done"
          /\ \A q \in Request \ {r} : pc'[q] = pc[q]
      BY <1>6
         DEF LockListing, LockBuyer, AtListing, At, Goto, PayInv, PosInv, TypeOK, rowVars,
             marketVars
    <2>. QED
      BY <1>1, <2>1, UnsoldPay DEF Unsold
  <1>7. CASE UNCHANGED vars
    BY <1>1, <1>7, UnsoldPay DEF vars, Unsold
  <1>. QED
    BY <1>2, <1>3, <1>4, <1>5, <1>6, <1>7, CommitPay
       DEF Next, Handle, AllAnswered, Refusing, Looking

\* Every variable keeps its type: of the rows, a listing that can be bought has
\* no buyer and a sold one has.
THEOREM TypeCorrect == Spec => []TypeOK
  <1>1. PosInv => TypeOK
    BY DEF PosInv
  <1>. QED
    BY PosInit, PosStep, <1>1, PTL DEF Spec

\* Who is told that it bought has paid, at the price asked, and nobody was
\* charged for that listing but once: purchases of one listing, their retries,
\* cancellations and lost connections in any order.
THEOREM BuyersPaid == Spec => []BuyersHavePaid
  <1>1. PayInv => BuyersHavePaid
    <2> SUFFICES ASSUME PayInv, NEW r \in Request, reply[r] \in {"ok", "replayed"},
                        op[r].kind = "buy"
                 PROVE  \E q \in Request :
                            /\ op[q] = op[r]
                            /\ Offered(r).buyer = op[r].player
                            /\ SaleEntries(q) = {e \in ledger : e.by = q}
                            /\ \A e \in ledger :
                                  op[e.by].listing = op[r].listing => e.by = q
      BY DEF BuyersHavePaid
    <2>1. /\ pc[r] = "done" /\ Offered(r) # NotListed
          /\ Offered(r).buyer = op[r].player
      BY DEF PayInv, ToldIsBuyer
    <2>2. /\ op[r].listing \in Listing /\ op[r].player \in Wallet
          /\ op[r] = [kind |-> "buy", player |-> op[r].player, listing |-> op[r].listing]
      BY <2>1, BuyFields DEF PayInv, PosInv, Asked
    <2>3. PICK q \in Request : PaidBy(op[r].listing, q)
      BY <2>1, <2>2, NftMarketAssumption DEF PayInv, SoldWasPaid, Offered
    <2>4. op[q] = [kind |-> "buy", player |-> op[q].player, listing |-> op[q].listing]
      BY <2>3, BuyFields DEF PaidBy
    <2>5. op[q].player = op[r].player /\ op[q].listing = op[r].listing
      BY <2>1, <2>3 DEF PaidBy, Offered
    <2>6. op[q] = op[r]
      BY <2>2, <2>4, <2>5
    <2>. QED
      BY <2>1, <2>3, <2>6 DEF PaidBy
  <1>. QED
    BY PayInit, PayStep, <1>1, PTL DEF Spec

\* A committed sale finds the NFT with the seller and moves exactly the price
\* between the balances of the moment, and nobody else's.
THEOREM SalesMoveThePrice == Spec => SalesAreExact
  <1>1. PosInv /\ [Next]_vars =>
            [\A r \in Request :
                pc[r] = "lockSeller" /\ reply'[r] = "ok" =>
                    LET row == Offered(r)
                        m == Micro(row.askPrice)
                    IN  /\ row.status = "active"
                        /\ owner[row.asset] = row.seller
                        /\ owner' = [owner EXCEPT ![row.asset] = op[r].player]
                        /\ wallet'[op[r].player].balance = wallet[op[r].player].balance - m
                        /\ wallet'[row.seller].balance = wallet[row.seller].balance + m
                        /\ \A w \in Wallet \ {op[r].player, row.seller} :
                              wallet'[w] = wallet[w]]_vars
    <2> SUFFICES ASSUME PosInv, Next, NEW r \in Request,
                        pc[r] = "lockSeller", reply'[r] = "ok"
                 PROVE  /\ CommitPurchase(r)
                        /\ Offered(r).status = "active"
      BY CommitWrites
    <2>1. reply[r] = "none" /\ Offered(r).status = "active"
      BY BuyingFields DEF Buying
    <2>2. ASSUME NEW q \in Request, NEW a \in Reply, Answer(q, a)
          PROVE  q = r
      BY <2>1, <2>2 DEF Answer, PosInv, TypeOK
    <2>3. CASE \E q \in Request, o \in Operation : Send(q, o)
      BY <2>1, <2>3 DEF Send
    <2>4. ~(\E q \in Request : Refusing(q))
      <3> SUFFICES ASSUME NEW q \in Request, Refusing(q) PROVE FALSE
        OBVIOUS
      <3>1. PICK a \in Reply : Refuse(q, a)
        BY RefusingRefuses
      <3>2. q = r
        BY <2>2, <3>1 DEF Refuse
      <3>3. reply'[r] = "failed" \/ reply'[r] = "conflict" \/ pc[r] # "lockSeller"
        BY <3>2
           DEF Refusing, AssetNotFound, GiveToSelf, AlreadyListed, CancelRefused,
               PurchaseRefused, AtListing, At, BuyerInsufficient, ListingInvalid,
               DeadlockVictim, ConnectionLost, Refuse, Answer, PosInv, TypeOK
      <3>. QED
        BY <3>3
    <2>5. ASSUME NEW q \in Request,
                 \/ Looking(q) \/ LockListing(q) \/ LockBuyer(q)
                 \/ InsertListing(q) \/ SaveGift(q) \/ SaveUpdate(q) \/ SaveCancelled(q)
          PROVE  FALSE
      <3>1. reply' = reply \/ (Answer(q, "ok") /\ pc[q] \in {"found", "unlisted"})
        BY <2>5
           DEF Looking, FindAsset, FindNoListing, FindListing, LockListing, LockBuyer,
               InsertListing, SaveGift, SaveUpdate, SaveCancelled, At
      <3>. QED
        BY <2>1, <2>2, <3>1 DEF Reply
    <2>6. ASSUME NEW q \in Request, CommitPurchase(q)
          PROVE  q = r
      BY <2>2, <2>6 DEF CommitPurchase, Reply
    <2>. QED
      BY <2>1, <2>3, <2>4, <2>5, <2>6
         DEF Next, Handle, AllAnswered, Refusing, Looking, vars
  <1>. QED
    BY PosInit, PosStep, <1>1, PTL DEF Spec, SalesAreExact
-----------------------------------------------------------------------------
(***************************************************************************)
(* Waiting.  A lock is held by a purchase, on what it has come to lock     *)
(* (the converse of ListingHeld and BuyerHeld), and only finitely many     *)
(* requests are sent at any time.                                          *)
(***************************************************************************)
LockedForPurchase ==
    /\ \A l \in Listing : listingLock[l] # Free =>
          /\ pc[listingLock[l]] \in Buying
          /\ op[listingLock[l]].listing = l
    /\ \A w \in Wallet : lock[w] # Free =>
          /\ pc[lock[w]] = "lockSeller"
          /\ op[lock[w]].player = w

Sent == {r \in Request : pc[r] # "idle"}

FewSent == IsFiniteSet(Sent)

WaitInv == PosInv /\ LockedForPurchase /\ FewSent

LEMMA WaitInit == Init => WaitInv
<1>. SUFFICES ASSUME Init PROVE WaitInv
  OBVIOUS
<1>1. LockedForPurchase /\ Sent = {}
  BY DEF Init, RowsInit, LockedForPurchase, Sent
<1>. QED
  BY <1>1, PosInit, FS_EmptySet DEF WaitInv, FewSent

\* A request that is answered gives its locks back.
LEMMA AnswerWait ==
    ASSUME WaitInv, NEW r \in Request, NEW a \in Reply, Answer(r, a), pc[r] # "idle"
    PROVE  LockedForPurchase' /\ Sent' \subseteq Sent
<1>1. /\ op' = op /\ pc' = [pc EXCEPT ![r] = "done"]
      /\ \A q \in Request \ {r} : pc'[q] = pc[q]
  BY DEF Answer, Goto, WaitInv, PosInv, TypeOK
<1>2. \A l \in Listing : listingLock'[l] # Free =>
        listingLock'[l] = listingLock[l] /\ listingLock[l] \in Request \ {r}
  BY DEF Answer, WaitInv, PosInv, TypeOK
<1>3. \A w \in Wallet : lock'[w] # Free =>
        lock'[w] = lock[w] /\ lock[w] \in Request \ {r}
  BY DEF Answer, Unlocked, WaitInv, PosInv, TypeOK
<1>4. Sent' \subseteq Sent
  BY <1>1 DEF Sent
<1>. QED
  BY <1>1, <1>2, <1>3, <1>4 DEF WaitInv, LockedForPurchase

LEMMA AnsweringAnswers ==
    ASSUME WaitInv, NEW r \in Request,
           \/ Refusing(r) \/ CommitPurchase(r)
           \/ InsertListing(r) \/ SaveGift(r) \/ SaveUpdate(r) \/ SaveCancelled(r)
    PROVE  pc[r] # "idle" /\ \E a \in Reply : Answer(r, a)
<1>1. CASE Refusing(r)
  BY <1>1, RefusingRefuses DEF Refuse
<1>2. CASE ~Refusing(r)
  BY <1>2
     DEF CommitPurchase, InsertListing, SaveGift, SaveUpdate, SaveCancelled, At, Reply
<1>. QED
  BY <1>1, <1>2

LEMMA WaitStep == WaitInv /\ [Next]_vars => WaitInv'
<1>. SUFFICES ASSUME WaitInv, [Next]_vars PROVE LockedForPurchase' /\ FewSent'
  BY PosStep DEF WaitInv
<1>1. Sent' \subseteq Sent => FewSent'
  BY FS_Subset DEF WaitInv, FewSent
<1>2. ASSUME NEW r \in Request, NEW o \in Operation, Send(r, o)
      PROVE  LockedForPurchase' /\ FewSent'
  <2>1. /\ pc[r] = "idle" /\ UNCHANGED <<lock, listingLock>>
        /\ \A q \in Request \ {r} : pc'[q] = pc[q] /\ op'[q] = op[q]
    BY <1>2 DEF Send, Goto, WaitInv, PosInv, TypeOK, rowVars
  <2>2. LockedForPurchase'
    BY <2>1 DEF WaitInv, PosInv, TypeOK, LockedForPurchase, Buying
  <2>3. Sent' \subseteq Sent \cup {r}
    BY <2>1 DEF Sent
  <2>4. IsFiniteSet(Sent \cup {r})
    BY FS_AddElement DEF WaitInv, FewSent
  <2>. QED
    BY <2>2, <2>3, <2>4, FS_Subset DEF FewSent
<1>3. ASSUME NEW r \in Request, Looking(r) PROVE LockedForPurchase' /\ FewSent'
  <2>1. /\ pc[r] \in {"sent", "found"} /\ UNCHANGED <<lock, listingLock, op>>
        /\ \A q \in Request \ {r} : pc'[q] = pc[q]
    BY <1>3 DEF Looking, FindAsset, FindNoListing, FindListing, At, Goto, WaitInv, PosInv,
                TypeOK, rowVars
  <2>2. LockedForPurchase'
    BY <2>1 DEF WaitInv, PosInv, TypeOK, LockedForPurchase, Buying
  <2>3. Sent' \subseteq Sent
    BY <2>1 DEF Sent
  <2>. QED
    BY <1>1, <2>2, <2>3
<1>4. ASSUME NEW r \in Request, LockListing(r) PROVE LockedForPurchase' /\ FewSent'
  <2>1. /\ pc[r] = "sent" /\ pc' = [pc EXCEPT ![r] = "lockBuyer"]
        /\ listingLock' = [listingLock EXCEPT ![op[r].listing] = r]
        /\ UNCHANGED <<lock, op>>
    BY <1>4 DEF LockListing, AtListing, At, Goto, rowVars
  <2>2. LockedForPurchase'
    BY <2>1 DEF WaitInv, PosInv, TypeOK, LockedForPurchase, Buying
  <2>3. Sent' \subseteq Sent
    BY <2>1 DEF Sent, WaitInv, PosInv, TypeOK
  <2>. QED
    BY <1>1, <2>2, <2>3
<1>5. ASSUME NEW r \in Request, LockBuyer(r) PROVE LockedForPurchase' /\ FewSent'
  <2>1. /\ pc[r] = "lockBuyer" /\ pc' = [pc EXCEPT ![r] = "lockSeller"]
        /\ lock' = [lock EXCEPT ![op[r].player] = r]
        /\ UNCHANGED <<listingLock, op>>
    BY <1>5 DEF LockBuyer, LockRow, Goto
  <2>2. LockedForPurchase'
    BY <2>1 DEF WaitInv, PosInv, TypeOK, LockedForPurchase, Buying
  <2>3. Sent' \subseteq Sent
    BY <2>1 DEF Sent, WaitInv, PosInv, TypeOK
  <2>. QED
    BY <1>1, <2>2, <2>3
<1>6. ASSUME NEW r \in Request,
             \/ Refusing(r) \/ CommitPurchase(r)
             \/ InsertListing(r) \/ SaveGift(r) \/ SaveUpdate(r) \/ SaveCancelled(r)
      PROVE  LockedForPurchase' /\ FewSent'
  BY <1>1, <1>6, AnsweringAnswers, AnswerWait
<1>7. CASE UNCHANGED vars
  BY <1>1, <1>7 DEF vars, WaitInv, LockedForPurchase, Sent
<1>. QED
  BY <1>2, <1>3, <1>4, <1>5, <1>6, <1>7 DEF Next, Handle, AllAnswered, Refusing, Looking

LEMMA OneCanGoOn == WaitInv => SomebodyCanGoOn
<1>. SUFFICES ASSUME WaitInv, NEW r \in Request, UnderWay(r),
                     \A q \in Request : ~CanGoOn(q)
              PROVE  FALSE
  BY DEF SomebodyCanGoOn
<1>. DEFINE W == {q \in Request : pc[q] \in Buying}
            for == [q \in W |-> WaitsFor(q)]
<1>1. W # {}
  <2>1. CASE r \in W
    BY <2>1
  <2>2. CASE r \notin W
    <3>1. /\ pc[r] \in {"sent", "found"} /\ op[r].kind \in {"buy", "cancel"}
          /\ listingLock[op[r].listing] # Free
      BY <2>2 DEF UnderWay, CanGoOn, Buying, WaitInv, PosInv, TypeOK, Step
    <3>2. op[r].listing \in Listing
      BY <3>1, AskFields DEF WaitInv, PosInv, Asked
    <3>3. LET q == listingLock[op[r].listing] IN q \in Request /\ pc[q] \in Buying
      BY <3>1, <3>2 DEF WaitInv, LockedForPurchase, PosInv, TypeOK
    <3>. QED
      BY <3>3
  <2>. QED
    BY <2>1, <2>2
<1>2. IsFiniteSet(W)
  <2>1. W \subseteq Sent
    BY DEF Sent, Buying
  <2>. QED
    BY <2>1, FS_Subset DEF WaitInv, FewSent
<1>3. ASSUME NEW q \in W PROVE WaitsFor(q) \in W
  <2>1. PICK w \in Wallet : WaitsFor(q) = lock[w]
    BY BuyingFields DEF WaitInv, WaitsFor
  <2>2. lock[w] # Free
    BY <2>1 DEF CanGoOn, Buying
  <2>. QED
    BY <2>1, <2>2 DEF WaitInv, LockedForPurchase, PosInv, TypeOK, Buying
<1>4. for \in [W -> W]
  BY <1>3
<1>5. PICK S \in SUBSET W :
        S # {} /\ \A p \in W : p \in S <=> \E q \in S : p = for[q]
  <2>. HIDE DEF W, for
  <2>. QED
    BY <1>1, <1>2, <1>4, CircleOfWaits
<1>6. {WaitsFor(q) : q \in S} = S
  BY <1>3, <1>5
<1>7. Deadlocked(S)
  BY <1>6 DEF Deadlocked, Buying
<1>. QED
  BY <1>5, <1>7 DEF CanGoOn

(***************************************************************************)
(* Buyers who buy from each other, in a circle of any length, and whoever  *)
(* waits behind them never come to a halt: the server finds the circle.    *)
(***************************************************************************)
THEOREM NeverAtAStandstill == Spec => []SomebodyCanGoOn
  BY WaitInit, WaitStep, OneCanGoOn, PTL DEF Spec
=============================================================================
