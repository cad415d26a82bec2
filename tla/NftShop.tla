------------------------------ MODULE NftShop ------------------------------
(***************************************************************************)
(* NFTs that come into being: players buy them from a game's shop and      *)
(* admins mint them, as concurrent HTTP requests over the rows of          *)
(* GameWalletRows.  Both read the template, with its mint count, before    *)
(* anything else and save count + 1 at the end; a purchase does the rest   *)
(* in a transaction that locks the player's wallet, a mint has none.       *)
(***************************************************************************)
EXTENDS GameWalletRows, FiniteSets

CONSTANTS
    Template,       \* ids of nft_templates rows
    Cost,           \* [Template -> Nat], mintingCost
    Cap,            \* [Template -> Nat], maxMintCount, 0 when there is none
    Operation,      \* what requests may ask for
    NoOp

Purchase == [kind : {"buy"}, player : Wallet, template : Template, key : Key \cup {NoKey}]
Mint == [kind : {"mint"}, player : Wallet, template : Template]

ASSUME NftShopAssumption ==
    /\ Cost \in [Template -> Nat \ {0}]
    /\ Cap \in [Template -> Nat]
    /\ NoOp \notin Purchase \cup Mint
    /\ Operation \subseteq Purchase \cup Mint

VARIABLES
    nfts,       \* the committed nft_instances rows
    count,      \* [Template -> Nat], the committed currentMintCount
    op, pc, reply,  \* per request, as in WalletLedger
    seen,       \* [Request -> Nat], the currentMintCount the handler has read
    snap        \* [Request -> Row], the locked copy of the wallet

vars == <<wallet, ledger, lock, nfts, count, op, pc, reply, seen, snap>>
reqVars == <<op, seen, snap>>

Step == {"idle", "sent", "template", "lockWallet", "locked", "minted", "done"}
Reply == {"none", "ok", "replayed", "soldOut", "insufficient", "failed"}

(***************************************************************************)
(* "by", the request that inserted the row, and "charged", what it cost,   *)
(* are history.                                                            *)
(***************************************************************************)
Nft(r, charged, key) ==
    [by |-> r, template |-> op[r].template, owner |-> op[r].player,
     purchaseOperationKey |-> key, charged |-> charged]

NftKeys == {n.purchaseOperationKey : n \in nfts} \ {NoKey}

Init ==
    /\ RowsInit
    /\ nfts = {}
    /\ count = [t \in Template |-> 0]
    /\ op = [r \in Request |-> NoOp]
    /\ pc = [r \in Request |-> "idle"]
    /\ reply = [r \in Request |-> "none"]
    /\ seen = [r \in Request |-> 0]
    /\ snap = [r \in Request |-> EmptyRow]

Goto(r, step) ==
    /\ pc' = [pc EXCEPT ![r] = step]
    /\ UNCHANGED reply

\* The handler returns or throws, and its transaction, if it has one, ends.
Answer(r, answer) ==
    /\ pc' = [pc EXCEPT ![r] = "done"]
    /\ reply' = [reply EXCEPT ![r] = answer]
    /\ lock' = Unlocked(r)
    /\ UNCHANGED reqVars

Refuse(r, answer) ==
    /\ Answer(r, answer)
    /\ UNCHANGED <<wallet, ledger, nfts, count>>

Send(r, o) ==
    /\ pc[r] = "idle"
    /\ op' = [op EXCEPT ![r] = o]
    /\ Goto(r, "sent")
    /\ UNCHANGED <<rowVars, nfts, count, seen, snap>>

Price(r) == Cost[op[r].template]

\* A purchase stores the client's key as it is, in the NFT and in the ledger.
PurchaseKey(r) == IF op[r].key = NoKey THEN NoKey ELSE <<op[r].key, "plain">>

SoldOut(r) ==
    /\ Cap[op[r].template] # 0
    /\ count[op[r].template] >= Cap[op[r].template]

\* Both handlers read the template, its mint count included, without a lock.
ReadTemplate(r) ==
    /\ pc[r] = "sent"
    /\ ~SoldOut(r)
    /\ seen' = [seen EXCEPT ![r] = count[op[r].template]]
    /\ Goto(r, "template")
    /\ UNCHANGED <<rowVars, nfts, count, op, snap>>

ReadSoldOut(r) ==
    /\ pc[r] = "sent"
    /\ SoldOut(r)
    /\ Refuse(r, "soldOut")
-----------------------------------------------------------------------------
\* Mutant of BoughtBefore: whoever sends the key is told that it bought.
BoughtBeforeMutant(r) ==
    /\ op[r].key # NoKey
    /\ \E n \in nfts : n.purchaseOperationKey = PurchaseKey(r)

(***************************************************************************)
(* A purchase is a replay when the player still owns an NFT of this        *)
(* template with this key.                                                 *)
(***************************************************************************)
BoughtBefore(r) ==
    /\ op[r].key # NoKey
    /\ \E n \in nfts :
        /\ n.purchaseOperationKey = PurchaseKey(r)
        /\ n.owner = op[r].player
        /\ n.template = op[r].template

\* A purchase, wherever it looks the key up: before the lock and with it.
Buying(r, step) == pc[r] = step /\ op[r].kind = "buy"

\* The wallet is read without a lock for a first look at the balance.
LookUpPurchase(r) ==
    /\ Buying(r, "template")
    /\ ~BoughtBefore(r)
    /\ Covers(wallet[op[r].player], Price(r))
    /\ Goto(r, "lockWallet")
    /\ UNCHANGED <<rowVars, nfts, count, reqVars>>

PurchaseReplayed(r) ==
    /\ Buying(r, "template") \/ Buying(r, "locked")
    /\ BoughtBefore(r)
    /\ Refuse(r, "replayed")

PurchaseInsufficient(r) ==
    /\ \/ Buying(r, "template") /\ ~Covers(wallet[op[r].player], Price(r))
       \/ Buying(r, "locked") /\ ~Covers(snap[r], Price(r))
    /\ ~BoughtBefore(r)
    /\ Refuse(r, "insufficient")

\* Mutant of LockWallet: the wallet is read without a lock.
LockWalletMutant(r) ==
    /\ Buying(r, "lockWallet")
    /\ snap' = [snap EXCEPT ![r] = wallet[op[r].player]]
    /\ Goto(r, "locked")
    /\ UNCHANGED <<rowVars, nfts, count, op, seen>>

LockWallet(r) ==
    /\ Buying(r, "lockWallet")
    /\ LockRow(r, op[r].player)
    /\ snap' = [snap EXCEPT ![r] = wallet[op[r].player]]
    /\ Goto(r, "locked")
    /\ UNCHANGED <<wallet, ledger, nfts, count, op, seen>>

\* An INSERT would violate the unique index of ledger_entries or nft_instances.
KeyUsed(r) == op[r].key # NoKey /\ PurchaseKey(r) \in UsedKeys \cup NftKeys

PurchaseEntry(r) ==
    Entry(r, op[r].player, "withdraw", "out", Price(r), PurchaseKey(r))

\* The template's row gets the count the handler read, plus one.
CountMint(r) == count' = [count EXCEPT ![op[r].template] = seen[r] + 1]

\* The writes of the transaction and its COMMIT.
CommitPurchase(r) ==
    /\ Buying(r, "locked")
    /\ ~BoughtBefore(r)
    /\ Covers(snap[r], Price(r))
    /\ ~KeyUsed(r)
    /\ wallet' = [wallet EXCEPT ![op[r].player] = Debited(snap[r], Price(r))]
    /\ ledger' = ledger \cup {PurchaseEntry(r)}
    /\ nfts' = nfts \cup {Nft(r, Price(r), PurchaseKey(r))}
    /\ CountMint(r)
    /\ Answer(r, "ok")

\* Mutant of PurchaseDuplicate: the count is not part of the transaction.
CountKeptMutant(r) ==
    /\ Buying(r, "locked")
    /\ ~BoughtBefore(r)
    /\ Covers(snap[r], Price(r))
    /\ KeyUsed(r)
    /\ CountMint(r)
    /\ Answer(r, "failed")
    /\ UNCHANGED <<wallet, ledger, nfts>>

(***************************************************************************)
(* A unique index refuses the key: the transaction rolls back, and the     *)
(* handler looks for the purchase once more before it rethrows the error.  *)
(***************************************************************************)
PurchaseDuplicate(r) ==
    /\ Buying(r, "locked")
    /\ ~BoughtBefore(r)
    /\ Covers(snap[r], Price(r))
    /\ KeyUsed(r)
    /\ Refuse(r, "failed")
-----------------------------------------------------------------------------
\* mintNFTToPlayer saves the NFT, then the template, without a transaction.
MintNft(r) ==
    /\ pc[r] = "template"
    /\ op[r].kind = "mint"
    /\ nfts' = nfts \cup {Nft(r, 0, NoKey)}
    /\ Goto(r, "minted")
    /\ UNCHANGED <<rowVars, count, reqVars>>

MintCounted(r) ==
    /\ pc[r] = "minted"
    /\ CountMint(r)
    /\ Answer(r, "ok")
    /\ UNCHANGED <<wallet, ledger, nfts>>

\* The server or the connection fails; what a mint has saved stays.
Fail(r) ==
    /\ pc[r] \in {"template", "lockWallet", "locked", "minted"}
    /\ Refuse(r, "failed")

\* playerTransferNFT: the owner gives an NFT to another player.
GiveAway(n, w) ==
    /\ n.owner # w
    /\ nfts' = (nfts \ {n}) \cup {[n EXCEPT !.owner = w]}
    /\ UNCHANGED <<rowVars, count, pc, reply, reqVars>>

Handle(r) ==
    \/ ReadTemplate(r)
    \/ ReadSoldOut(r)
    \/ LookUpPurchase(r)
    \/ PurchaseReplayed(r)
    \/ PurchaseInsufficient(r)
    \/ LockWallet(r)
    \/ CommitPurchase(r)
    \/ PurchaseDuplicate(r)
    \/ MintNft(r)
    \/ MintCounted(r)

AllAnswered ==
    /\ \A r \in Request : pc[r] = "done"
    /\ UNCHANGED vars

Next ==
    \/ \E r \in Request, o \in Operation : Send(r, o)
    \/ \E r \in Request : Handle(r) \/ Fail(r)
    \/ \E n \in nfts, w \in Wallet : GiveAway(n, w)
    \/ AllAnswered

Spec == Init /\ [][Next]_vars

-----------------------------------------------------------------------------
NftRow ==
    [by : Request, template : Template, owner : Wallet, charged : Nat,
     purchaseOperationKey : OperationKey \cup {NoKey}]

TypeOK ==
    /\ wallet \in [Wallet -> Row]
    /\ \A e \in ledger :
        /\ e.by \in Request
        /\ e.wallet \in Wallet
        /\ e.amount \in Nat
        /\ e.operationKey \in OperationKey \cup {NoKey}
    /\ lock \in [Wallet -> Request \cup {Free}]
    /\ nfts \subseteq NftRow
    /\ count \in [Template -> Nat]
    /\ op \in [Request -> Operation \cup {NoOp}]
    /\ pc \in [Request -> Step]
    /\ reply \in [Request -> Reply]
    /\ seen \in [Request -> Nat]
    /\ snap \in [Request -> Row]

(***************************************************************************)
(* Every shop NFT was paid for exactly once and every charge brought its   *)
(* NFT: the NFTs with a price and the ledger rows are the same requests,   *)
(* whatever fails in between, whoever owns the NFT now.  And who is told   *)
(* that it bought before does so for a purchase of the same template with  *)
(* the same key that was charged.                                          *)
(***************************************************************************)
ChargedIffDelivered ==
    /\ \A e \in ledger :
        \E n \in nfts : n.by = e.by /\ n.charged = e.amount
                            /\ n.purchaseOperationKey = e.operationKey
    /\ \A n \in nfts :
        n.charged # 0 =>
            \E e \in ledger : e.by = n.by /\ e.amount = n.charged
    /\ \A r \in Request :
        reply[r] = "replayed" =>
            \E e \in ledger :
                /\ op[e.by].template = op[r].template
                /\ op[e.by].key = op[r].key

(***************************************************************************)
(* Purchases are payments in the atomic book.                              *)
(***************************************************************************)
Book == INSTANCE LedgerBook WITH
            balance <- [w \in Wallet |-> wallet[w].balance],
            paid <- UsedKeys,
            posted <- {[by |-> e.by, wallet |-> e.wallet, change |-> -Micro(e.amount)] :
                            e \in ledger},
            Id <- Request,
            Key <- Key \X {"plain"},
            Money <- {Micro(Cost[t]) : t \in Template}

\* Purchases behave as if each took effect at once.
PurchasesImplementBook == Book!Spec

(***************************************************************************)
(* A template never counts an NFT that was not minted, so nobody is told   *)
(* that it is sold out while the cap leaves room: purchases and mints that *)
(* fail half-way, or overwrite each other's count, only leave it too low.  *)
(***************************************************************************)
CountIsBacked ==
    \A t \in Template : count[t] <= Cardinality({n \in nfts : n.template = t})
=============================================================================
