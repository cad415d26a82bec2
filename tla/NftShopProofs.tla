---------------------------- MODULE NftShopProofs ----------------------------
(***************************************************************************)
(* Proofs about NftShop for every set of wallets, templates, requests and  *)
(* keys, and all prices and caps.                                          *)
(***************************************************************************)
EXTENDS NftShop, FiniteSetTheorems, GameWalletRowsProofs

(***************************************************************************)
(* Positions: what a handler is about to do fits what it was asked for,    *)
(* and only a finished one has answered.                                   *)
(***************************************************************************)
Asked == \A r \in Request : pc[r] # "idle" => op[r] \in Operation

StepFitsKind ==
    \A r \in Request :
        /\ pc[r] \in {"lockWallet", "locked"} => op[r].kind = "buy"
        /\ pc[r] = "minted" => op[r].kind = "mint"

AnsweredWhenDone == \A r \in Request : reply[r] # "none" => pc[r] = "done"

PosInv == TypeOK /\ Asked /\ StepFitsKind /\ AnsweredWhenDone

LEMMA OpFields ==
    ASSUME Asked, NEW r \in Request, pc[r] # "idle"
    PROVE  /\ op[r] \in Operation
           /\ op[r].player \in Wallet
           /\ op[r].template \in Template
           /\ Price(r) \in Nat \ {0}
           /\ op[r].kind = "buy" => op[r].key \in Key \cup {NoKey}
  <1>1. op[r] \in Purchase \cup Mint
    BY NftShopAssumption DEF Asked
  <1>2. op[r].player \in Wallet /\ op[r].template \in Template
    BY <1>1 DEF Purchase, Mint
  <1>3. op[r].kind = "buy" => op[r].key \in Key \cup {NoKey}
    BY <1>1 DEF Purchase, Mint
  <1>. QED
    BY <1>2, <1>3, NftShopAssumption DEF Asked, Price

\* The key of a purchase, and that it tells the client's keys apart.
LEMMA KeyOfPurchase ==
    ASSUME Asked, NEW r \in Request, pc[r] # "idle", op[r].kind = "buy"
    PROVE  /\ PurchaseKey(r) \in OperationKey \cup {NoKey}
           /\ op[r].key = NoKey <=> PurchaseKey(r) = NoKey
  BY OpFields, GameWalletAssumption DEF PurchaseKey, OperationKey

\* Everything an NFT is made of, and the ledger row of a purchase.
LEMMA NftFields ==
    ASSUME NEW r \in Request, NEW c, NEW k
    PROVE  /\ Nft(r, c, k).by = r
           /\ Nft(r, c, k).template = op[r].template
           /\ Nft(r, c, k).owner = op[r].player
           /\ Nft(r, c, k).purchaseOperationKey = k
           /\ Nft(r, c, k).charged = c
  BY DEF Nft

LEMMA NftType ==
    ASSUME Asked, NEW r \in Request, pc[r] # "idle", NEW c \in Nat,
           NEW k \in OperationKey \cup {NoKey}
    PROVE  Nft(r, c, k) \in NftRow
  BY OpFields DEF Nft, NftRow

LEMMA EntryFields ==
    ASSUME NEW r \in Request
    PROVE  /\ PurchaseEntry(r).by = r
           /\ PurchaseEntry(r).wallet = op[r].player
           /\ PurchaseEntry(r).amount = Price(r)
           /\ PurchaseEntry(r).operationKey = PurchaseKey(r)
  BY DEF PurchaseEntry, Entry

\* An NFT that is given away is the same NFT with another owner.
LEMMA Given ==
    ASSUME NEW n \in NftRow, NEW w \in Wallet
    PROVE  LET m == [n EXCEPT !.owner = w]
           IN  /\ m \in NftRow /\ m.by = n.by /\ m.template = n.template
               /\ m.charged = n.charged
               /\ m.purchaseOperationKey = n.purchaseOperationKey
  BY DEF NftRow

LEMMA DebitedType ==
    ASSUME NEW row \in Row, NEW a \in Nat
    PROVE  Debited(row, a) \in Row
  <1>1. \A x \in Int : Micro(x) \in Int
    BY DEF Micro
  <1>. QED
    BY <1>1 DEF Debited, SafeAdd, SafeSub, Row
-----------------------------------------------------------------------------
(***************************************************************************)
(* Types and positions.                                                    *)
(***************************************************************************)
EntriesType ==
    \A e \in ledger :
        /\ e.by \in Request
        /\ e.wallet \in Wallet
        /\ e.amount \in Nat
        /\ e.operationKey \in OperationKey \cup {NoKey}

LEMMA PosInit == Init => PosInv
  <1> SUFFICES ASSUME Init PROVE PosInv
    OBVIOUS
  <1>1. wallet \in [Wallet -> Row]
    BY OpeningSound DEF Init, RowsInit
  <1>2. snap \in [Request -> Row]
    BY EmptySound DEF Init
  <1>. QED
    BY <1>1, <1>2
       DEF Init, RowsInit, PosInv, TypeOK, Asked, StepFitsKind, AnsweredWhenDone, Step, Reply

LEMMA AnswerPos ==
    ASSUME PosInv, NEW r \in Request, NEW a \in Reply, Answer(r, a), pc[r] # "idle",
           wallet' \in [Wallet -> Row], EntriesType', nfts' \subseteq NftRow,
           count' \in [Template -> Nat]
    PROVE  PosInv'
  <1>1. /\ op' = op /\ pc'[r] = "done"
        /\ \A q \in Request \ {r} : pc'[q] = pc[q] /\ reply'[q] = reply[q]
    BY DEF Answer, reqVars, PosInv, TypeOK
  <1>2. TypeOK'
    BY DEF Answer, Unlocked, reqVars, PosInv, TypeOK, EntriesType, Step
  <1>3. Asked' /\ StepFitsKind' /\ AnsweredWhenDone'
    BY <1>1 DEF PosInv, Asked, StepFitsKind, AnsweredWhenDone
  <1>. QED  BY <1>2, <1>3 DEF PosInv

\* A handler that goes on changes neither what it was asked nor the replies.
LEMMA GotoPos ==
    ASSUME PosInv, TypeOK', NEW r \in Request, NEW s, Goto(r, s), op' = op,
           pc[r] # "idle", s \notin {"idle", "done"}, pc[r] # "done",
           s \in {"lockWallet", "locked"} => op[r].kind = "buy",
           s = "minted" => op[r].kind = "mint"
    PROVE  PosInv'
  <1>1. pc'[r] = s /\ reply' = reply /\ \A q \in Request \ {r} : pc'[q] = pc[q]
    BY DEF Goto, PosInv, TypeOK
  <1>. QED
    BY <1>1 DEF PosInv, Asked, StepFitsKind, AnsweredWhenDone

Ends(r) ==
    \/ ReadSoldOut(r) \/ PurchaseReplayed(r) \/ PurchaseInsufficient(r)
    \/ PurchaseDuplicate(r) \/ Fail(r)

LEMMA EndsAnswers ==
    ASSUME NEW r \in Request, Ends(r)
    PROVE  /\ \E a \in Reply : Answer(r, a) /\ (a = "replayed" => PurchaseReplayed(r))
           /\ UNCHANGED <<wallet, ledger, nfts, count>>
           /\ pc[r] \notin {"idle", "done"}
  BY DEF Ends, ReadSoldOut, PurchaseReplayed, PurchaseInsufficient, PurchaseDuplicate, Fail,
         Buying, Refuse, Reply

LEMMA PosStep == PosInv /\ [Next]_vars => PosInv'
  <1> SUFFICES ASSUME PosInv, [Next]_vars
               PROVE  PosInv'
    OBVIOUS
  <1> USE DEF PosInv
  <1>1. ASSUME NEW r \in Request, NEW o \in Operation, Send(r, o)
        PROVE  PosInv'
    BY <1>1 DEF Send, Goto, rowVars, TypeOK, Asked, StepFitsKind, AnsweredWhenDone, Step
  <1>2. ASSUME NEW r \in Request, ReadTemplate(r)
        PROVE  PosInv'
    <2>1. op[r].template \in Template
      BY <1>2, OpFields DEF ReadTemplate
    <2>2. TypeOK'
      BY <1>2, <2>1 DEF ReadTemplate, Goto, rowVars, TypeOK, Step
    <2>. QED  BY <1>2, <2>2, GotoPos DEF ReadTemplate
  <1>3. ASSUME NEW r \in Request, LookUpPurchase(r)
        PROVE  PosInv'
    <2>1. TypeOK'
      BY <1>3 DEF LookUpPurchase, Buying, Goto, rowVars, reqVars, TypeOK, Step
    <2>. QED  BY <1>3, <2>1, GotoPos DEF LookUpPurchase, Buying, reqVars
  <1>4. ASSUME NEW r \in Request, LockWallet(r)
        PROVE  PosInv'
    <2>1. op[r].player \in Wallet
      BY <1>4, OpFields DEF LockWallet, Buying
    <2>2. TypeOK'
      BY <1>4, <2>1 DEF LockWallet, LockRow, Buying, Goto, TypeOK, Step
    <2>. QED  BY <1>4, <2>2, GotoPos DEF LockWallet, Buying
  <1>5. ASSUME NEW r \in Request, CommitPurchase(r)
        PROVE  PosInv'
    <2>1. /\ op[r].player \in Wallet /\ op[r].template \in Template
          /\ Price(r) \in Nat /\ pc[r] # "idle"
          /\ PurchaseKey(r) \in OperationKey \cup {NoKey}
      BY <1>5, OpFields, KeyOfPurchase DEF CommitPurchase, Buying
    <2>2. wallet' \in [Wallet -> Row]
      BY <1>5, <2>1, DebitedType DEF CommitPurchase, TypeOK
    <2>3. EntriesType'
      BY <1>5, <2>1, EntryFields DEF CommitPurchase, TypeOK, EntriesType
    <2>4. nfts' \subseteq NftRow
      BY <1>5, <2>1, NftType DEF CommitPurchase, TypeOK
    <2>5. count' \in [Template -> Nat]
      BY <1>5, <2>1 DEF CommitPurchase, CountMint, TypeOK
    <2>. QED
      BY <1>5, <2>1, <2>2, <2>3, <2>4, <2>5, AnswerPos DEF CommitPurchase, Reply
  <1>6. ASSUME NEW r \in Request, MintNft(r)
        PROVE  PosInv'
    <2>1. nfts' \subseteq NftRow
      BY <1>6, NftType DEF MintNft, TypeOK
    <2>2. TypeOK'
      BY <1>6, <2>1 DEF MintNft, Goto, rowVars, reqVars, TypeOK, Step
    <2>. QED  BY <1>6, <2>2, GotoPos DEF MintNft, reqVars
  <1>7. ASSUME NEW r \in Request, MintCounted(r)
        PROVE  PosInv'
    <2>1. op[r].template \in Template /\ pc[r] # "idle"
      BY <1>7, OpFields DEF MintCounted
    <2>2. count' \in [Template -> Nat]
      BY <1>7, <2>1 DEF MintCounted, CountMint, TypeOK
    <2>. QED
      BY <1>7, <2>1, <2>2, AnswerPos DEF MintCounted, TypeOK, EntriesType, Reply
  <1>8. ASSUME NEW r \in Request, Ends(r)
        PROVE  PosInv'
    BY <1>8, EndsAnswers, AnswerPos DEF TypeOK, EntriesType
  <1>9. ASSUME NEW n \in nfts, NEW w \in Wallet, GiveAway(n, w)
        PROVE  PosInv'
    <2>1. nfts' \subseteq NftRow
      BY <1>9, Given DEF GiveAway, TypeOK
    <2>. QED
      BY <1>9, <2>1
         DEF GiveAway, rowVars, reqVars, TypeOK, Asked, StepFitsKind, AnsweredWhenDone
  <1>10. CASE UNCHANGED vars
    BY <1>10 DEF vars, TypeOK, Asked, StepFitsKind, AnsweredWhenDone
  <1>. QED
    BY <1>1, <1>2, <1>3, <1>4, <1>5, <1>6, <1>7, <1>8, <1>9, <1>10
       DEF Next, Handle, Ends, AllAnswered

\* Every variable keeps its type in every reachable state.
THEOREM TypeCorrect == Spec => []TypeOK
  <1>1. PosInv => TypeOK
    BY DEF PosInv
  <1>. QED
    BY PosInit, PosStep, <1>1, PTL DEF Spec
-----------------------------------------------------------------------------
(***************************************************************************)
(* What a step leaves alone: a request that was sent stays as it was sent, *)
(* an answer is not taken back, and only a purchase, a mint and a gift     *)
(* touch the ledger and the NFTs.                                          *)
(***************************************************************************)
Kept(q) ==
    /\ pc[q] # "idle" => op'[q] = op[q]
    /\ pc[q] = "done" => pc'[q] = "done"
    /\ pc[q] = "minted" => pc'[q] \in {"minted", "done"}
    /\ reply'[q] = "replayed" => reply[q] = "replayed" \/ PurchaseReplayed(q)

LEMMA GotoKeeps ==
    ASSUME PosInv, NEW r \in Request, NEW s, Goto(r, s), op' = op,
           pc[r] \notin {"minted", "done"}
    PROVE  \A q \in Request : Kept(q)
  BY DEF Goto, Kept, PosInv, TypeOK

LEMMA AnswerKeeps ==
    ASSUME PosInv, NEW r \in Request, NEW a, Answer(r, a),
           a = "replayed" => PurchaseReplayed(r)
    PROVE  \A q \in Request : Kept(q)
  BY DEF Answer, reqVars, Kept, PosInv, TypeOK

LEMMA Progress ==
    ASSUME PosInv, [Next]_vars
    PROVE  \A q \in Request : Kept(q)
  <1> DEFINE All == \A q \in Request : Kept(q)
  <1>1. ASSUME NEW r \in Request, NEW o \in Operation, Send(r, o)
        PROVE  All
    BY <1>1 DEF Send, Goto, Kept, PosInv, TypeOK
  <1>2. ASSUME NEW r \in Request,
               ReadTemplate(r) \/ LookUpPurchase(r) \/ LockWallet(r) \/ MintNft(r)
        PROVE  All
    BY <1>2, GotoKeeps
       DEF ReadTemplate, LookUpPurchase, LockWallet, MintNft, Buying, reqVars
  <1>3. ASSUME NEW r \in Request, CommitPurchase(r) \/ MintCounted(r)
        PROVE  All
    BY <1>3, AnswerKeeps DEF CommitPurchase, MintCounted
  <1>4. ASSUME NEW r \in Request, Ends(r)
        PROVE  All
    BY <1>4, EndsAnswers, AnswerKeeps
  <1>5. ASSUME UNCHANGED <<op, pc, reply>>
        PROVE  All
    BY <1>5 DEF Kept
  <1> HIDE DEF All
  <1>6. All
    BY <1>1, <1>2, <1>3, <1>4, <1>5
       DEF Next, Handle, Ends, AllAnswered, GiveAway, reqVars, vars
  <1>. QED  BY <1>6 DEF All

LEMMA Writers ==
    ASSUME [Next]_vars
    PROVE  \/ UNCHANGED <<wallet, ledger, nfts>>
           \/ \E r \in Request : CommitPurchase(r) \/ MintNft(r)
           \/ \E n \in nfts, w \in Wallet : GiveAway(n, w)
  <1>1. ASSUME NEW r \in Request, Ends(r)
        PROVE  UNCHANGED <<wallet, ledger, nfts>>
    BY <1>1, EndsAnswers
  <1>2. ASSUME NEW r \in Request,
               ReadTemplate(r) \/ LookUpPurchase(r) \/ LockWallet(r) \/ MintCounted(r)
        PROVE  UNCHANGED <<wallet, ledger, nfts>>
    BY <1>2 DEF ReadTemplate, LookUpPurchase, LockWallet, MintCounted, rowVars
  <1>3. ASSUME NEW r \in Request, NEW o \in Operation, Send(r, o)
        PROVE  UNCHANGED <<wallet, ledger, nfts>>
    BY <1>3 DEF Send, rowVars
  <1>4. CASE AllAnswered \/ UNCHANGED vars
    BY <1>4 DEF AllAnswered, vars
  <1>. QED
    BY <1>1, <1>2, <1>3, <1>4 DEF Next, Handle, Ends
-----------------------------------------------------------------------------
(***************************************************************************)
(* Charges and deliveries.  An NFT is the work of a request that is past   *)
(* its inserts and carries that request's template and, if it was bought   *)
(* with a key, the key; a ledger row is the work of an answered purchase.  *)
(***************************************************************************)
Made ==
    \A n \in nfts :
        /\ pc[n.by] \in {"minted", "done"}
        /\ n.template = op[n.by].template
        /\ n.purchaseOperationKey # NoKey =>
            n.charged # 0 /\ n.purchaseOperationKey = <<op[n.by].key, "plain">>

RowsDone == \A e \in ledger : pc[e.by] = "done"

DeliveryInv == PosInv /\ Made /\ RowsDone /\ ChargedIffDelivered

Delivered(e) ==
    \E n \in nfts : n.by = e.by /\ n.charged = e.amount
                        /\ n.purchaseOperationKey = e.operationKey
Paid(n) == n.charged # 0 => \E e \in ledger : e.by = n.by /\ e.amount = n.charged
KnownPurchase(r) ==
    \E e \in ledger : op[e.by].template = op[r].template /\ op[e.by].key = op[r].key

LEMMA ChargedParts ==
    ChargedIffDelivered <=> /\ \A e \in ledger : Delivered(e)
                            /\ \A n \in nfts : Paid(n)
                            /\ \A r \in Request : reply[r] = "replayed" => KnownPurchase(r)
  BY DEF ChargedIffDelivered, Delivered, Paid, KnownPurchase

LEMMA DeliveryInit == Init => DeliveryInv
  BY PosInit DEF DeliveryInv, Made, RowsDone, ChargedIffDelivered, Init, RowsInit

\* The NFT that answers a replay belongs to a charged purchase like this one.
LEMMA ReplayIsKnown ==
    ASSUME DeliveryInv, NEW r \in Request, PurchaseReplayed(r)
    PROVE  KnownPurchase(r)
  <1>1. PICK n \in nfts : /\ n.purchaseOperationKey = PurchaseKey(r)
                          /\ n.template = op[r].template
    BY DEF PurchaseReplayed, BoughtBefore
  <1>2. op[r].key # NoKey /\ PurchaseKey(r) = <<op[r].key, "plain">> /\ PurchaseKey(r) # NoKey
    BY KeyOfPurchase DEF PurchaseReplayed, BoughtBefore, PurchaseKey, Buying, DeliveryInv, PosInv
  <1>3. n.charged # 0 /\ op[n.by].key = op[r].key /\ op[n.by].template = op[r].template
    BY <1>1, <1>2 DEF DeliveryInv, Made
  <1>4. PICK e \in ledger : e.by = n.by
    BY <1>3, ChargedParts DEF DeliveryInv, Paid
  <1>. QED  BY <1>3, <1>4 DEF KnownPurchase

\* What is delivered and known stays so while the rows stay or come to more.
LEMMA KnownStays ==
    ASSUME DeliveryInv, [Next]_vars, ledger \subseteq ledger'
    PROVE  \A r \in Request : reply'[r] = "replayed" => KnownPurchase(r)'
  <1> SUFFICES ASSUME NEW r \in Request, reply'[r] = "replayed"
               PROVE  KnownPurchase(r)'
    OBVIOUS
  <1>1. KnownPurchase(r) /\ pc[r] # "idle"
    BY Progress, ReplayIsKnown, ChargedParts
       DEF Kept, DeliveryInv, PosInv, AnsweredWhenDone, PurchaseReplayed, Buying
  <1>2. PICK e \in ledger :
            op[e.by].template = op[r].template /\ op[e.by].key = op[r].key
    BY <1>1 DEF KnownPurchase
  <1>3. e.by \in Request /\ pc[e.by] # "idle"
    BY DEF DeliveryInv, PosInv, TypeOK, RowsDone
  <1>4. op'[e.by] = op[e.by] /\ op'[r] = op[r]
    BY <1>1, <1>3, Progress DEF Kept, DeliveryInv
  <1>. QED  BY <1>2, <1>4 DEF KnownPurchase

LEMMA MadeStays ==
    ASSUME DeliveryInv, [Next]_vars, NEW n \in nfts, NEW m,
           m.by = n.by, m.template = n.template, m.charged = n.charged,
           m.purchaseOperationKey = n.purchaseOperationKey
    PROVE  /\ pc'[m.by] \in {"minted", "done"}
           /\ m.template = op'[m.by].template
           /\ m.purchaseOperationKey # NoKey =>
                m.charged # 0 /\ m.purchaseOperationKey = <<op'[m.by].key, "plain">>
  <1>1. n.by \in Request /\ pc[n.by] \in {"minted", "done"}
    BY DEF DeliveryInv, PosInv, TypeOK, NftRow, Made
  <1>2. op'[n.by] = op[n.by] /\ pc'[n.by] \in {"minted", "done"}
    BY <1>1, Progress DEF Kept, DeliveryInv
  <1>. QED  BY <1>2 DEF DeliveryInv, Made

LEMMA RowsStay ==
    ASSUME DeliveryInv, [Next]_vars, NEW e \in ledger
    PROVE  pc'[e.by] = "done"
  BY Progress DEF Kept, DeliveryInv, PosInv, TypeOK, RowsDone

LEMMA DeliveryStep == DeliveryInv /\ [Next]_vars => DeliveryInv'
  <1> SUFFICES ASSUME DeliveryInv, [Next]_vars
               PROVE  DeliveryInv'
    OBVIOUS
  <1>1. PosInv'
    BY PosStep DEF DeliveryInv
  <1>2. CASE UNCHANGED <<wallet, ledger, nfts>>
    <2>1. Made'
      BY <1>2, MadeStays DEF Made
    <2>2. RowsDone'
      BY <1>2, RowsStay DEF RowsDone
    <2>3. (\A e \in ledger : Delivered(e))' /\ (\A n \in nfts : Paid(n))'
      BY <1>2, ChargedParts DEF DeliveryInv, Delivered, Paid
    <2>4. ChargedIffDelivered'
      BY <1>2, <2>3, KnownStays DEF ChargedIffDelivered, Delivered, Paid, KnownPurchase
    <2>. QED  BY <1>1, <2>1, <2>2, <2>4 DEF DeliveryInv
  <1>3. ASSUME NEW r \in Request, CommitPurchase(r)
        PROVE  DeliveryInv'
    <2> DEFINE n0 == Nft(r, Price(r), PurchaseKey(r))
               e0 == PurchaseEntry(r)
    <2>1. /\ nfts' = nfts \cup {n0} /\ ledger' = ledger \cup {e0}
          /\ op' = op /\ pc'[r] = "done"
      BY <1>3 DEF CommitPurchase, Answer, reqVars, DeliveryInv, PosInv, TypeOK
    <2>2. Price(r) # 0 /\ (PurchaseKey(r) # NoKey => PurchaseKey(r) = <<op[r].key, "plain">>)
      BY <1>3, OpFields
         DEF CommitPurchase, Buying, PurchaseKey, DeliveryInv, PosInv
    <2>3. /\ n0.by = r /\ n0.template = op[r].template /\ n0.charged = Price(r)
          /\ n0.purchaseOperationKey = PurchaseKey(r)
          /\ e0.by = r /\ e0.amount = Price(r) /\ e0.operationKey = PurchaseKey(r)
      BY NftFields, EntryFields
    <2> HIDE DEF n0, e0
    <2>4. Made'
      BY <2>1, <2>2, <2>3, MadeStays DEF Made
    <2>5. RowsDone'
      BY <2>1, <2>3, RowsStay DEF RowsDone
    <2>6. (\A e \in ledger : Delivered(e))'
      BY <2>1, <2>3, ChargedParts DEF DeliveryInv, Delivered
    <2>7. (\A n \in nfts : Paid(n))'
      BY <2>1, <2>3, ChargedParts DEF DeliveryInv, Paid
    <2>8. ChargedIffDelivered'
      BY <2>1, <2>6, <2>7, KnownStays DEF ChargedIffDelivered, Delivered, Paid, KnownPurchase
    <2>. QED  BY <1>1, <2>4, <2>5, <2>8 DEF DeliveryInv
  <1>4. ASSUME NEW r \in Request, MintNft(r)
        PROVE  DeliveryInv'
    <2> DEFINE n0 == Nft(r, 0, NoKey)
    <2>1. nfts' = nfts \cup {n0} /\ ledger' = ledger /\ op' = op /\ pc'[r] = "minted"
      BY <1>4 DEF MintNft, Goto, rowVars, reqVars, DeliveryInv, PosInv, TypeOK
    <2>2. /\ n0.by = r /\ n0.template = op[r].template /\ n0.charged = 0
          /\ n0.purchaseOperationKey = NoKey
      BY NftFields
    <2> HIDE DEF n0
    <2>3. Made'
      BY <2>1, <2>2, MadeStays DEF Made
    <2>4. RowsDone'
      BY <2>1, RowsStay DEF RowsDone
    <2>5. (\A e \in ledger : Delivered(e))' /\ (\A n \in nfts : Paid(n))'
      BY <2>1, <2>2, ChargedParts DEF DeliveryInv, Delivered, Paid
    <2>6. ChargedIffDelivered'
      BY <2>1, <2>5, KnownStays DEF ChargedIffDelivered, Delivered, Paid, KnownPurchase
    <2>. QED  BY <1>1, <2>3, <2>4, <2>6 DEF DeliveryInv
  <1>5. ASSUME NEW n \in nfts, NEW w \in Wallet, GiveAway(n, w)
        PROVE  DeliveryInv'
    <2> DEFINE m == [n EXCEPT !.owner = w]
    <2>1. /\ m.by = n.by /\ m.template = n.template /\ m.charged = n.charged
          /\ m.purchaseOperationKey = n.purchaseOperationKey
      BY Given DEF DeliveryInv, PosInv, TypeOK
    <2>2. nfts' = (nfts \ {n}) \cup {m} /\ ledger' = ledger
      BY <1>5 DEF GiveAway, rowVars
    <2> HIDE DEF m
    <2>3. Made'
      BY <2>1, <2>2, MadeStays DEF Made
    <2>4. RowsDone'
      BY <2>2, RowsStay DEF RowsDone
    <2>5. (\A e \in ledger : Delivered(e))'
      BY <2>1, <2>2, ChargedParts DEF DeliveryInv, Delivered
    <2>6. (\A x \in nfts : Paid(x))'
      BY <2>1, <2>2, ChargedParts DEF DeliveryInv, Paid
    <2>7. ChargedIffDelivered'
      BY <2>2, <2>5, <2>6, KnownStays DEF ChargedIffDelivered, Delivered, Paid, KnownPurchase
    <2>. QED  BY <1>1, <2>3, <2>4, <2>7 DEF DeliveryInv
  <1>. QED
    BY <1>2, <1>3, <1>4, <1>5, Writers

(***************************************************************************)
(* ChargedIffDelivered holds of every reachable state: charges and priced  *)
(* NFTs are the same purchases, and a replay names one that was charged.   *)
(***************************************************************************)
THEOREM ChargesAreDelivered == Spec => []ChargedIffDelivered
  <1>1. DeliveryInv => ChargedIffDelivered
    BY DEF DeliveryInv
  <1>. QED
    BY DeliveryInit, DeliveryStep, <1>1, PTL DEF Spec
-----------------------------------------------------------------------------
(***************************************************************************)
(* Mint counts.  The requests that brought a template's NFTs are never     *)
(* fewer than its count, and never fewer than what a handler that is still *)
(* going to save its count has in hand: what it read, and itself once its  *)
(* NFT is saved.  A purchase or mint that has saved no NFT is not among    *)
(* them, so its NFT and its count come to one more together.               *)
(***************************************************************************)
MakersIn(N, t) == {r \in Request : \E n \in N : n.by = r /\ n.template = t}
Makers(t) == MakersIn(nfts, t)

ReadIsBacked ==
    \A r \in Request :
        /\ pc[r] \in {"template", "lockWallet", "locked"} =>
             seen[r] <= Cardinality(Makers(op[r].template))
        /\ pc[r] = "minted" => seen[r] + 1 <= Cardinality(Makers(op[r].template))

CountInv ==
    /\ DeliveryInv
    /\ IsFiniteSet(nfts)
    /\ \A t \in Template : count[t] <= Cardinality(Makers(t))
    /\ ReadIsBacked

\* There are no more makers than NFTs.
LEMMA MakersAndNfts ==
    ASSUME NEW N \in SUBSET NftRow, IsFiniteSet(N), NEW t
    PROVE  /\ IsFiniteSet(MakersIn(N, t))
           /\ Cardinality(MakersIn(N, t)) \in Nat
           /\ Cardinality(MakersIn(N, t)) <= Cardinality({n \in N : n.template = t})
  <1> DEFINE S == {n \in N : n.template = t}
             f == [n \in S |-> n.by]
  <1>1. IsFiniteSet(S)
    BY FS_Subset, S \in SUBSET N
  <1>2. f \in Surjection(S, MakersIn(N, t))
    BY DEF Surjection, MakersIn, NftRow
  <1>3. IsFiniteSet(MakersIn(N, t)) /\ Cardinality(MakersIn(N, t)) <= Cardinality(S)
    BY <1>1, <1>2, FS_Surjection
  <1>. QED
    BY <1>3, FS_CardinalityType

\* A request that has saved no NFT is no maker.
LEMMA NotYetMaker ==
    ASSUME Made, NEW r \in Request, pc[r] \notin {"minted", "done"}, NEW t
    PROVE  r \notin Makers(t)
  BY DEF Made, Makers, MakersIn

\* A saved NFT makes its request a maker of its template.
LEMMA MakerJoins ==
    ASSUME CountInv, NEW r \in Request, pc[r] \notin {"idle", "minted", "done"}, NEW c, NEW k,
           nfts' = nfts \cup {Nft(r, c, k)}, op' = op
    PROVE  /\ Makers(op[r].template)' = Makers(op[r].template) \cup {r}
           /\ \A t : Makers(t) \subseteq Makers(t)'
           /\ IsFiniteSet(nfts')
           /\ Cardinality(Makers(op[r].template)') = Cardinality(Makers(op[r].template)) + 1
  <1>1. Makers(op[r].template)' = Makers(op[r].template) \cup {r}
    BY NftFields DEF Makers, MakersIn
  <1>2. \A t : Makers(t) \subseteq Makers(t)'
    BY DEF Makers, MakersIn
  <1>3. IsFiniteSet(nfts')
    BY FS_AddElement DEF CountInv
  <1>4. r \notin Makers(op[r].template) /\ IsFiniteSet(Makers(op[r].template))
    BY NotYetMaker, MakersAndNfts DEF CountInv, DeliveryInv, PosInv, TypeOK, Makers
  <1>. QED
    BY <1>1, <1>2, <1>3, <1>4, FS_AddElement

\* No step unmakes an NFT.
LEMMA MakersStay ==
    ASSUME CountInv, [Next]_vars
    PROVE  /\ IsFiniteSet(nfts')
           /\ \A t : /\ Makers(t) \subseteq Makers(t)'
                     /\ Cardinality(Makers(t)) \in Nat
                     /\ Cardinality(Makers(t)') \in Nat
                     /\ Cardinality(Makers(t)) <= Cardinality(Makers(t)')
  <1>1. IsFiniteSet(nfts') /\ \A t : Makers(t) \subseteq Makers(t)'
    <2>1. CASE UNCHANGED <<wallet, ledger, nfts>>
      BY <2>1 DEF CountInv, Makers, MakersIn
    <2>2. ASSUME NEW r \in Request, CommitPurchase(r) \/ MintNft(r)
          PROVE  IsFiniteSet(nfts') /\ \A t : Makers(t) \subseteq Makers(t)'
      BY <2>2, MakerJoins DEF CommitPurchase, MintNft, Buying, Answer, reqVars
    <2>3. ASSUME NEW n \in nfts, NEW w \in Wallet, GiveAway(n, w)
          PROVE  IsFiniteSet(nfts') /\ \A t : Makers(t) \subseteq Makers(t)'
      <3> DEFINE m == [n EXCEPT !.owner = w]
      <3>1. m.by = n.by /\ m.template = n.template
        BY Given DEF CountInv, DeliveryInv, PosInv, TypeOK
      <3>2. nfts' = (nfts \ {n}) \cup {m}
        BY <2>3 DEF GiveAway
      <3> HIDE DEF m
      <3>3. IsFiniteSet(nfts')
        BY <3>2, FS_RemoveElement, FS_AddElement DEF CountInv
      <3>4. \A t : Makers(t) \subseteq Makers(t)'
        BY <3>1, <3>2 DEF Makers, MakersIn
      <3>. QED  BY <3>3, <3>4
    <2>. QED  BY <2>1, <2>2, <2>3, Writers
  <1>2. nfts \in SUBSET NftRow /\ nfts' \in SUBSET NftRow /\ IsFiniteSet(nfts)
    BY PosStep DEF CountInv, DeliveryInv, PosInv, TypeOK
  <1>3. \A t : /\ IsFiniteSet(Makers(t)) /\ Cardinality(Makers(t)) \in Nat
               /\ IsFiniteSet(Makers(t)') /\ Cardinality(Makers(t)') \in Nat
    BY <1>1, <1>2, MakersAndNfts DEF Makers
  <1>4. \A t : Cardinality(Makers(t)) <= Cardinality(Makers(t)')
    BY <1>1, <1>3, FS_Subset
  <1>. QED  BY <1>1, <1>3, <1>4

Reading == {"template", "lockWallet", "locked"}

ReadBacked(q) ==
    /\ pc[q] \in Reading => seen[q] <= Cardinality(Makers(op[q].template))
    /\ pc[q] = "minted" => seen[q] + 1 <= Cardinality(Makers(op[q].template))

\* What a request has in hand stays backed while it reads nothing new.
LEMMA ReadStays ==
    ASSUME CountInv, [Next]_vars, NEW q \in Request, op'[q] = op[q], seen'[q] = seen[q],
           \/ pc'[q] \in {"idle", "sent", "done"}
           \/ pc[q] \in Reading /\ pc'[q] \in Reading
           \/ pc'[q] = pc[q]
    PROVE  ReadBacked(q)'
  <1>1. seen[q] \in Nat /\ ReadBacked(q)
    BY DEF CountInv, DeliveryInv, PosInv, TypeOK, ReadIsBacked, ReadBacked, Reading
  <1>2. Makers(op[q].template)' = MakersIn(nfts', op[q].template)
    BY DEF Makers
  <1>3. /\ Cardinality(Makers(op[q].template)) \in Nat
        /\ Cardinality(MakersIn(nfts', op[q].template)) \in Nat
        /\ Cardinality(Makers(op[q].template)) <= Cardinality(MakersIn(nfts', op[q].template))
    BY MakersStay DEF Makers
  <1>. QED
    BY <1>1, <1>2, <1>3 DEF ReadBacked, Reading

LEMMA CountStays ==
    ASSUME CountInv, [Next]_vars, NEW t \in Template, count'[t] = count[t]
    PROVE  count'[t] <= Cardinality(Makers(t)')
  BY MakersStay DEF CountInv, DeliveryInv, PosInv, TypeOK

LEMMA CountInvFrom ==
    ASSUME CountInv, [Next]_vars, \A q \in Request : ReadBacked(q)',
           \A t \in Template : count'[t] <= Cardinality(Makers(t)')
    PROVE  CountInv'
  BY DeliveryStep, MakersStay DEF CountInv, ReadIsBacked, ReadBacked, Reading

\* The count a request saves is backed by the NFT it has saved.
LEMMA SavedIsBacked ==
    ASSUME CountInv, [Next]_vars, NEW r \in Request, pc[r] # "idle", CountMint(r), op' = op,
           seen[r] + 1 <= Cardinality(Makers(op[r].template)')
    PROVE  \A t \in Template : count'[t] <= Cardinality(Makers(t)')
  <1> SUFFICES ASSUME NEW t \in Template
               PROVE  count'[t] <= Cardinality(Makers(t)')
    OBVIOUS
  <1>1. CASE t = op[r].template
    <2>1. count'[t] = seen[r] + 1
      BY <1>1 DEF CountMint, CountInv, DeliveryInv, PosInv, TypeOK
    <2>2. Makers(op[r].template)' = Makers(t)'
      BY <1>1 DEF Makers
    <2>. QED  BY <2>1, <2>2
  <1>2. CASE t # op[r].template
    BY <1>2, CountStays DEF CountMint, CountInv, DeliveryInv, PosInv, TypeOK
  <1>. QED  BY <1>1, <1>2

LEMMA CountInit == Init => CountInv
  <1> SUFFICES ASSUME Init PROVE CountInv
    OBVIOUS
  <1>1. DeliveryInv /\ nfts = {} /\ IsFiniteSet(nfts)
    BY DeliveryInit, FS_EmptySet DEF Init
  <1>2. \A t : Cardinality(Makers(t)) = 0
    BY <1>1, FS_EmptySet DEF Makers, MakersIn
  <1>. QED
    BY <1>1, <1>2 DEF Init, CountInv, ReadIsBacked

LEMMA CountStep == CountInv /\ [Next]_vars => CountInv'
  <1> SUFFICES ASSUME CountInv, [Next]_vars
               PROVE  CountInv'
    OBVIOUS
  <1>0. TypeOK /\ PosInv /\ Asked
    BY DEF CountInv, DeliveryInv, PosInv
  <1>1. ASSUME NEW r \in Request, NEW o \in Operation, Send(r, o)
        PROVE  CountInv'
    <2>1. \A q \in Request : ReadBacked(q)'
      <3>1. /\ pc'[r] = "sent" /\ seen' = seen
            /\ \A q \in Request \ {r} : pc'[q] = pc[q] /\ op'[q] = op[q]
        BY <1>0, <1>1 DEF Send, Goto, TypeOK
      <3>2. ReadBacked(r)'
        BY <3>1 DEF ReadBacked, Reading
      <3>. QED  BY <3>1, <3>2, ReadStays
    <2>. QED  BY <1>1, <2>1, CountStays, CountInvFrom DEF Send
  <1>2. ASSUME NEW r \in Request, ReadTemplate(r)
        PROVE  CountInv'
    <2>1. /\ pc'[r] = "template" /\ seen'[r] = count[op[r].template] /\ op' = op
          /\ \A q \in Request \ {r} : pc'[q] = pc[q] /\ seen'[q] = seen[q]
      BY <1>0, <1>2 DEF ReadTemplate, Goto, TypeOK
    <2>2. op[r].template \in Template /\ nfts' = nfts /\ count' = count
      BY <1>0, <1>2, OpFields DEF ReadTemplate
    <2>3. ReadBacked(r)'
      BY <2>1, <2>2 DEF ReadBacked, Reading, Makers, CountInv
    <2>. QED  BY <2>1, <2>2, <2>3, ReadStays, CountStays, CountInvFrom
  <1>3. ASSUME NEW r \in Request, LookUpPurchase(r) \/ LockWallet(r)
        PROVE  CountInv'
    <2>1. /\ pc[r] \in Reading /\ pc'[r] \in Reading /\ op' = op /\ seen' = seen
          /\ \A q \in Request \ {r} : pc'[q] = pc[q]
          /\ count' = count
      BY <1>0, <1>3
         DEF LookUpPurchase, LockWallet, Buying, Goto, reqVars, TypeOK, Reading
    <2>2. \A q \in Request : ReadBacked(q)'
      BY <2>1, ReadStays
    <2>. QED  BY <2>1, <2>2, CountStays, CountInvFrom
  <1>4. ASSUME NEW r \in Request, CommitPurchase(r)
        PROVE  CountInv'
    <2>1. /\ pc[r] = "locked" /\ pc'[r] = "done" /\ op' = op /\ seen' = seen
          /\ \A q \in Request \ {r} : pc'[q] = pc[q]
          /\ CountMint(r)
          /\ nfts' = nfts \cup {Nft(r, Price(r), PurchaseKey(r))}
      BY <1>0, <1>4 DEF CommitPurchase, Buying, Answer, reqVars, TypeOK
    <2>2. \A q \in Request : ReadBacked(q)'
      BY <2>1, ReadStays
    <2>3. seen[r] + 1 <= Cardinality(Makers(op[r].template)')
      <3>1. Cardinality(Makers(op[r].template)') = Cardinality(Makers(op[r].template)) + 1
        BY <2>1, MakerJoins
      <3>2. seen[r] <= Cardinality(Makers(op[r].template)) /\ seen[r] \in Nat
        BY <1>0, <2>1 DEF CountInv, ReadIsBacked, TypeOK
      <3>. QED  BY <3>1, <3>2, MakersStay
    <2>. QED  BY <2>1, <2>2, <2>3, SavedIsBacked, CountInvFrom
  <1>5. ASSUME NEW r \in Request, MintNft(r)
        PROVE  CountInv'
    <2>1. /\ pc[r] = "template" /\ pc'[r] = "minted" /\ op' = op /\ seen' = seen
          /\ \A q \in Request \ {r} : pc'[q] = pc[q]
          /\ count' = count /\ nfts' = nfts \cup {Nft(r, 0, NoKey)}
      BY <1>0, <1>5 DEF MintNft, Goto, reqVars, TypeOK
    <2>2. seen[r] + 1 <= Cardinality(Makers(op[r].template)')
      <3>1. Cardinality(Makers(op[r].template)') = Cardinality(Makers(op[r].template)) + 1
        BY <2>1, MakerJoins
      <3>2. seen[r] <= Cardinality(Makers(op[r].template)) /\ seen[r] \in Nat
        BY <1>0, <2>1 DEF CountInv, ReadIsBacked, TypeOK
      <3>. QED  BY <3>1, <3>2, MakersStay
    <2>3. ReadBacked(r)'
      <3>1. pc'[r] \notin Reading
        BY <2>1 DEF Reading
      <3>2. (seen[r] + 1 <= Cardinality(Makers(op[r].template)))'
        BY <2>1, <2>2
      <3>. QED  BY <3>1, <3>2 DEF ReadBacked
    <2>4. \A q \in Request : ReadBacked(q)'
      BY <2>1, <2>3, ReadStays
    <2>. QED  BY <2>1, <2>4, CountStays, CountInvFrom
  <1>6. ASSUME NEW r \in Request, MintCounted(r)
        PROVE  CountInv'
    <2>1. /\ pc[r] = "minted" /\ pc'[r] = "done" /\ op' = op /\ seen' = seen
          /\ \A q \in Request \ {r} : pc'[q] = pc[q]
          /\ CountMint(r) /\ nfts' = nfts
      BY <1>0, <1>6 DEF MintCounted, Answer, reqVars, TypeOK
    <2>2. \A q \in Request : ReadBacked(q)'
      BY <2>1, ReadStays
    <2>3. seen[r] + 1 <= Cardinality(Makers(op[r].template)')
      <3>1. Makers(op[r].template)' = Makers(op[r].template)
        BY <2>1 DEF Makers
      <3>. QED  BY <2>1, <3>1 DEF CountInv, ReadIsBacked
    <2>. QED  BY <2>1, <2>2, <2>3, SavedIsBacked, CountInvFrom
  <1>7. ASSUME NEW r \in Request, Ends(r)
        PROVE  CountInv'
    <2>1. /\ pc'[r] = "done" /\ op' = op /\ seen' = seen
          /\ \A q \in Request \ {r} : pc'[q] = pc[q]
          /\ count' = count
      BY <1>0, <1>7, EndsAnswers DEF Answer, reqVars, TypeOK
    <2>2. \A q \in Request : ReadBacked(q)'
      BY <2>1, ReadStays
    <2>. QED  BY <2>1, <2>2, CountStays, CountInvFrom
  <1>8. CASE UNCHANGED <<count, op, pc, seen>>
    <2>1. \A q \in Request : ReadBacked(q)'
      BY <1>8, ReadStays
    <2>. QED  BY <1>8, <2>1, CountStays, CountInvFrom
  <1>9. ASSUME NEW n \in nfts, NEW w \in Wallet, GiveAway(n, w)
        PROVE  UNCHANGED <<count, op, pc, seen>>
    BY <1>9 DEF GiveAway, reqVars
  <1>10. CASE AllAnswered \/ UNCHANGED vars
    BY <1>8, <1>10 DEF AllAnswered, vars
  <1>. QED
    BY <1>1, <1>2, <1>3, <1>4, <1>5, <1>6, <1>7, <1>8, <1>9, <1>10
       DEF Next, Handle, Ends

(***************************************************************************)
(* CountIsBacked holds of every reachable state: no template counts more   *)
(* mints than it has NFTs, however mints and purchases overwrite each      *)
(* other's counts and wherever they stop.                                  *)
(***************************************************************************)
THEOREM CountsAreBacked == Spec => []CountIsBacked
  <1>1. CountInv => CountIsBacked
    <2> SUFFICES ASSUME CountInv, NEW t \in Template
                 PROVE  count[t] <= Cardinality({n \in nfts : n.template = t})
      BY DEF CountIsBacked
    <2>1. nfts \in SUBSET NftRow /\ IsFiniteSet(nfts) /\ count[t] \in Nat
      BY DEF CountInv, DeliveryInv, PosInv, TypeOK
    <2>2. IsFiniteSet({n \in nfts : n.template = t})
      BY <2>1, FS_Subset, {n \in nfts : n.template = t} \in SUBSET nfts
    <2>3. Cardinality({n \in nfts : n.template = t}) \in Nat
      BY <2>2, FS_CardinalityType
    <2>. QED
      BY <2>1, <2>3, MakersAndNfts DEF CountInv, Makers
  <1>. QED
    BY CountInit, CountStep, <1>1, PTL DEF Spec
-----------------------------------------------------------------------------
(***************************************************************************)
(* Purchases are payments.  A purchase computes the new balance from a     *)
(* copy of the wallet it read with the row's lock, and while it holds the  *)
(* lock nobody else writes the row.                                        *)
(***************************************************************************)
WalletHeld ==
    \A r \in Request :
        pc[r] = "locked" => /\ lock[op[r].player] = r
                            /\ snap[r] = wallet[op[r].player]

HeldInv == DeliveryInv /\ RowsSound /\ WalletHeld

LEMMA HeldInit == Init => HeldInv
  BY DeliveryInit, OpeningSound DEF HeldInv, RowsSound, WalletHeld, Init, RowsInit

\* The end of one request leaves the locks and copies of the others alone.
LEMMA OthersHold ==
    ASSUME HeldInv, NEW r \in Request, NEW a, Answer(r, a), pc[r] # "idle",
           \A v \in Wallet : wallet'[v] = wallet[v] \/ lock[v] = r
    PROVE  WalletHeld'
  <1> SUFFICES ASSUME NEW q \in Request, pc'[q] = "locked"
               PROVE  lock'[op'[q].player] = q /\ snap'[q] = wallet'[op'[q].player]
    BY DEF WalletHeld
  <1>1. q # r /\ pc[q] = "locked" /\ op' = op /\ snap' = snap
    BY DEF Answer, reqVars, HeldInv, DeliveryInv, PosInv, TypeOK
  <1>2. op[q].player \in Wallet
    BY <1>1, OpFields DEF HeldInv, DeliveryInv, PosInv
  <1>3. lock[op[q].player] = q /\ snap[q] = wallet[op[q].player]
    BY <1>1 DEF HeldInv, WalletHeld
  <1>. QED
    BY <1>1, <1>2, <1>3 DEF Answer, Unlocked

LEMMA HeldStep == HeldInv /\ [Next]_vars => HeldInv'
  <1> SUFFICES ASSUME HeldInv, [Next]_vars
               PROVE  HeldInv'
    OBVIOUS
  <1>0. PosInv /\ TypeOK /\ Asked
    BY DEF HeldInv, DeliveryInv, PosInv
  <1>1. DeliveryInv'
    BY DeliveryStep DEF HeldInv
  <1>2. ASSUME NEW r \in Request, NEW s, Goto(r, s), s # "locked",
               UNCHANGED <<wallet, lock, snap>>,
               \A q \in Request : pc[q] # "idle" => op'[q] = op[q]
        PROVE  HeldInv'
    BY <1>0, <1>1, <1>2 DEF HeldInv, RowsSound, WalletHeld, Goto, TypeOK
  <1>3. ASSUME NEW r \in Request, NEW o \in Operation, Send(r, o)
        PROVE  HeldInv'
    BY <1>0, <1>2, <1>3 DEF Send, rowVars, TypeOK
  <1>4. ASSUME NEW r \in Request, ReadTemplate(r) \/ LookUpPurchase(r) \/ MintNft(r)
        PROVE  HeldInv'
    BY <1>2, <1>4 DEF ReadTemplate, LookUpPurchase, MintNft, rowVars, reqVars
  <1>5. ASSUME NEW r \in Request, LockWallet(r)
        PROVE  HeldInv'
    <2>1. /\ op' = op /\ wallet' = wallet /\ lock[op[r].player] \in {Free, r}
          /\ lock' = [lock EXCEPT ![op[r].player] = r]
          /\ snap' = [snap EXCEPT ![r] = wallet[op[r].player]]
          /\ \A q \in Request \ {r} : pc'[q] = pc[q]
          /\ pc[r] # "idle"
      BY <1>0, <1>5 DEF LockWallet, LockRow, Goto, Buying, TypeOK
    <2>2. op[r].player \in Wallet
      BY <1>0, <2>1, OpFields
    <2>3. ASSUME NEW q \in Request, pc'[q] = "locked"
          PROVE  lock'[op[q].player] = q /\ snap'[q] = wallet[op[q].player]
      <3>1. CASE q = r
        BY <1>0, <2>1, <2>2, <3>1 DEF TypeOK
      <3>2. CASE q # r
        <4>1. pc[q] = "locked" /\ op[q].player \in Wallet
          BY <1>0, <2>1, <2>3, <3>2, OpFields
        <4>2. lock[op[q].player] = q /\ snap[q] = wallet[op[q].player]
          BY <4>1 DEF HeldInv, WalletHeld
        <4>3. op[q].player # op[r].player
          BY <2>1, <3>2, <4>2, GameWalletAssumption
        <4>. QED
          BY <1>0, <2>1, <3>2, <4>1, <4>2, <4>3 DEF TypeOK
      <3>. QED  BY <3>1, <3>2
    <2>. QED
      BY <1>1, <2>1, <2>3 DEF HeldInv, RowsSound, WalletHeld
  <1>6. ASSUME NEW r \in Request, CommitPurchase(r)
        PROVE  HeldInv'
    <2>1. /\ op[r].player \in Wallet /\ Price(r) \in Nat /\ pc[r] # "idle"
          /\ lock[op[r].player] = r /\ snap[r] = wallet[op[r].player]
          /\ Covers(snap[r], Price(r))
      BY <1>0, <1>6, OpFields DEF CommitPurchase, Buying, HeldInv, WalletHeld
    <2>2. Sound(Debited(snap[r], Price(r)))
      BY <1>0, <2>1, DebitedSound DEF HeldInv, RowsSound, TypeOK
    <2>3. wallet' = [wallet EXCEPT ![op[r].player] = Debited(snap[r], Price(r))]
      BY <1>6 DEF CommitPurchase
    <2>4. RowsSound'
      BY <1>0, <2>1, <2>2, <2>3 DEF HeldInv, RowsSound, TypeOK
    <2>5. \A v \in Wallet : wallet'[v] = wallet[v] \/ lock[v] = r
      BY <1>0, <2>1, <2>3 DEF TypeOK
    <2>6. WalletHeld'
      BY <1>6, <2>1, <2>5, OthersHold DEF CommitPurchase
    <2>. QED  BY <1>1, <2>4, <2>6 DEF HeldInv
  <1>7. ASSUME NEW r \in Request, MintCounted(r) \/ Ends(r)
        PROVE  HeldInv'
    <2>1. /\ pc[r] # "idle" /\ wallet' = wallet
          /\ \E a : Answer(r, a)
      BY <1>7, EndsAnswers DEF MintCounted
    <2>. QED  BY <1>1, <2>1, OthersHold DEF HeldInv, RowsSound
  <1>8. CASE UNCHANGED <<wallet, lock, op, pc, snap>>
    BY <1>1, <1>8 DEF HeldInv, RowsSound, WalletHeld
  <1>9. ASSUME NEW n \in nfts, NEW w \in Wallet, GiveAway(n, w)
        PROVE  HeldInv'
    BY <1>8, <1>9 DEF GiveAway, rowVars, reqVars
  <1>10. CASE AllAnswered \/ UNCHANGED vars
    BY <1>8, <1>10 DEF AllAnswered, vars
  <1>. QED
    BY <1>3, <1>4, <1>5, <1>6, <1>7, <1>9, <1>10 DEF Next, Handle, Ends

\* The COMMIT of a purchase spends its price once, with its key.
LEMMA CommitSpends ==
    ASSUME HeldInv, NEW r \in Request, CommitPurchase(r)
    PROVE  Book!Next
  <1> DEFINE w == op[r].player
             m == Micro(Price(r))
             balance == [v \in Wallet |-> wallet[v].balance]
             Post(e) == [by |-> e.by, wallet |-> e.wallet, change |-> -Micro(e.amount)]
             posted == {Post(e) : e \in ledger}
             k == PurchaseKey(r)
  <1>1. /\ TypeOK /\ pc[r] = "locked" /\ w \in Wallet /\ op[r].template \in Template
        /\ Price(r) \in Nat /\ op[r].key \in Key \cup {NoKey}
    BY OpFields DEF CommitPurchase, Buying, HeldInv, DeliveryInv, PosInv
  <1>2. snap[r] = wallet[w] /\ wallet[w] \in Row /\ Sound(wallet[w])
    BY <1>1 DEF HeldInv, WalletHeld, RowsSound, TypeOK
  <1>3. /\ wallet'[w].balance = wallet[w].balance - m
        /\ m <= wallet[w].balance
    <2>1. Covers(wallet[w], Price(r)) /\ wallet'[w] = Debited(wallet[w], Price(r))
      BY <1>1, <1>2 DEF CommitPurchase, TypeOK
    <2>2. Debited(wallet[w], Price(r)).balance = wallet[w].balance - m
      BY <1>1, <1>2, <2>1, DebitedSound
    <2>3. m <= wallet[w].balance
      BY <1>1, <1>2, <2>1, MicroCovered DEF Covers, Sound
    <2>. QED  BY <2>1, <2>2, <2>3
  <1>4. \A v \in Wallet \ {w} : wallet'[v] = wallet[v]
    BY <1>1 DEF CommitPurchase, TypeOK
  <1>5. \A v \in Wallet : balance'[v] = IF v = w THEN balance[w] - m ELSE balance[v]
    BY <1>1, <1>3, <1>4
  <1>6. balance' = [balance EXCEPT ![w] = balance[w] - m] /\ m <= balance[w]
    <2>1. balance' = [balance EXCEPT ![w] = balance[w] - m]
      <3> HIDE DEF w, m
      <3>. QED  BY <1>1, <1>5
    <2>. QED  BY <1>1, <1>3, <2>1
  <1>7. m \in {Micro(Cost[t]) : t \in Template}
    BY <1>1 DEF Price
  <1>8. k \in (Key \X {"plain"}) \cup {NoKey}
    BY <1>1 DEF PurchaseKey
  <1>9. k \notin UsedKeys /\ UsedKeys' = UsedKeys \cup ({k} \ {NoKey})
    <2>1. k \notin UsedKeys
      BY DEF CommitPurchase, KeyUsed, PurchaseKey, UsedKeys
    <2>2. ledger' = ledger \cup {PurchaseEntry(r)} /\ PurchaseEntry(r).operationKey = k
      BY EntryFields DEF CommitPurchase
    <2> HIDE DEF k
    <2>. QED  BY <2>1, <2>2 DEF UsedKeys
  <1>10. posted' = posted \cup {[by |-> r, wallet |-> w, change |-> -m]}
    <2>1. Post(PurchaseEntry(r)) = [by |-> r, wallet |-> w, change |-> -m]
      BY EntryFields
    <2>2. ledger' = ledger \cup {PurchaseEntry(r)}
      BY DEF CommitPurchase
    <2>3. posted' = {Post(e) : e \in ledger'}
      OBVIOUS
    <2> HIDE DEF Post, w, m
    <2>. QED  BY <2>1, <2>2, <2>3
  <1>11. \A p \in posted : p.by # r
    BY <1>1 DEF HeldInv, DeliveryInv, RowsDone
  <1> DEFINE Prices == {Micro(Cost[t]) : t \in Template}
             Keys == (Key \X {"plain"}) \cup {NoKey}
  <1>12. PICK ww \in Wallet, mm \in Prices, kk \in Keys : ww = w /\ mm = m /\ kk = k
    BY <1>1, <1>7, <1>8
  <1>13. Book!Spend(r, ww, mm, kk)
    <2> HIDE DEF balance, posted, w, m, k, Prices, Keys
    <2>1. Book!Use(r, kk)
      BY <1>9, <1>11, <1>12 DEF Book!Use, posted, Post
    <2>. QED
      BY <1>6, <1>10, <1>12, <2>1 DEF Book!Spend, Book!Posting, balance, posted, Post
  <1>. QED
    BY <1>13 DEF Book!Next

\* Nothing but a purchase moves money.
LEMMA RowWriters ==
    ASSUME [Next]_vars
    PROVE  (\E r \in Request : CommitPurchase(r)) \/ UNCHANGED <<wallet, ledger>>
  BY Writers DEF MintNft, GiveAway, rowVars

(***************************************************************************)
(* PurchasesImplementBook: every behaviour of the shop is one of the       *)
(* atomic book, in which a purchase takes its price from the balance of    *)
(* that moment, never more than there is, and a key pays once.             *)
(***************************************************************************)
THEOREM PurchasesRefineBook == Spec => PurchasesImplementBook
  <1>1. Init => Book!Init
    BY DEF Init, RowsInit, OpeningRow, UsedKeys, Book!Init
  <1>2. HeldInv /\ [Next]_vars => [Book!Next]_(Book!vars)
    <2> SUFFICES ASSUME HeldInv, [Next]_vars
                 PROVE  [Book!Next]_(Book!vars)
      OBVIOUS
    <2>1. CASE \E r \in Request : CommitPurchase(r)
      BY <2>1, CommitSpends
    <2>2. CASE UNCHANGED <<wallet, ledger>>
      BY <2>2 DEF Book!vars, UsedKeys
    <2>. QED  BY <2>1, <2>2, RowWriters
  <1>. QED
    BY <1>1, <1>2, HeldInit, HeldStep, PTL
       DEF Spec, PurchasesImplementBook, Book!Spec
=============================================================================
