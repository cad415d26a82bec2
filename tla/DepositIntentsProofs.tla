------------------------ MODULE DepositIntentsProofs ------------------------
(***************************************************************************)
(* Proofs about DepositIntents for every set of wallets, intents,          *)
(* transactions, spellings of their hashes, requests and keys.             *)
(***************************************************************************)
EXTENDS DepositIntents, GameWalletRowsProofs

(***************************************************************************)
(* The inductive invariant.  A confirmation past its FOR UPDATE holds the  *)
(* lock of its intent, which is still PENDING and its player's; past the   *)
(* RPC node it has a transaction that paid.  Only a CONFIRMED intent has a *)
(* hash, and no two have the same string.                                  *)
(***************************************************************************)
Busy == {"verify", "lockWallet", "locked"}

Asked == \A r \in Request : pc[r] # "idle" => op[r] \in Confirmation

BusyHolds ==
    \A r \in Request :
        pc[r] \in Busy =>
            /\ ilock[op[r].intent] = r
            /\ intent[op[r].intent].status = "PENDING"
            /\ Owner[op[r].intent] = op[r].wallet

CheckedPaid ==
    \A r \in Request : pc[r] \in {"lockWallet", "locked"} => PaidOnChain(r)

OnlyConfirmedHasTx ==
    \A i \in Intent : intent[i].status # "CONFIRMED" => intent[i].txHash = NoHash

TxNamesIntent ==
    \A i, j \in Intent :
        /\ intent[i].status = "CONFIRMED"
        /\ intent[j].status = "CONFIRMED"
        /\ intent[i].txHash = intent[j].txHash
        => i = j

PosInv == TypeOK /\ Asked /\ BusyHolds

PayInv == PosInv /\ CheckedPaid /\ OnlyConfirmedHasTx /\ TxNamesIntent
                 /\ CreditMatchesIntent /\ CreditWasPaid

LEMMA OpFields ==
    ASSUME Asked, NEW r \in Request, pc[r] # "idle"
    PROVE  /\ op[r] \in Confirmation
           /\ op[r].intent \in Intent
           /\ op[r].hash \in Hash
           /\ op[r].wallet \in Wallet
           /\ op[r].key \in OperationKey \cup {NoKey}
           /\ IntentAmount[op[r].intent] \in Nat
  BY DepositIntentsAssumption DEF Asked, Confirm

LEMMA CreditedType ==
    ASSUME NEW row \in Row, NEW a \in Nat
    PROVE  Credited(row, a) \in Row
  <1>1. \A x \in Int : Micro(x) \in Int
    BY DEF Micro
  <1>. QED
    BY <1>1 DEF Credited, SafeAdd, Row

LEMMA EntryType ==
    ASSUME Asked, NEW r \in Request, pc[r] # "idle"
    PROVE  /\ DepositEntry(r).by \in Request
           /\ DepositEntry(r).wallet = op[r].wallet
           /\ DepositEntry(r).amount = IntentAmount[op[r].intent]
           /\ DepositEntry(r).operationKey = op[r].key
           /\ DepositEntry(r).intentId = op[r].intent
           /\ DepositEntry(r).txHash = op[r].hash
  BY DEF DepositEntry

-----------------------------------------------------------------------------
(***************************************************************************)
(* Types and positions.                                                    *)
(***************************************************************************)
LEMMA PosInit == Init => PosInv
  <1> SUFFICES ASSUME Init PROVE PosInv
    OBVIOUS
  <1>1. wallet \in [Wallet -> Row]
    BY OpeningSound DEF Init, RowsInit
  <1>2. snap \in [Request -> Row]
    BY EmptySound DEF Init
  <1>. QED
    BY <1>1, <1>2
       DEF Init, RowsInit, PosInv, TypeOK, Asked, BusyHolds, Busy, Status, Step, Reply

LEMMA AnswerPos ==
    ASSUME PosInv, NEW r \in Request, NEW a \in Reply, Answer(r, a), pc[r] # "idle",
           wallet' \in [Wallet -> Row],
           intent' \in [Intent -> [status : Status, txHash : Hash \cup {NoHash}]],
           \A e \in ledger' :
              /\ e.by \in Request
              /\ e.wallet \in Wallet
              /\ e.amount \in Nat
              /\ e.operationKey \in OperationKey \cup {NoKey}
              /\ e.intentId \in Intent
              /\ e.txHash \in Hash,
           \A i \in Intent : intent'[i] = intent[i] \/ ilock[i] \in {Free, r}
    PROVE  PosInv'
  <1>1. /\ op' = op /\ pc'[r] = "done"
        /\ \A q \in Request \ {r} : pc'[q] = pc[q]
    BY DEF Answer, Goto, PosInv, TypeOK
  <1>2. TypeOK'
    BY DEF Answer, Goto, Unlocked, PosInv, TypeOK, Step
  <1>3. Asked'
    BY <1>1 DEF PosInv, Asked
  <1>4. BusyHolds'
    <2> SUFFICES ASSUME NEW q \in Request, pc'[q] \in Busy
                 PROVE  /\ ilock'[op'[q].intent] = q
                        /\ intent'[op'[q].intent].status = "PENDING"
                        /\ Owner[op'[q].intent] = op'[q].wallet
      BY DEF BusyHolds
    <2>1. q # r /\ pc[q] = pc'[q] /\ op'[q] = op[q]
      BY <1>1 DEF Busy
    <2>2. op[q].intent \in Intent
      BY <2>1, OpFields DEF PosInv, Busy
    <2>3. /\ ilock[op[q].intent] = q
          /\ intent[op[q].intent].status = "PENDING"
          /\ Owner[op[q].intent] = op[q].wallet
      BY <2>1 DEF PosInv, BusyHolds
    <2>4. q # Free
      BY GameWalletAssumption
    <2>. QED
      BY <2>1, <2>2, <2>3, <2>4 DEF Answer
  <1>. QED  BY <1>2, <1>3, <1>4 DEF PosInv

LEMMA PosStep == PosInv /\ [Next]_vars => PosInv'
  <1> SUFFICES ASSUME PosInv, [Next]_vars
               PROVE  PosInv'
    OBVIOUS
  <1> USE DEF PosInv
  <1>1. ASSUME NEW i \in Intent, CreateIntent(i)
        PROVE  PosInv'
    <2>1. TypeOK'
      BY <1>1 DEF CreateIntent, rowVars, TypeOK, Status
    <2>2. BusyHolds'
      BY <1>1, OpFields DEF CreateIntent, TypeOK, BusyHolds, Busy
    <2>. QED  BY <1>1, <2>1, <2>2 DEF CreateIntent, Asked
  <1>2. ASSUME NEW i \in Intent, TimePasses(i)
        PROVE  PosInv'
    BY <1>2 DEF TimePasses, rowVars, TypeOK, Asked, BusyHolds
  <1>3. ASSUME NEW t \in Tx, Mine(t)
        PROVE  PosInv'
    BY <1>3 DEF Mine, rowVars, TypeOK, Asked, BusyHolds
  <1>4. ASSUME NEW r \in Request, NEW o \in Confirmation, Send(r, o)
        PROVE  PosInv'
    BY <1>4 DEF Send, Goto, rowVars, TypeOK, Asked, BusyHolds, Busy, Step
  <1>5. ASSUME NEW r \in Request, LockIntent(r)
        PROVE  PosInv'
    <2>1. op[r].intent \in Intent
      BY <1>5, OpFields DEF LockIntent, AtIntent
    <2>2. TypeOK'
      BY <1>5, <2>1 DEF LockIntent, Goto, rowVars, TypeOK, Step
    <2>3. Asked'
      BY <1>5 DEF LockIntent, AtIntent, Goto, TypeOK, Asked
    <2>4. BusyHolds'
      BY <1>5, <2>1, GameWalletAssumption
         DEF LockIntent, AtIntent, Visible, Goto, TypeOK, BusyHolds, Busy
    <2>. QED  BY <2>2, <2>3, <2>4
  <1>6. ASSUME NEW r \in Request, Verify(r)
        PROVE  PosInv'
    BY <1>6 DEF Verify, Goto, rowVars, TypeOK, Asked, BusyHolds, Busy, Step
  <1>7. ASSUME NEW r \in Request, LockWallet(r)
        PROVE  PosInv'
    <2>1. op[r].wallet \in Wallet
      BY <1>7, OpFields DEF LockWallet
    <2>2. TypeOK'
      BY <1>7, <2>1 DEF LockWallet, LockRow, Goto, TypeOK, Step
    <2>3. Asked' /\ BusyHolds'
      BY <1>7 DEF LockWallet, Goto, TypeOK, Asked, BusyHolds, Busy
    <2>. QED  BY <2>2, <2>3
  <1>8. ASSUME NEW r \in Request, CommitDeposit(r)
        PROVE  PosInv'
    <2>1. /\ op[r].wallet \in Wallet /\ op[r].intent \in Intent /\ op[r].hash \in Hash
          /\ op[r].key \in OperationKey \cup {NoKey}
          /\ IntentAmount[op[r].intent] \in Nat
      BY <1>8, OpFields DEF CommitDeposit
    <2>2. wallet' \in [Wallet -> Row]
      BY <1>8, <2>1, CreditedType DEF CommitDeposit, TypeOK
    <2>3. intent' \in [Intent -> [status : Status, txHash : Hash \cup {NoHash}]]
      BY <1>8, <2>1 DEF CommitDeposit, TypeOK, Status
    <2>4. \A e \in ledger' :
              /\ e.by \in Request
              /\ e.wallet \in Wallet
              /\ e.amount \in Nat
              /\ e.operationKey \in OperationKey \cup {NoKey}
              /\ e.intentId \in Intent
              /\ e.txHash \in Hash
      BY <1>8, <2>1, EntryType DEF CommitDeposit, TypeOK
    <2>5. \A i \in Intent : intent'[i] = intent[i] \/ ilock[i] = r
      BY <1>8, <2>1 DEF CommitDeposit, TypeOK, BusyHolds, Busy
    <2>. QED
      BY <1>8, <2>2, <2>3, <2>4, <2>5, AnswerPos DEF CommitDeposit, Reply
  <1>9. ASSUME NEW r \in Request, Expire(r)
        PROVE  PosInv'
    <2>1. pc[r] # "idle" /\ op[r].intent \in Intent /\ ilock[op[r].intent] = Free
      BY <1>9, OpFields DEF Expire, AtIntent
    <2>2. intent' \in [Intent -> [status : Status, txHash : Hash \cup {NoHash}]]
      BY <1>9, <2>1 DEF Expire, TypeOK, Status
    <2>3. \A i \in Intent : intent'[i] = intent[i] \/ ilock[i] = Free
      BY <1>9, <2>1 DEF Expire, TypeOK
    <2>. QED
      BY <1>9, <2>1, <2>2, <2>3, AnswerPos DEF Expire, TypeOK, Reply
  <1>10. ASSUME NEW r \in Request,
                \/ NotFound(r) \/ Replayed(r) \/ NotPending(r) \/ Reject(r)
                \/ TxDuplicate(r) \/ KeyDuplicate(r) \/ Fail(r)
         PROVE  PosInv'
    <2>1. PICK a \in Reply : Answer(r, a) /\ RolledBack /\ pc[r] # "idle"
      BY <1>10
         DEF NotFound, Replayed, NotPending, Reject, TxDuplicate, KeyDuplicate, Fail,
             AtIntent, Reply
    <2>. QED
      BY <2>1, AnswerPos DEF RolledBack, TypeOK
  <1>11. CASE UNCHANGED vars
    BY <1>11 DEF vars, TypeOK, Asked, BusyHolds, Visible
  <1>. QED
    BY <1>1, <1>2, <1>3, <1>4, <1>5, <1>6, <1>7, <1>8, <1>9, <1>10, <1>11
       DEF Next, Handle, AllAnswered

\* Every variable keeps its type in every reachable state.
THEOREM TypeCorrect == Spec => []TypeOK
  <1>1. PosInv => TypeOK
    BY DEF PosInv
  <1>. QED
    BY PosInit, PosStep, <1>1, PTL DEF Spec
-----------------------------------------------------------------------------
(***************************************************************************)
(* Which steps write intents and ledger rows.                              *)
(***************************************************************************)
LEMMA IntentWriters ==
    ASSUME PosInv, [Next]_vars
    PROVE  \/ UNCHANGED <<intent, ledger>>
           \/ \E i \in Intent : CreateIntent(i)
           \/ \E r \in Request : Expire(r) \/ CommitDeposit(r)
  <1>1. ASSUME NEW r \in Request,
               \/ NotFound(r) \/ Replayed(r) \/ NotPending(r) \/ Reject(r)
               \/ TxDuplicate(r) \/ KeyDuplicate(r) \/ Fail(r)
               \/ LockIntent(r) \/ Verify(r) \/ LockWallet(r)
        PROVE  UNCHANGED <<intent, ledger>>
    BY <1>1
       DEF NotFound, Replayed, NotPending, Reject, TxDuplicate, KeyDuplicate, Fail,
           LockIntent, Verify, LockWallet, RolledBack, rowVars
  <1>2. ASSUME NEW i \in Intent, TimePasses(i)
        PROVE  UNCHANGED <<intent, ledger>>
    BY <1>2 DEF TimePasses, rowVars
  <1>3. ASSUME NEW t \in Tx, Mine(t)
        PROVE  UNCHANGED <<intent, ledger>>
    BY <1>3 DEF Mine, rowVars
  <1>4. ASSUME NEW r \in Request, NEW o \in Confirmation, Send(r, o)
        PROVE  UNCHANGED <<intent, ledger>>
    BY <1>4 DEF Send, rowVars
  <1>5. CASE UNCHANGED vars
    BY <1>5 DEF vars
  <1>. QED
    BY <1>1, <1>2, <1>3, <1>4, <1>5 DEF Next, Handle, AllAnswered

\* Nothing leaves the chain.
LEMMA MinedGrows ==
    ASSUME [Next]_vars
    PROVE  mined \subseteq mined'
  <1>1. ASSUME NEW r \in Request, NEW a, Answer(r, a)
        PROVE  mined' = mined
    BY <1>1 DEF Answer
  <1>2. ASSUME NEW r \in Request, Handle(r) \/ Fail(r)
        PROVE  mined' = mined
    <2>1. CASE LockIntent(r) \/ Verify(r) \/ LockWallet(r)
      BY <2>1 DEF LockIntent, Verify, LockWallet
    <2>2. CASE \/ NotFound(r) \/ Replayed(r) \/ NotPending(r) \/ Reject(r) \/ Fail(r)
               \/ TxDuplicate(r) \/ KeyDuplicate(r) \/ Expire(r) \/ CommitDeposit(r)
      BY <2>2, <1>1
         DEF NotFound, Replayed, NotPending, Reject, TxDuplicate, KeyDuplicate, Fail,
             Expire, CommitDeposit
    <2>. QED  BY <1>2, <2>1, <2>2 DEF Handle
  <1>3. ASSUME NEW i \in Intent, CreateIntent(i) \/ TimePasses(i)
        PROVE  mined' = mined
    BY <1>3 DEF CreateIntent, TimePasses
  <1>4. ASSUME NEW r \in Request, NEW o \in Confirmation, Send(r, o)
        PROVE  mined' = mined
    BY <1>4 DEF Send
  <1>5. ASSUME NEW t \in Tx, Mine(t)
        PROVE  mined \subseteq mined'
    BY <1>5 DEF Mine
  <1>. QED
    BY <1>2, <1>3, <1>4, <1>5 DEF Next, AllAnswered, vars

(***************************************************************************)
(* A request passes the RPC node before it locks the wallet, and what it   *)
(* asked for does not change under way.                                    *)
(***************************************************************************)
LEMMA PaidStep ==
    ASSUME PosInv, CheckedPaid, [Next]_vars
    PROVE  CheckedPaid'
  <1> SUFFICES ASSUME NEW q \in Request, pc'[q] \in {"lockWallet", "locked"}
               PROVE  PaidOnChain(q)'
    BY DEF CheckedPaid
  <1>1. mined \subseteq mined'
    BY MinedGrows
  <1>2. ASSUME op'[q] = op[q], PaidOnChain(q)
        PROVE  PaidOnChain(q)'
    BY <1>1, <1>2 DEF PaidOnChain
  <1>3. CASE pc'[q] = pc[q] /\ op'[q] = op[q]
    BY <1>2, <1>3 DEF CheckedPaid
  <1>4. ASSUME NEW r \in Request, NEW a, Answer(r, a)
        PROVE  PaidOnChain(q)'
    BY <1>3, <1>4 DEF Answer, Goto, PosInv, TypeOK
  <1>5. ASSUME NEW r \in Request, Handle(r) \/ Fail(r)
        PROVE  PaidOnChain(q)'
    <2>1. CASE LockIntent(r)
      BY <1>3, <2>1 DEF LockIntent, Goto, PosInv, TypeOK
    <2>2. CASE Verify(r)
      BY <1>2, <1>3, <2>2 DEF Verify, Goto, PosInv, TypeOK
    <2>3. CASE LockWallet(r)
      BY <1>2, <1>3, <2>3 DEF LockWallet, Goto, PosInv, TypeOK, CheckedPaid
    <2>4. CASE \/ NotFound(r) \/ Replayed(r) \/ NotPending(r) \/ Reject(r) \/ Fail(r)
               \/ TxDuplicate(r) \/ KeyDuplicate(r) \/ Expire(r) \/ CommitDeposit(r)
      BY <2>4, <1>4
         DEF NotFound, Replayed, NotPending, Reject, TxDuplicate, KeyDuplicate, Fail,
             Expire, CommitDeposit
    <2>. QED  BY <1>5, <2>1, <2>2, <2>3, <2>4 DEF Handle
  <1>6. ASSUME NEW i \in Intent, CreateIntent(i) \/ TimePasses(i)
        PROVE  PaidOnChain(q)'
    BY <1>3, <1>6 DEF CreateIntent, TimePasses
  <1>7. ASSUME NEW r \in Request, NEW o \in Confirmation, Send(r, o)
        PROVE  PaidOnChain(q)'
    BY <1>3, <1>7 DEF Send, Goto, PosInv, TypeOK
  <1>8. ASSUME NEW t \in Tx, Mine(t)
        PROVE  PaidOnChain(q)'
    BY <1>3, <1>8 DEF Mine
  <1>9. CASE UNCHANGED vars
    BY <1>3, <1>9 DEF vars
  <1>. QED
    BY <1>5, <1>6, <1>7, <1>8, <1>9 DEF Next, AllAnswered

\* The intent a ledger row names.
LEMMA RowsIntent ==
    ASSUME TypeOK, CreditMatchesIntent, NEW e \in ledger
    PROVE  /\ e.intentId \in Intent
           /\ intent[e.intentId].status = "CONFIRMED"
           /\ intent[e.intentId].txHash = e.txHash
  <1>1. intent[e.intentId] = [status |-> "CONFIRMED", txHash |-> e.txHash]
    BY DEF CreditMatchesIntent
  <1>2. e.intentId \in Intent
    BY DEF TypeOK
  <1>. QED  BY <1>1, <1>2

LEMMA PayInit == Init => PayInv
  <1> SUFFICES ASSUME Init PROVE PayInv
    OBVIOUS
  <1>1. \A i \in Intent : intent[i].status = "NONE" /\ intent[i].txHash = NoHash
    BY DEF Init
  <1>2. ledger = {} /\ \A r \in Request : pc[r] = "idle"
    BY DEF Init, RowsInit
  <1>. QED
    BY <1>1, <1>2, PosInit
       DEF PayInv, CheckedPaid, OnlyConfirmedHasTx, TxNamesIntent, CreditMatchesIntent,
           CreditWasPaid

LEMMA PayStep == PayInv /\ [Next]_vars => PayInv'
  <1> SUFFICES ASSUME PayInv, [Next]_vars
               PROVE  PayInv'
    OBVIOUS
  <1>1. PosInv /\ PosInv' /\ CheckedPaid' /\ mined \subseteq mined' /\ TypeOK
    BY PosStep, PaidStep, MinedGrows DEF PayInv, PosInv
  <1>2. CASE UNCHANGED <<intent, ledger>>
    BY <1>1, <1>2
       DEF PayInv, OnlyConfirmedHasTx, TxNamesIntent, CreditMatchesIntent, CreditWasPaid
  <1>3. ASSUME NEW i \in Intent, CreateIntent(i)
        PROVE  PayInv'
    <2>1. /\ ledger' = ledger /\ mined' = mined
          /\ intent[i].status = "NONE" /\ intent'[i].status = "PENDING"
          /\ intent'[i].txHash = intent[i].txHash
          /\ \A j \in Intent \ {i} : intent'[j] = intent[j]
      BY <1>1, <1>3 DEF CreateIntent, rowVars, TypeOK
    <2>2. OnlyConfirmedHasTx' /\ TxNamesIntent'
      BY <1>1, <2>1 DEF PayInv, OnlyConfirmedHasTx, TxNamesIntent
    <2>3. CreditMatchesIntent' /\ CreditWasPaid'
      BY <1>1, <2>1 DEF PayInv, CreditMatchesIntent, CreditWasPaid, TypeOK
    <2>. QED  BY <1>1, <2>2, <2>3 DEF PayInv
  <1>4. ASSUME NEW r \in Request, Expire(r)
        PROVE  PayInv'
    <2> DEFINE i == op[r].intent
    <2>1. i \in Intent
      BY <1>1, <1>4, OpFields DEF Expire, AtIntent, PosInv
    <2>2. /\ ledger' = ledger /\ mined' = mined
          /\ intent[i].status = "PENDING" /\ intent'[i].status = "EXPIRED"
          /\ intent'[i].txHash = intent[i].txHash
          /\ \A j \in Intent \ {i} : intent'[j] = intent[j]
      BY <1>1, <1>4, <2>1 DEF Expire, Answer, TypeOK
    <2>3. OnlyConfirmedHasTx' /\ TxNamesIntent'
      BY <1>1, <2>1, <2>2 DEF PayInv, OnlyConfirmedHasTx, TxNamesIntent
    <2>4. CreditMatchesIntent' /\ CreditWasPaid'
      BY <1>1, <2>1, <2>2 DEF PayInv, CreditMatchesIntent, CreditWasPaid, TypeOK
    <2>. QED  BY <1>1, <2>3, <2>4 DEF PayInv
  <1>5. ASSUME NEW r \in Request, CommitDeposit(r)
        PROVE  PayInv'
    <2> DEFINE i == op[r].intent
               t == op[r].hash
               d == DepositEntry(r)
    <2>1. i \in Intent /\ t \in Hash /\ t # NoHash
      BY <1>1, <1>5, OpFields, DepositIntentsAssumption DEF CommitDeposit, PosInv
    <2>2. /\ intent[i].status = "PENDING" /\ Owner[i] = op[r].wallet
          /\ PaidOnChain(r)
      BY <1>1, <1>5 DEF CommitDeposit, PosInv, BusyHolds, Busy, PayInv, CheckedPaid
    <2>3. /\ ledger' = ledger \cup {d} /\ mined' = mined
          /\ intent'[i] = [status |-> "CONFIRMED", txHash |-> t]
          /\ \A j \in Intent \ {i} : intent'[j] = intent[j] /\ intent[j].txHash # t
      BY <1>1, <1>5, <2>1 DEF CommitDeposit, Answer, TypeOK, TxUsed
    <2>4. /\ d.intentId = i /\ d.txHash = t /\ d.wallet = op[r].wallet
          /\ d.amount = IntentAmount[i]
      BY <1>1, <1>5, EntryType DEF CommitDeposit, PosInv
    <2>5. \A e \in ledger : e.intentId \in Intent /\ e.intentId # i
      BY <1>1, <2>2, RowsIntent DEF PayInv
    <2>6. OnlyConfirmedHasTx' /\ TxNamesIntent'
      BY <1>1, <2>1, <2>3 DEF PayInv, OnlyConfirmedHasTx, TxNamesIntent
    <2>7. CreditMatchesIntent'
      <3> HIDE DEF i, t, d
      <3>1. \A j \in Intent :
              intent'[j].status = "CONFIRMED" => \E e \in ledger' : e.intentId = j
        BY <1>1, <2>1, <2>3, <2>4 DEF PayInv, CreditMatchesIntent
      <3>2. \A e \in ledger' :
              /\ intent'[e.intentId] = [status |-> "CONFIRMED", txHash |-> e.txHash]
              /\ e.wallet = Owner[e.intentId]
              /\ e.amount = IntentAmount[e.intentId]
        BY <1>1, <2>1, <2>2, <2>3, <2>4, <2>5 DEF PayInv, CreditMatchesIntent, i
      <3>3. \A e, f \in ledger' : e.intentId = f.intentId => e = f
        BY <1>1, <2>3, <2>4, <2>5 DEF PayInv, CreditMatchesIntent
      <3>. QED  BY <3>1, <3>2, <3>3 DEF CreditMatchesIntent
    <2>8. CreditWasPaid'
      BY <1>1, <2>2, <2>3, <2>4 DEF PayInv, CreditWasPaid, PaidOnChain
    <2>. QED  BY <1>1, <2>6, <2>7, <2>8 DEF PayInv
  <1>. QED
    BY <1>1, <1>2, <1>3, <1>4, <1>5, IntentWriters

LEMMA PayAlways == Spec => []PayInv
  BY PayInit, PayStep, PTL DEF Spec

(***************************************************************************)
(* An intent is CONFIRMED exactly when one ledger row credits it, with its *)
(* amount and transaction, to its owner.                                   *)
(***************************************************************************)
THEOREM IntentsMatchLedger == Spec => []CreditMatchesIntent
  <1>1. PayInv => CreditMatchesIntent
    BY DEF PayInv
  <1>. QED  BY PayAlways, <1>1, PTL

\* Money is credited only for a transaction that paid it on chain.
THEOREM CreditsWerePaid == Spec => []CreditWasPaid
  <1>1. PayInv => CreditWasPaid
    BY DEF PayInv
  <1>. QED  BY PayAlways, <1>1, PTL

(***************************************************************************)
(* A transaction is credited again only under another spelling of its      *)
(* hash, for another intent that it pays.                                  *)
(***************************************************************************)
THEOREM SecondCreditsHaveTwins == Spec => []RecreditsNeedTwins
  <1>1. PayInv => RecreditsNeedTwins
    <2> SUFFICES ASSUME PayInv, NEW e \in ledger, NEW f \in ledger, e # f,
                        TxOf[e.txHash] = TxOf[f.txHash]
                 PROVE  /\ e.txHash # f.txHash
                        /\ e.intentId # f.intentId
                        /\ {e.intentId, f.intentId} \subseteq
                              {i \in Pays[TxOf[e.txHash]] : intent[i].status = "CONFIRMED"}
      BY DEF RecreditsNeedTwins
    <2>1. e.intentId # f.intentId
      BY DEF PayInv, CreditMatchesIntent
    <2>2. e.txHash # f.txHash
      BY <2>1, RowsIntent DEF PayInv, PosInv, TxNamesIntent
    <2>3. /\ intent[e.intentId].status = "CONFIRMED"
          /\ intent[f.intentId].status = "CONFIRMED"
      BY RowsIntent DEF PayInv, PosInv
    <2>4. e.intentId \in Pays[TxOf[e.txHash]] /\ f.intentId \in Pays[TxOf[f.txHash]]
      BY DEF PayInv, CreditWasPaid
    <2>. QED  BY <2>1, <2>2, <2>3, <2>4
  <1>. QED  BY PayAlways, <1>1, PTL

LEMMA StatusStays ==
    ASSUME PayInv, [Next]_vars, NEW i \in Intent,
           intent[i].status \in {"CONFIRMED", "EXPIRED"}
    PROVE  intent'[i] = intent[i]
  <1>0. TypeOK /\ PosInv
    BY DEF PayInv, PosInv
  <1>1. ASSUME NEW j \in Intent, CreateIntent(j)
        PROVE  intent'[i] = intent[i]
    BY <1>0, <1>1 DEF CreateIntent, TypeOK
  <1>2. ASSUME NEW r \in Request, Expire(r)
        PROVE  intent'[i] = intent[i]
    BY <1>0, <1>2 DEF Expire, TypeOK
  <1>3. ASSUME NEW r \in Request, CommitDeposit(r)
        PROVE  intent'[i] = intent[i]
    <2>1. intent[op[r].intent].status = "PENDING"
      BY <1>0, <1>3 DEF CommitDeposit, PosInv, BusyHolds, Busy
    <2>. QED  BY <1>0, <1>3, <2>1 DEF CommitDeposit, TypeOK
  <1>. QED  BY <1>0, <1>1, <1>2, <1>3, IntentWriters

(***************************************************************************)
(* CONFIRMED and EXPIRED are final: a confirmation in flight holds the     *)
(* intent's lock, so nobody can finish the intent under it.                *)
(***************************************************************************)
THEOREM StatusNeverChangesBack == Spec => StatusIsFinal
  <1>1. PayInv /\ [Next]_vars =>
          [\A i \in Intent :
              intent[i].status \in {"CONFIRMED", "EXPIRED"} => intent'[i] = intent[i]]_vars
    BY StatusStays
  <1>. QED  BY <1>1, PayAlways, PTL DEF Spec, StatusIsFinal
-----------------------------------------------------------------------------
(***************************************************************************)
(* Answers.  A request is answered once; who was told "confirmed" finds    *)
(* its intent so; a ledger row has the intent, the transaction and the key *)
(* of the request that wrote it; and a swallowed conflict was about a key  *)
(* that is in the ledger.                                                  *)
(***************************************************************************)
AnsweredOnce == \A r \in Request : pc[r] # "done" => reply[r] = "none"

ToldConfirmed ==
    \A r \in Request :
        reply[r] \in {"ok", "replayed"} =>
            intent[op[r].intent] = [status |-> "CONFIRMED", txHash |-> op[r].hash]

RowsAreOwn ==
    \A e \in ledger :
        /\ pc[e.by] = "done"
        /\ e.operationKey = op[e.by].key
        /\ e.intentId = op[e.by].intent
        /\ e.txHash = op[e.by].hash

SwallowedHasKey == \A r \in Request : reply[r] = "swallowed" => KeyUsed(r)

AnswerInv == AnsweredOnce /\ ToldConfirmed /\ RowsAreOwn /\ SwallowedHasKey

LEMMA AnswerInit == Init => AnswerInv
  BY DEF Init, RowsInit, AnswerInv, AnsweredOnce, ToldConfirmed, RowsAreOwn, SwallowedHasKey

\* The kinds of step: no answer, a plain answer, a true one, and a commit.
LEMMA AnswerKinds ==
    ASSUME PayInv, [Next]_vars
    PROVE  \/ /\ UNCHANGED <<ledger, reply>>
              /\ \A q \in Request : pc[q] # "idle" => op'[q] = op[q]
              /\ \A q \in Request : (pc'[q] = "done") <=> (pc[q] = "done")
           \/ \E r \in Request :
                 /\ pc[r] \notin {"idle", "done"}
                 /\ \/ /\ UNCHANGED ledger
                       /\ \E a \in Reply \ {"ok", "replayed", "swallowed"} : Answer(r, a)
                    \/ Replayed(r) \/ KeyDuplicate(r) \/ CommitDeposit(r)
  <1>1. ASSUME NEW r \in Request, NEW o \in Confirmation, Send(r, o)
        PROVE  /\ UNCHANGED <<ledger, reply>>
               /\ \A q \in Request : pc[q] # "idle" => op'[q] = op[q]
               /\ \A q \in Request : (pc'[q] = "done") <=> (pc[q] = "done")
    BY <1>1 DEF Send, Goto, rowVars, PayInv, PosInv, TypeOK
  <1>2. ASSUME NEW r \in Request, LockIntent(r) \/ Verify(r) \/ LockWallet(r)
        PROVE  /\ UNCHANGED <<ledger, reply, op>>
               /\ \A q \in Request : (pc'[q] = "done") <=> (pc[q] = "done")
    BY <1>2 DEF LockIntent, AtIntent, Verify, LockWallet, Goto, rowVars, PayInv, PosInv, TypeOK
  <1>3. ASSUME NEW r \in Request,
               \/ NotFound(r) \/ NotPending(r) \/ Reject(r)
               \/ TxDuplicate(r) \/ Fail(r) \/ Expire(r)
        PROVE  /\ pc[r] \notin {"idle", "done"}
               /\ UNCHANGED ledger
               /\ \E a \in Reply \ {"ok", "replayed", "swallowed"} : Answer(r, a)
    BY <1>3 DEF NotFound, NotPending, Reject, TxDuplicate, Fail, Expire, AtIntent,
                RolledBack, Reply
  <1>4. ASSUME NEW r \in Request, Replayed(r) \/ KeyDuplicate(r) \/ CommitDeposit(r)
        PROVE  pc[r] \notin {"idle", "done"}
    BY <1>4 DEF Replayed, AtIntent, KeyDuplicate, CommitDeposit
  <1>. QED
    BY <1>1, <1>2, <1>3, <1>4
       DEF Next, Handle, CreateIntent, TimePasses, Mine, AllAnswered, vars, rowVars

LEMMA AnswerStep == PayInv /\ AnswerInv /\ [Next]_vars => AnswerInv'
  <1> SUFFICES ASSUME PayInv, AnswerInv, [Next]_vars
               PROVE  AnswerInv'
    OBVIOUS
  <1> USE DEF AnswerInv, AnsweredOnce, ToldConfirmed, RowsAreOwn, SwallowedHasKey
  <1>1. /\ TypeOK /\ Asked
        /\ \A e \in ledger : e.by \in Request
        /\ \A q \in Request : reply[q] # "none" => pc[q] = "done"
    BY DEF PayInv, PosInv, TypeOK
  <1>2. \A q \in Request :
           reply[q] \in {"ok", "replayed"} =>
               intent'[op[q].intent] = [status |-> "CONFIRMED", txHash |-> op[q].hash]
    BY <1>1, StatusStays, OpFields
  <1>3. CASE /\ UNCHANGED <<ledger, reply>>
             /\ \A q \in Request : pc[q] # "idle" => op'[q] = op[q]
             /\ \A q \in Request : (pc'[q] = "done") <=> (pc[q] = "done")
    <2>1. \A q \in Request : pc[q] = "done" => op'[q] = op[q]
      BY <1>3
    <2>2. AnsweredOnce' /\ RowsAreOwn'
      BY <1>1, <1>3, <2>1
    <2>3. ToldConfirmed'
      BY <1>1, <1>2, <1>3, <2>1
    <2>4. SwallowedHasKey'
      BY <1>1, <1>3, <2>1 DEF KeyUsed, UsedKeys
    <2>. QED  BY <2>2, <2>3, <2>4
  <1>4. ASSUME NEW r \in Request, NEW a \in Reply, Answer(r, a), pc[r] \notin {"idle", "done"},
               UNCHANGED ledger,
               a \in {"ok", "replayed"} =>
                   intent'[op[r].intent] = [status |-> "CONFIRMED", txHash |-> op[r].hash],
               a = "swallowed" => KeyUsed(r)
        PROVE  AnswerInv'
    <2>1. /\ op' = op /\ reply' = [reply EXCEPT ![r] = a] /\ reply \in [Request -> Reply]
          /\ pc' = [pc EXCEPT ![r] = "done"] /\ pc \in [Request -> Step]
      BY <1>1, <1>4 DEF Answer, Goto, TypeOK
    <2>2. AnsweredOnce' /\ RowsAreOwn'
      BY <1>1, <1>4, <2>1
    <2>3. ToldConfirmed'
      BY <1>2, <1>4, <2>1
    <2>4. SwallowedHasKey'
      BY <1>4, <2>1 DEF KeyUsed, UsedKeys
    <2>. QED  BY <2>2, <2>3, <2>4
  <1>5. ASSUME NEW r \in Request, pc[r] \notin {"idle", "done"}, UNCHANGED ledger,
               NEW a \in Reply \ {"ok", "replayed", "swallowed"}, Answer(r, a)
        PROVE  AnswerInv'
    BY <1>4, <1>5
  <1>6. ASSUME NEW r \in Request, pc[r] \notin {"idle", "done"}, Replayed(r)
        PROVE  AnswerInv'
    BY <1>4, <1>6 DEF Replayed, RolledBack, Reply
  <1>7. ASSUME NEW r \in Request, pc[r] \notin {"idle", "done"}, KeyDuplicate(r)
        PROVE  AnswerInv'
    BY <1>4, <1>7 DEF KeyDuplicate, RolledBack, Reply
  <1>8. ASSUME NEW r \in Request, CommitDeposit(r)
        PROVE  AnswerInv'
    <2>1. /\ op' = op /\ reply' = [reply EXCEPT ![r] = "ok"] /\ reply \in [Request -> Reply]
          /\ pc' = [pc EXCEPT ![r] = "done"] /\ pc \in [Request -> Step]
          /\ ledger' = ledger \cup {DepositEntry(r)}
      BY <1>1, <1>8 DEF CommitDeposit, Answer, Goto, TypeOK
    <2>2. DepositEntry(r).by = r
      BY DEF DepositEntry
    <2>3. pc[r] = "locked"
      BY <1>8 DEF CommitDeposit
    <2>4. intent'[op[r].intent] = [status |-> "CONFIRMED", txHash |-> op[r].hash]
      BY <1>1, <1>8, <2>3, OpFields DEF CommitDeposit, TypeOK
    <2>5. AnsweredOnce'
      BY <1>1, <2>1
    <2>6. RowsAreOwn'
      BY <1>1, <2>1, <2>2, <2>3, EntryType
    <2>7. ToldConfirmed'
      BY <1>2, <2>1, <2>4
    <2>8. SwallowedHasKey'
      BY <2>1 DEF KeyUsed, UsedKeys
    <2>. QED  BY <2>5, <2>6, <2>7, <2>8
  <1>. QED
    BY <1>3, <1>5, <1>6, <1>7, <1>8, AnswerKinds

(***************************************************************************)
(* Success means credited, for the request that committed, for a replay,   *)
(* and, when no key is used for two confirmations, for a request whose key *)
(* was found in the ledger.                                                *)
(***************************************************************************)
THEOREM SuccessesAreConfirmed == Spec => []SuccessIsConfirmed
  <1>1. PayInv /\ AnswerInv => SuccessIsConfirmed
    <2> SUFFICES ASSUME PayInv, AnswerInv, NEW r \in Request,
                        reply[r] = "swallowed", KeysNameOneConfirmation
                 PROVE  intent[op[r].intent] = [status |-> "CONFIRMED", txHash |-> op[r].hash]
      BY DEF AnswerInv, ToldConfirmed, SuccessIsConfirmed
    <2>1. PICK e \in ledger : op[r].key # NoKey /\ e.operationKey = op[r].key
      BY DEF AnswerInv, SwallowedHasKey, KeyUsed, UsedKeys
    <2>2. /\ e.by \in Request /\ pc[e.by] = "done" /\ pc[r] = "done"
          /\ op[e.by].key = op[r].key
          /\ intent[op[e.by].intent] = [status |-> "CONFIRMED", txHash |-> op[e.by].hash]
      BY <2>1 DEF AnswerInv, AnsweredOnce, RowsAreOwn, PayInv, PosInv, TypeOK, CreditMatchesIntent
    <2>3. op[r] # NoOp /\ op[e.by] # NoOp
      BY <2>2, DepositIntentsAssumption DEF PayInv, PosInv, Asked
    <2>4. op[e.by] = op[r]
      BY <2>1, <2>2, <2>3 DEF KeysNameOneConfirmation
    <2>. QED  BY <2>2, <2>4
  <1>. QED
    BY <1>1, AnswerInit, AnswerStep, PayAlways, PTL DEF Spec
-----------------------------------------------------------------------------
(***************************************************************************)
(* Refinement: a confirmation that is about to write holds its wallet's    *)
(* row lock, and its copy is the row.                                      *)
(***************************************************************************)
WalletHeld ==
    \A r \in Request :
        pc[r] = "locked" =>
            /\ lock[op[r].wallet] = r
            /\ snap[r] = wallet[op[r].wallet]

HeldInv == PosInv /\ RowsSound /\ WalletHeld

LEMMA HeldInit == Init => HeldInv
  BY PosInit, OpeningSound DEF Init, RowsInit, HeldInv, RowsSound, WalletHeld

\* A step of r that writes at most a wallet it has locked, and then ends.
LEMMA AnswerHeld ==
    ASSUME HeldInv, PosInv', NEW r \in Request, NEW a, Answer(r, a), RowsSound',
           \A w \in Wallet : wallet'[w] = wallet[w] \/ lock[w] = r
    PROVE  HeldInv'
  <1>1. /\ op' = op /\ snap' = snap /\ pc'[r] = "done"
        /\ \A q \in Request \ {r} : pc'[q] = pc[q]
    BY DEF Answer, Goto, HeldInv, PosInv, TypeOK
  <1>2. WalletHeld'
    <2> SUFFICES ASSUME NEW q \in Request, pc'[q] = "locked"
                 PROVE  lock'[op'[q].wallet] = q /\ snap'[q] = wallet'[op'[q].wallet]
      BY DEF WalletHeld
    <2>1. q # r /\ pc[q] = "locked" /\ op'[q] = op[q] /\ snap'[q] = snap[q]
      BY <1>1
    <2>2. op[q].wallet \in Wallet
      BY <2>1, OpFields DEF HeldInv, PosInv
    <2>3. lock[op[q].wallet] = q /\ snap[q] = wallet[op[q].wallet]
      BY <2>1 DEF HeldInv, WalletHeld
    <2>. QED  BY <2>1, <2>2, <2>3 DEF Answer, Unlocked
  <1>. QED  BY <1>2 DEF HeldInv

LEMMA HeldStep == HeldInv /\ [Next]_vars => HeldInv'
  <1> SUFFICES ASSUME HeldInv, [Next]_vars
               PROVE  HeldInv'
    OBVIOUS
  <1>0. PosInv /\ PosInv' /\ TypeOK
    BY PosStep DEF HeldInv, PosInv
  <1>1. CASE UNCHANGED <<wallet, lock, snap>>
             /\ \A q \in Request : pc'[q] = "locked" => pc[q] = "locked" /\ op'[q] = op[q]
    BY <1>0, <1>1 DEF HeldInv, RowsSound, WalletHeld
  <1>2. ASSUME NEW i \in Intent, CreateIntent(i) \/ TimePasses(i)
        PROVE  HeldInv'
    BY <1>1, <1>2 DEF CreateIntent, TimePasses, rowVars
  <1>3. ASSUME NEW t \in Tx, Mine(t)
        PROVE  HeldInv'
    BY <1>1, <1>3 DEF Mine, rowVars
  <1>4. ASSUME NEW r \in Request, NEW o \in Confirmation, Send(r, o)
        PROVE  HeldInv'
    BY <1>0, <1>1, <1>4 DEF Send, Goto, rowVars, TypeOK
  <1>5. ASSUME NEW r \in Request, LockIntent(r) \/ Verify(r)
        PROVE  HeldInv'
    BY <1>0, <1>1, <1>5 DEF LockIntent, Verify, Goto, rowVars, TypeOK
  <1>6. ASSUME NEW r \in Request, LockWallet(r)
        PROVE  HeldInv'
    <2>1. op[r].wallet \in Wallet
      BY <1>0, <1>6, OpFields DEF LockWallet, PosInv
    <2>2. RowsSound'
      BY <1>6 DEF LockWallet, HeldInv, RowsSound
    <2>3. WalletHeld'
      BY <1>0, <1>6, <2>1, GameWalletAssumption
         DEF LockWallet, LockRow, Goto, TypeOK, HeldInv, WalletHeld
    <2>. QED  BY <1>0, <2>2, <2>3 DEF HeldInv
  <1>7. ASSUME NEW r \in Request, CommitDeposit(r)
        PROVE  HeldInv'
    <2>1. op[r].wallet \in Wallet /\ IntentAmount[op[r].intent] \in Nat
      BY <1>0, <1>7, OpFields DEF CommitDeposit, PosInv
    <2>2. lock[op[r].wallet] = r /\ snap[r] = wallet[op[r].wallet]
      BY <1>7 DEF CommitDeposit, HeldInv, WalletHeld
    <2>3. Sound(Credited(snap[r], IntentAmount[op[r].intent]))
      BY <1>0, <2>1, <2>2, CreditedSound DEF HeldInv, RowsSound, TypeOK
    <2>4. RowsSound' /\ \A w \in Wallet : wallet'[w] = wallet[w] \/ lock[w] = r
      BY <1>0, <1>7, <2>1, <2>2, <2>3 DEF CommitDeposit, HeldInv, RowsSound, TypeOK
    <2>. QED  BY <1>0, <1>7, <2>4, AnswerHeld DEF CommitDeposit
  <1>8. ASSUME NEW r \in Request,
               \/ NotFound(r) \/ Replayed(r) \/ NotPending(r) \/ Reject(r)
               \/ TxDuplicate(r) \/ KeyDuplicate(r) \/ Fail(r) \/ Expire(r)
        PROVE  HeldInv'
    <2>1. \E a \in Reply : Answer(r, a)
      BY <1>8
         DEF NotFound, Replayed, NotPending, Reject, TxDuplicate, KeyDuplicate, Fail,
             Expire, Reply
    <2>2. wallet' = wallet
      BY <1>8
         DEF NotFound, Replayed, NotPending, Reject, TxDuplicate, KeyDuplicate, Fail,
             Expire, RolledBack
    <2>3. RowsSound'
      BY <2>2 DEF HeldInv, RowsSound
    <2>. QED  BY <1>0, <2>1, <2>2, <2>3, AnswerHeld
  <1>9. CASE UNCHANGED vars
    BY <1>1, <1>9 DEF vars
  <1>. QED
    BY <1>2, <1>3, <1>4, <1>5, <1>6, <1>7, <1>8, <1>9 DEF Next, Handle, AllAnswered

\* A request that is still running has no row in the ledger.
Unposted == \A r \in Request : pc[r] # "done" => \A e \in ledger : e.by # r

LEMMA RowWriters ==
    ASSUME PosInv, [Next]_vars
    PROVE  /\ \/ UNCHANGED <<wallet, ledger>>
              \/ \E r \in Request : CommitDeposit(r)
           /\ \A q \in Request : pc[q] = "done" => pc'[q] = "done"
  <1>1. ASSUME NEW r \in Request, NEW a, Answer(r, a), NEW q \in Request, pc[q] = "done"
        PROVE  pc'[q] = "done"
    BY <1>1 DEF Answer, Goto, PosInv, TypeOK
  <1>2. ASSUME NEW r \in Request,
               \/ NotFound(r) \/ Replayed(r) \/ NotPending(r) \/ Reject(r)
               \/ TxDuplicate(r) \/ KeyDuplicate(r) \/ Fail(r) \/ Expire(r)
        PROVE  (\E a \in Reply : Answer(r, a)) /\ UNCHANGED <<wallet, ledger>>
    BY <1>2
       DEF NotFound, Replayed, NotPending, Reject, TxDuplicate, KeyDuplicate, Fail,
           Expire, RolledBack, Reply
  <1>3. ASSUME NEW r \in Request, CommitDeposit(r)
        PROVE  Answer(r, "ok")
    BY <1>3 DEF CommitDeposit
  <1>4. ASSUME NEW r \in Request, LockIntent(r) \/ Verify(r) \/ LockWallet(r)
        PROVE  /\ UNCHANGED <<wallet, ledger>>
               /\ \A q \in Request : pc[q] = "done" => pc'[q] = "done"
    BY <1>4 DEF LockIntent, Verify, LockWallet, AtIntent, Goto, rowVars, PosInv, TypeOK
  <1>5. ASSUME NEW r \in Request, NEW o \in Confirmation, Send(r, o)
        PROVE  /\ UNCHANGED <<wallet, ledger>>
               /\ \A q \in Request : pc[q] = "done" => pc'[q] = "done"
    BY <1>5 DEF Send, Goto, rowVars, PosInv, TypeOK
  <1>. QED
    BY <1>1, <1>2, <1>3, <1>4, <1>5
       DEF Next, Handle, CreateIntent, TimePasses, Mine, AllAnswered, vars, rowVars

LEMMA UnpostedInit == Init => Unposted
  BY DEF Init, RowsInit, Unposted

LEMMA UnpostedStep == PosInv /\ Unposted /\ [Next]_vars => Unposted'
  <1> SUFFICES ASSUME PosInv, Unposted, [Next]_vars,
                      NEW q \in Request, pc'[q] # "done", NEW e \in ledger'
               PROVE  e.by # q
    BY DEF Unposted
  <1>1. pc[q] # "done"
    BY RowWriters
  <1>2. CASE UNCHANGED <<wallet, ledger>>
    BY <1>1, <1>2 DEF Unposted
  <1>3. ASSUME NEW r \in Request, CommitDeposit(r)
        PROVE  e.by # q
    <2>1. pc'[r] = "done" /\ ledger' = ledger \cup {DepositEntry(r)}
      BY <1>3 DEF CommitDeposit, Answer, Goto, PosInv, TypeOK
    <2>2. DepositEntry(r).by = r
      BY DEF DepositEntry
    <2>. QED  BY <1>1, <2>1, <2>2 DEF Unposted
  <1>. QED  BY <1>2, <1>3, RowWriters

\* A commit earns the rounded amount of its intent in the book.
LEMMA CommitEarns ==
    ASSUME HeldInv, Unposted, NEW r \in Request, CommitDeposit(r)
    PROVE  Book!Next
  <1> DEFINE w == op[r].wallet
             m == Micro(IntentAmount[op[r].intent])
             balance == [v \in Wallet |-> wallet[v].balance]
             Post(e) == [by |-> e.by, wallet |-> e.wallet, change |-> Micro(e.amount)]
             posted == {Post(e) : e \in ledger}
  <1>1. TypeOK /\ w \in Wallet /\ op[r].intent \in Intent
        /\ op[r].key \in OperationKey \cup {NoKey}
        /\ IntentAmount[op[r].intent] \in Nat
    BY OpFields DEF CommitDeposit, HeldInv, PosInv
  <1>2. snap[r] = wallet[w] /\ wallet[w] \in Row /\ Sound(wallet[w])
    BY <1>1 DEF CommitDeposit, HeldInv, WalletHeld, RowsSound, TypeOK
  <1>3. wallet'[w].balance = wallet[w].balance + m
    BY <1>1, <1>2, CreditedSound DEF CommitDeposit, TypeOK
  <1>4. \A v \in Wallet \ {w} : wallet'[v] = wallet[v]
    BY <1>1 DEF CommitDeposit, TypeOK
  <1>5. \A v \in Wallet : balance'[v] = IF v = w THEN balance[w] + m ELSE balance[v]
    BY <1>1, <1>3, <1>4
  <1>6. balance' = [balance EXCEPT ![w] = balance[w] + m]
    <2> HIDE DEF w, m
    <2>. QED  BY <1>1, <1>5
  <1>7. m \in {Micro(IntentAmount[i]) : i \in Intent}
    BY <1>1
  <1>8. PICK k \in OperationKey \cup {NoKey} : k = op[r].key
    BY <1>1
  <1>9. DepositEntry(r).operationKey = k
    BY <1>8 DEF DepositEntry
  <1>10. k \notin UsedKeys /\ UsedKeys' = UsedKeys \cup ({k} \ {NoKey})
    BY <1>8, <1>9 DEF CommitDeposit, KeyUsed, UsedKeys
  <1>11. posted' = posted \cup {[by |-> r, wallet |-> w, change |-> m]}
    <2>1. Post(DepositEntry(r)) = [by |-> r, wallet |-> w, change |-> m]
      BY DEF DepositEntry
    <2>2. ledger' = ledger \cup {DepositEntry(r)}
      BY DEF CommitDeposit
    <2>3. posted' = {Post(e) : e \in ledger'}
      OBVIOUS
    <2> HIDE DEF Post, w, m
    <2>. QED  BY <2>1, <2>2, <2>3
  <1>12. \A p \in posted : p.by # r
    BY DEF CommitDeposit, Unposted
  <1>13. Book!Earn(r, w, m, k)
    BY <1>6, <1>10, <1>11, <1>12 DEF Book!Earn, Book!Use, Book!Posting
  <1>. QED
    BY <1>1, <1>7, <1>13 DEF Book!Next

(***************************************************************************)
(* Confirmations behave as if each credited its wallet at once.            *)
(***************************************************************************)
THEOREM ConfirmationsRefineBook == Spec => ConfirmationsImplementBook
  <1>1. Init => Book!Init
    BY DEF Init, RowsInit, OpeningRow, UsedKeys, Book!Init
  <1>2. HeldInv /\ Unposted /\ [Next]_vars => [Book!Next]_(Book!vars)
    <2> SUFFICES ASSUME HeldInv, Unposted, [Next]_vars
                 PROVE  [Book!Next]_(Book!vars)
      OBVIOUS
    <2>1. CASE \E r \in Request : CommitDeposit(r)
      BY <2>1, CommitEarns
    <2>2. CASE UNCHANGED <<wallet, ledger>>
      BY <2>2 DEF Book!vars, UsedKeys
    <2>. QED  BY <2>1, <2>2, RowWriters DEF HeldInv
  <1>3. HeldInv => PosInv
    BY DEF HeldInv
  <1>. QED
    BY <1>1, <1>2, <1>3, HeldInit, HeldStep, UnpostedInit, UnpostedStep, PTL
       DEF Spec, ConfirmationsImplementBook, Book!Spec
-----------------------------------------------------------------------------
(***************************************************************************)
(* Waiting.  The converse of BusyHolds and WalletHeld: a lock is held by a *)
(* confirmation in mid-transaction, a wallet's by one that has all it      *)
(* needs.                                                                  *)
(***************************************************************************)
HoldersAreBusy ==
    /\ \A i \in Intent : ilock[i] # Free => pc[ilock[i]] \in Busy
    /\ \A w \in Wallet : lock[w] # Free => pc[lock[w]] = "locked"

WaitInv == PosInv /\ HoldersAreBusy

LEMMA WaitInit == Init => WaitInv
  BY PosInit DEF Init, RowsInit, WaitInv, HoldersAreBusy

LEMMA AnswerWait ==
    ASSUME WaitInv, NEW r \in Request, NEW a, Answer(r, a)
    PROVE  HoldersAreBusy'
<1>1. \A q \in Request \ {r} : pc'[q] = pc[q]
  BY DEF Answer, Goto, WaitInv, PosInv, TypeOK
<1>2. \A i \in Intent : ilock'[i] # Free =>
        ilock'[i] = ilock[i] /\ ilock[i] \in Request \ {r}
  BY DEF Answer, WaitInv, PosInv, TypeOK
<1>3. \A w \in Wallet : lock'[w] # Free =>
        lock'[w] = lock[w] /\ lock[w] \in Request \ {r}
  BY DEF Answer, Unlocked, WaitInv, PosInv, TypeOK
<1>. QED
  BY <1>1, <1>2, <1>3 DEF WaitInv, HoldersAreBusy

LEMMA WaitStep == WaitInv /\ [Next]_vars => WaitInv'
<1>. SUFFICES ASSUME WaitInv, [Next]_vars PROVE HoldersAreBusy'
  BY PosStep DEF WaitInv
<1>0. TypeOK
  BY DEF WaitInv, PosInv
<1>1. CASE UNCHANGED <<lock, ilock, pc>>
  BY <1>1 DEF WaitInv, HoldersAreBusy
<1>2. ASSUME NEW i \in Intent, CreateIntent(i) \/ TimePasses(i) PROVE HoldersAreBusy'
  BY <1>1, <1>2 DEF CreateIntent, TimePasses, rowVars
<1>3. ASSUME NEW t \in Tx, Mine(t) PROVE HoldersAreBusy'
  BY <1>1, <1>3 DEF Mine, rowVars
<1>4. ASSUME NEW r \in Request, NEW o \in Confirmation, Send(r, o) PROVE HoldersAreBusy'
  BY <1>0, <1>4 DEF Send, Goto, rowVars, TypeOK, WaitInv, HoldersAreBusy, Busy
<1>5. ASSUME NEW r \in Request, LockIntent(r) PROVE HoldersAreBusy'
  <2>1. /\ pc[r] = "sent" /\ pc' = [pc EXCEPT ![r] = "verify"] /\ lock' = lock
        /\ ilock' = [ilock EXCEPT ![op[r].intent] = r]
    BY <1>5 DEF LockIntent, AtIntent, Goto, rowVars
  <2>. QED
    BY <1>0, <2>1 DEF TypeOK, WaitInv, HoldersAreBusy, Busy
<1>6. ASSUME NEW r \in Request, Verify(r) PROVE HoldersAreBusy'
  BY <1>0, <1>6 DEF Verify, Goto, rowVars, TypeOK, WaitInv, HoldersAreBusy, Busy
<1>7. ASSUME NEW r \in Request, LockWallet(r) PROVE HoldersAreBusy'
  <2>1. /\ pc[r] = "lockWallet" /\ pc' = [pc EXCEPT ![r] = "locked"] /\ ilock' = ilock
        /\ lock' = [lock EXCEPT ![op[r].wallet] = r]
    BY <1>7 DEF LockWallet, LockRow, Goto
  <2>. QED
    BY <1>0, <2>1 DEF TypeOK, WaitInv, HoldersAreBusy, Busy
<1>8. ASSUME NEW r \in Request,
             \/ NotFound(r) \/ Replayed(r) \/ NotPending(r) \/ Reject(r)
             \/ TxDuplicate(r) \/ KeyDuplicate(r) \/ Fail(r) \/ Expire(r)
             \/ CommitDeposit(r)
      PROVE  HoldersAreBusy'
  BY <1>8, AnswerWait
     DEF NotFound, Replayed, NotPending, Reject, TxDuplicate, KeyDuplicate, Fail,
         Expire, CommitDeposit
<1>9. CASE UNCHANGED vars
  BY <1>1, <1>9 DEF vars
<1>. QED
  BY <1>2, <1>3, <1>4, <1>5, <1>6, <1>7, <1>8, <1>9 DEF Next, Handle, AllAnswered

(***************************************************************************)
(* However many players confirm however many intents of however many       *)
(* wallets at once, nobody waits behind more than two others.              *)
(***************************************************************************)
THEOREM ConfirmationsWaitInOrder == Spec => []WaitsAreShort
<1>1. WaitInv => WaitsAreShort
  <2>. SUFFICES ASSUME WaitInv, NEW r \in Request, pc[r] \notin {"idle", "done"},
                       ~CanGoOn(r)
                PROVE  \E p \in Request :
                          /\ p = Holder(r)
                          /\ CanGoOn(p) \/ \E q \in Request : q = Holder(p) /\ CanGoOn(q)
    BY DEF WaitsAreShort
  <2>1. ASSUME NEW p \in Request, pc[p] = "lockWallet", ~CanGoOn(p)
        PROVE  Holder(p) \in Request /\ CanGoOn(Holder(p))
    <3>1. op[p].wallet \in Wallet /\ lock[op[p].wallet] # Free
      BY <2>1, OpFields DEF CanGoOn, WaitInv, PosInv
    <3>2. Holder(p) = lock[op[p].wallet]
      BY <2>1 DEF Holder
    <3>. QED
      BY <3>1, <3>2 DEF CanGoOn, WaitInv, HoldersAreBusy, PosInv, TypeOK
  <2>2. CASE pc[r] = "lockWallet"
    BY <2>1, <2>2
  <2>3. CASE pc[r] = "sent"
    <3>1. op[r].intent \in Intent /\ ilock[op[r].intent] # Free
      BY <2>3, OpFields DEF CanGoOn, WaitInv, PosInv
    <3>2. Holder(r) = ilock[op[r].intent]
      BY <2>3 DEF Holder
    <3>3. PICK p \in Request : p = Holder(r) /\ pc[p] \in Busy
      BY <3>1, <3>2 DEF WaitInv, HoldersAreBusy, PosInv, TypeOK
    <3>4. ~CanGoOn(p) => pc[p] = "lockWallet"
      BY <3>3 DEF CanGoOn, Busy
    <3>. QED
      BY <2>1, <3>3, <3>4
  <2>. QED
    BY <2>2, <2>3 DEF CanGoOn, WaitInv, PosInv, TypeOK, Step
<1>. QED
  BY <1>1, WaitInit, WaitStep, PTL DEF Spec
=============================================================================
