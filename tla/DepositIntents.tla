--------------------------- MODULE DepositIntents ---------------------------
(***************************************************************************)
(* External deposits: a player gets an intent with a deposit address, pays *)
(* on chain and asks the platform to confirm.  Confirmations run           *)
(* concurrently over the shared rows of GameWalletRows.                    *)
(*                                                                         *)
(* A confirmation locks the intent, checks it, asks the RPC node about the *)
(* transaction with the lock held, locks the wallet and commits.  The      *)
(* checks made on the locked row, with no await between them, are one step *)
(* with the lock; the writes are one step with their COMMIT.               *)
(***************************************************************************)
EXTENDS GameWalletRows

CONSTANTS
    Intent,         \* ids of wallet_deposit_intents rows
    Tx,             \* chain transactions
    Hash,           \* strings isValidTxHash accepts, trimmed
    TxOf,           \* [Hash -> Tx], the transaction a node finds under a string
    NoHash,         \* the null txHash
    Owner,          \* [Intent -> Wallet], the wallet of the player who created it
    IntentAmount,   \* [Intent -> Nat]
    Pays,           \* [Tx -> SUBSET Intent], intents whose address and amount it fits
    Reverted,       \* transactions whose receipt has status 0
    Confirmation,   \* what requests may ask for
    NoOp

(***************************************************************************)
(* A deposit address is child number SHA-256(id) mod 2^32 of one HD wallet *)
(* so two intents may share an address, and one transaction fit both.      *)
(* A hash is only trimmed and must begin with "0x": its hex digits may be  *)
(* in either letter case, which the node does not tell apart, so that one  *)
(* transaction goes by several strings.  The database compares strings.    *)
(***************************************************************************)
Confirm == [intent : Intent, hash : Hash, wallet : Wallet, key : OperationKey \cup {NoKey}]

ASSUME DepositIntentsAssumption ==
    /\ NoHash \notin Hash
    /\ TxOf \in [Hash -> Tx]
    /\ Owner \in [Intent -> Wallet]
    /\ IntentAmount \in [Intent -> Nat \ {0}]
    /\ Pays \in [Tx -> SUBSET Intent]
    /\ Reverted \subseteq Tx
    /\ Confirmation \subseteq Confirm
    /\ NoOp \notin Confirmation

VARIABLES
    intent,     \* [Intent -> [status, txHash]], the committed intents
    ilock,      \* [Intent -> Request \cup {Free}], FOR UPDATE locks on intents
    overdue,    \* intents whose expiresAt has passed
    mined,      \* transactions the RPC node knows with their receipt
    op, pc, snap, reply     \* per request, as in WalletLedger

vars == <<wallet, ledger, lock, intent, ilock, overdue, mined, op, pc, snap, reply>>

Status == {"NONE", "PENDING", "CONFIRMED", "EXPIRED"}
Step == {"idle", "sent", "verify", "lockWallet", "locked", "done"}
Reply ==
    {"none", "ok", "replayed", "notFound", "notPending", "expired", "rejected",
     "txUsed", "swallowed", "failed"}

Init ==
    /\ RowsInit
    /\ intent = [i \in Intent |-> [status |-> "NONE", txHash |-> NoHash]]
    /\ ilock = [i \in Intent |-> Free]
    /\ overdue = {}
    /\ mined = {}
    /\ op = [r \in Request |-> NoOp]
    /\ pc = [r \in Request |-> "idle"]
    /\ snap = [r \in Request |-> EmptyRow]
    /\ reply = [r \in Request |-> "none"]

Goto(r, step) == pc' = [pc EXCEPT ![r] = step]

\* The transaction ends, its locks go, the handler returns or throws.
Answer(r, answer) ==
    /\ Goto(r, "done")
    /\ reply' = [reply EXCEPT ![r] = answer]
    /\ lock' = Unlocked(r)
    /\ ilock' = [i \in Intent |-> IF ilock[i] = r THEN Free ELSE ilock[i]]
    /\ UNCHANGED <<overdue, mined, op, snap>>

RolledBack == UNCHANGED <<wallet, ledger, intent>>

\* createWalletDepositIntent; it expires DEPOSIT_INTENT_TTL_MS later.
CreateIntent(i) ==
    /\ intent[i].status = "NONE"
    /\ intent' = [intent EXCEPT ![i].status = "PENDING"]
    /\ UNCHANGED <<rowVars, ilock, overdue, mined, op, pc, snap, reply>>

TimePasses(i) ==
    /\ intent[i].status # "NONE"
    /\ i \notin overdue
    /\ overdue' = overdue \cup {i}
    /\ UNCHANGED <<rowVars, intent, ilock, mined, op, pc, snap, reply>>

Mine(t) ==
    /\ t \notin mined
    /\ mined' = mined \cup {t}
    /\ UNCHANGED <<rowVars, intent, ilock, overdue, op, pc, snap, reply>>

Send(r, o) ==
    /\ pc[r] = "idle"
    /\ op' = [op EXCEPT ![r] = o]
    /\ Goto(r, "sent")
    /\ UNCHANGED <<rowVars, intent, ilock, overdue, mined, snap, reply>>

(***************************************************************************)
(* SELECT the intent of this player FOR UPDATE.                            *)
(***************************************************************************)
Visible(r) ==
    /\ intent[op[r].intent].status # "NONE"
    /\ Owner[op[r].intent] = op[r].wallet

NotFound(r) ==
    /\ pc[r] = "sent"
    /\ ~Visible(r)
    /\ Answer(r, "notFound")
    /\ RolledBack

AtIntent(r) ==
    /\ pc[r] = "sent"
    /\ Visible(r)
    /\ ilock[op[r].intent] = Free

\* Mutant of Replayed: the two hashes are not compared.
ReplayedMutant(r) ==
    /\ AtIntent(r)
    /\ intent[op[r].intent].status = "CONFIRMED"
    /\ Answer(r, "replayed")
    /\ RolledBack

Replayed(r) ==
    /\ AtIntent(r)
    /\ intent[op[r].intent] = [status |-> "CONFIRMED", txHash |-> op[r].hash]
    /\ Answer(r, "replayed")
    /\ RolledBack

NotPending(r) ==
    /\ AtIntent(r)
    /\ intent[op[r].intent].status # "PENDING"
    /\ intent[op[r].intent] # [status |-> "CONFIRMED", txHash |-> op[r].hash]
    /\ Answer(r, "notPending")
    /\ RolledBack

\* The new status is committed, then the handler throws.
Expire(r) ==
    /\ AtIntent(r)
    /\ intent[op[r].intent].status = "PENDING"
    /\ op[r].intent \in overdue
    /\ intent' = [intent EXCEPT ![op[r].intent].status = "EXPIRED"]
    /\ Answer(r, "expired")
    /\ UNCHANGED <<wallet, ledger>>

LockIntent(r) ==
    /\ AtIntent(r)
    /\ intent[op[r].intent].status = "PENDING"
    /\ op[r].intent \notin overdue
    /\ ilock' = [ilock EXCEPT ![op[r].intent] = r]
    /\ Goto(r, "verify")
    /\ UNCHANGED <<rowVars, intent, overdue, mined, op, snap, reply>>

\* verifyNativeDepositTransaction
PaidOnChain(r) ==
    /\ TxOf[op[r].hash] \in mined \ Reverted
    /\ op[r].intent \in Pays[TxOf[op[r].hash]]

Verify(r) ==
    /\ pc[r] = "verify"
    /\ PaidOnChain(r)
    /\ Goto(r, "lockWallet")
    /\ UNCHANGED <<rowVars, intent, ilock, overdue, mined, op, snap, reply>>

Reject(r) ==
    /\ pc[r] = "verify"
    /\ ~PaidOnChain(r)
    /\ Answer(r, "rejected")
    /\ RolledBack

\* Mutant of LockWallet: the row is read without FOR UPDATE.
LockWalletMutant(r) ==
    /\ pc[r] = "lockWallet"
    /\ snap' = [snap EXCEPT ![r] = wallet[op[r].wallet]]
    /\ Goto(r, "locked")
    /\ UNCHANGED <<rowVars, intent, ilock, overdue, mined, op, reply>>

LockWallet(r) ==
    /\ pc[r] = "lockWallet"
    /\ LockRow(r, op[r].wallet)
    /\ snap' = [snap EXCEPT ![r] = wallet[op[r].wallet]]
    /\ Goto(r, "locked")
    /\ UNCHANGED <<wallet, ledger, intent, ilock, overdue, mined, op, reply>>

\* Mutant of TxUsed: txHash has no unique index.
TxUsedMutant(r) == FALSE

\* The two unique indexes, in the order the rows are written.
TxUsed(r) == \E i \in Intent \ {op[r].intent} : intent[i].txHash = op[r].hash
KeyUsed(r) == op[r].key # NoKey /\ op[r].key \in UsedKeys

DepositEntry(r) ==
    [by |-> r, wallet |-> op[r].wallet, amount |-> IntentAmount[op[r].intent],
     operationKey |-> op[r].key, intentId |-> op[r].intent, txHash |-> op[r].hash]

\* The wallet, the intent, the ledger row and the COMMIT.
CommitDeposit(r) ==
    /\ pc[r] = "locked"
    /\ ~TxUsed(r)
    /\ ~KeyUsed(r)
    /\ wallet' = [wallet EXCEPT ![op[r].wallet] = Credited(snap[r], IntentAmount[op[r].intent])]
    /\ intent' = [intent EXCEPT ![op[r].intent] =
                     [status |-> "CONFIRMED", txHash |-> op[r].hash]]
    /\ ledger' = ledger \cup {DepositEntry(r)}
    /\ Answer(r, "ok")

TxDuplicate(r) ==
    /\ pc[r] = "locked"
    /\ TxUsed(r)
    /\ Answer(r, "txUsed")
    /\ RolledBack

(***************************************************************************)
(* The key is in the ledger already: everything is rolled back, the intent *)
(* stays PENDING, and the handler answers with the wallet as on success.   *)
(***************************************************************************)
KeyDuplicate(r) ==
    /\ pc[r] = "locked"
    /\ ~TxUsed(r)
    /\ KeyUsed(r)
    /\ Answer(r, "swallowed")
    /\ RolledBack

\* The RPC node or the database is lost: the transaction rolls back.
Fail(r) ==
    /\ pc[r] \in {"verify", "lockWallet", "locked"}
    /\ Answer(r, "failed")
    /\ RolledBack

Handle(r) ==
    \/ NotFound(r)
    \/ Replayed(r)
    \/ NotPending(r)
    \/ Expire(r)
    \/ LockIntent(r)
    \/ Verify(r)
    \/ Reject(r)
    \/ LockWallet(r)
    \/ CommitDeposit(r)
    \/ TxDuplicate(r)
    \/ KeyDuplicate(r)

AllAnswered ==
    /\ \A r \in Request : pc[r] = "done"
    /\ UNCHANGED vars

Next ==
    \/ \E i \in Intent : CreateIntent(i) \/ TimePasses(i)
    \/ \E t \in Tx : Mine(t)
    \/ \E r \in Request, o \in Confirmation : Send(r, o)
    \/ \E r \in Request : Handle(r) \/ Fail(r)
    \/ AllAnswered

Spec == Init /\ [][Next]_vars
-----------------------------------------------------------------------------
TypeOK ==
    /\ wallet \in [Wallet -> Row]
    /\ \A e \in ledger :
        /\ e.by \in Request
        /\ e.wallet \in Wallet
        /\ e.amount \in Nat
        /\ e.operationKey \in OperationKey \cup {NoKey}
        /\ e.intentId \in Intent
        /\ e.txHash \in Hash
    /\ lock \in [Wallet -> Request \cup {Free}]
    /\ intent \in [Intent -> [status : Status, txHash : Hash \cup {NoHash}]]
    /\ ilock \in [Intent -> Request \cup {Free}]
    /\ overdue \subseteq Intent
    /\ mined \subseteq Tx
    /\ op \in [Request -> Confirmation \cup {NoOp}]
    /\ pc \in [Request -> Step]
    /\ snap \in [Request -> Row]
    /\ reply \in [Request -> Reply]

(***************************************************************************)
(* A chain transaction is credited again only for another intent, one that *)
(* it pays as well, and under another spelling of its hash, however many   *)
(* requests present it: where no two intents share address and amount it   *)
(* is credited once.                                                       *)
(***************************************************************************)
RecreditsNeedTwins ==
    \A e, f \in ledger :
        e # f /\ TxOf[e.txHash] = TxOf[f.txHash] =>
            /\ e.txHash # f.txHash
            /\ e.intentId # f.intentId
            /\ {e.intentId, f.intentId} \subseteq
                  {i \in Pays[TxOf[e.txHash]] : intent[i].status = "CONFIRMED"}

(***************************************************************************)
(* The intent and the ledger tell the same story: an intent is CONFIRMED   *)
(* exactly when one ledger row credits it, with its amount and its         *)
(* transaction, to its owner; an expired one was never credited.           *)
(***************************************************************************)
CreditMatchesIntent ==
    /\ \A i \in Intent :
        intent[i].status = "CONFIRMED" => \E e \in ledger : e.intentId = i
    /\ \A e \in ledger :
        /\ intent[e.intentId] = [status |-> "CONFIRMED", txHash |-> e.txHash]
        /\ e.wallet = Owner[e.intentId]
        /\ e.amount = IntentAmount[e.intentId]
    /\ \A e, f \in ledger : e.intentId = f.intentId => e = f

\* Money is credited only for a transaction that paid it on chain.
CreditWasPaid ==
    \A e \in ledger :
        /\ TxOf[e.txHash] \in mined \ Reverted
        /\ e.intentId \in Pays[TxOf[e.txHash]]

\* Clients use one key for one confirmation only.
KeysNameOneConfirmation ==
    \A q, r \in Request :
        /\ op[q] # NoOp
        /\ op[r] # NoOp
        /\ op[q].key = op[r].key
        /\ op[q].key # NoKey
        => op[q] = op[r]

(***************************************************************************)
(* Success means credited: a request answered as confirmed or as a replay  *)
(* finds its intent confirmed with its transaction, for good.  So does one *)
(* whose key was taken, as long as no key is used for two intents.         *)
(***************************************************************************)
SuccessIsConfirmed ==
    \A r \in Request :
        \/ reply[r] \in {"ok", "replayed"}
        \/ reply[r] = "swallowed" /\ KeysNameOneConfirmation
        => intent[op[r].intent] = [status |-> "CONFIRMED", txHash |-> op[r].hash]

\* CONFIRMED and EXPIRED are final, also against confirmations in flight.
StatusIsFinal ==
    [][\A i \in Intent :
        intent[i].status \in {"CONFIRMED", "EXPIRED"} => intent'[i] = intent[i]]_vars

\* The guards of Handle, put together, and who holds what a handler waits for.
CanGoOn(r) ==
    \/ pc[r] = "sent" /\ (Visible(r) => ilock[op[r].intent] = Free)
    \/ pc[r] = "lockWallet" /\ lock[op[r].wallet] = Free
    \/ pc[r] \in {"verify", "locked"}

Holder(r) == IF pc[r] = "sent" THEN ilock[op[r].intent] ELSE lock[op[r].wallet]

(***************************************************************************)
(* Intents are locked before wallets, so confirmations need no deadlock    *)
(* detector: who has to wait waits for one that can go on, or for one that *)
(* waits for such a one.                                                   *)
(***************************************************************************)
WaitsAreShort ==
    \A r \in Request : pc[r] \notin {"idle", "done"} =>
        \/ CanGoOn(r)
        \/ \E p \in Request :
            /\ p = Holder(r)
            /\ CanGoOn(p) \/ \E q \in Request : q = Holder(p) /\ CanGoOn(q)

(***************************************************************************)
(* Confirmations implement the atomic book of LedgerBook: each credits the *)
(* balance of that moment, none overwrites another, and a key counts once. *)
(***************************************************************************)
Book == INSTANCE LedgerBook WITH
            balance <- [w \in Wallet |-> wallet[w].balance],
            paid <- UsedKeys,
            posted <- {[by |-> e.by, wallet |-> e.wallet, change |-> Micro(e.amount)]
                          : e \in ledger},
            Id <- Request,
            Key <- OperationKey,
            Money <- {Micro(IntentAmount[i]) : i \in Intent}

ConfirmationsImplementBook == Book!Spec
=============================================================================
