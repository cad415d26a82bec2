---------------------------- MODULE WalletLedger ----------------------------
(***************************************************************************)
(* Deposits, withdrawals and transfers on game wallets, as concurrent HTTP *)
(* requests over the shared rows of GameWalletRows.                        *)
(*                                                                         *)
(* Each handler is cut where another request can run: at every await that  *)
(* reads or writes the database.  Deposits and withdrawals read the wallet *)
(* before their transaction and save what they computed from it; transfers *)
(* lock both rows first.  A write and its COMMIT are one step: until the   *)
(* COMMIT nobody sees the write, and who waits for its row lock would wait *)
(* for the COMMIT anyway.                                                  *)
(***************************************************************************)
EXTENDS GameWalletRows

CONSTANTS
    Amount,         \* amounts a client may ask for
    Operation,      \* what requests may ask for, see SingleOp and TransferOp
    KycBlocked,     \* wallets of custodial users that are not verified
    AmlFlagged,     \* amounts worth 10,000 USD or more at TRI_USD_PRICE
    NoOp            \* the operation of a request not yet sent

(***************************************************************************)
(* parseAmount lets positive amounts through; every other request stops    *)
(* before it reads anything.                                               *)
(***************************************************************************)
SingleOp ==
    [kind : {"deposit", "withdraw", "playerWithdraw"}, wallet : Wallet,
     amount : Amount, key : OperationKey \cup {NoKey}]

TransferOp ==
    [kind : {"transfer", "playerTransfer"}, from : Wallet, to : Wallet,
     amount : Amount, key : Key \cup {NoKey}]

ASSUME WalletLedgerAssumption ==
    /\ \A a \in Amount : a \in Nat \ {0}
    /\ \A o \in Operation : o \in SingleOp \/ o \in TransferOp
    /\ NoOp \notin Operation
    /\ KycBlocked \subseteq Wallet
    /\ AmlFlagged \subseteq Amount

VARIABLES
    op,         \* [Request -> Operation \cup {NoOp}]
    pc,         \* [Request -> Step], where each handler stands
    snap,       \* [Request -> [Wallet -> Row]], rows the handler has in memory
    stale,      \* [Request -> BOOLEAN], save() will write the third column too
    amlFlags,   \* requests that inserted an aml_flags row
    reply       \* [Request -> Reply]

reqVars == <<op, pc, snap, stale, amlFlags, reply>>
vars == <<wallet, ledger, lock, op, pc, snap, stale, amlFlags, reply>>

Step ==
    {"idle", "sent", "gated", "read", "diffed", "lockFrom", "lockTo", "locked",
     "done"}

Reply ==
    {"none", "ok", "replayed", "insufficient", "conflict", "forbidden",
     "selfTransfer", "failed"}

IsTransfer(r) == op[r].kind \in {"transfer", "playerTransfer"}
IsDebit(r) == op[r].kind # "deposit"

\* The operationKey values of the ledger rows a request will insert.
KeysOf(o) ==
    IF o.key = NoKey THEN {}
    ELSE IF o.kind \in {"transfer", "playerTransfer"}
         THEN {<<o.key, "debit">>, <<o.key, "credit">>}
         ELSE {o.key}

LegKey(o, leg) == IF o.key = NoKey THEN NoKey ELSE <<o.key, leg>>

Init ==
    /\ RowsInit
    /\ op = [r \in Request |-> NoOp]
    /\ pc = [r \in Request |-> "idle"]
    /\ snap = [r \in Request |-> [w \in Wallet |-> EmptyRow]]
    /\ stale = [r \in Request |-> FALSE]
    /\ amlFlags = {}
    /\ reply = [r \in Request |-> "none"]

Goto(r, step) == pc' = [pc EXCEPT ![r] = step]

\* Mutant of Answer: the handler returns with its transaction open.
AnswerMutant(r, answer) ==
    /\ Goto(r, "done")
    /\ reply' = [reply EXCEPT ![r] = answer]
    /\ UNCHANGED <<lock, op, snap, stale, amlFlags>>

\* The handler returns or throws, and its transaction ends.
Answer(r, answer) ==
    /\ Goto(r, "done")
    /\ reply' = [reply EXCEPT ![r] = answer]
    /\ lock' = Unlocked(r)
    /\ UNCHANGED <<op, snap, stale, amlFlags>>

\* A client sends a request; a retry is another request with the same key.
Send(r, o) ==
    /\ pc[r] = "idle"
    /\ op' = [op EXCEPT ![r] = o]
    /\ Goto(r, "sent")
    /\ UNCHANGED <<rowVars, snap, stale, amlFlags, reply>>

\* checkAndFlag: the withdrawal is flagged, never stopped.
Flagged(r) == op[r].amount \in AmlFlagged

(***************************************************************************)
(* playerWithdrawFromGameWallet: the KYC gate, then the AML check, both    *)
(* before the handler looks at the wallet or at the idempotency key.       *)
(***************************************************************************)
PlayerGate(r) ==
    /\ pc[r] = "sent"
    /\ op[r].kind = "playerWithdraw"
    /\ op[r].wallet \notin KycBlocked
    /\ amlFlags' = IF Flagged(r) THEN amlFlags \cup {r} ELSE amlFlags
    /\ Goto(r, "gated")
    /\ UNCHANGED <<rowVars, op, snap, stale, reply>>

PlayerRefused(r) ==
    /\ pc[r] = "sent"
    /\ op[r].kind = "playerWithdraw"
    /\ op[r].wallet \in KycBlocked
    /\ Answer(r, "forbidden")
    /\ UNCHANGED <<wallet, ledger>>

\* Where a handler reads its wallets and looks its keys up.
AtKeyLookup(r) ==
    /\ \/ pc[r] = "gated"
       \/ pc[r] = "sent" /\ op[r].kind # "playerWithdraw"
    /\ IsTransfer(r) => op[r].from # op[r].to

SelfTransfer(r) ==
    /\ pc[r] = "sent"
    /\ IsTransfer(r)
    /\ op[r].from = op[r].to
    /\ Answer(r, "selfTransfer")
    /\ UNCHANGED <<wallet, ledger>>

\* Every key of the request is in the ledger: answered as a replay.
ReplayFound(r) ==
    /\ AtKeyLookup(r)
    /\ KeysOf(op[r]) # {}
    /\ KeysOf(op[r]) \subseteq UsedKeys
    /\ Answer(r, "replayed")
    /\ UNCHANGED <<wallet, ledger>>

\* Only one leg of the transfer is there.
ReplayInconsistent(r) ==
    /\ AtKeyLookup(r)
    /\ KeysOf(op[r]) \cap UsedKeys # {}
    /\ ~(KeysOf(op[r]) \subseteq UsedKeys)
    /\ Answer(r, "conflict")
    /\ UNCHANGED <<wallet, ledger>>

(***************************************************************************)
(* depositToGameWallet, withdrawFromGameWallet and the rest of             *)
(* playerWithdrawFromGameWallet: the wallet is read, without a lock, before *)
(* the transaction begins.                                                 *)
(***************************************************************************)
ReadWallet(r) ==
    /\ AtKeyLookup(r)
    /\ ~IsTransfer(r)
    /\ KeysOf(op[r]) \cap UsedKeys = {}
    /\ IsDebit(r) => Covers(wallet[op[r].wallet], op[r].amount)
    /\ snap' = [snap EXCEPT ![r][op[r].wallet] = wallet[op[r].wallet]]
    /\ Goto(r, "read")
    /\ UNCHANGED <<rowVars, op, stale, amlFlags, reply>>

ReadInsufficient(r) ==
    /\ AtKeyLookup(r)
    /\ ~IsTransfer(r)
    /\ KeysOf(op[r]) \cap UsedKeys = {}
    /\ IsDebit(r)
    /\ ~Covers(wallet[op[r].wallet], op[r].amount)
    /\ Answer(r, "insufficient")
    /\ UNCHANGED <<wallet, ledger>>

\* The column of the row the handler does not recompute.
OtherTotal(r, row) == IF IsDebit(r) THEN row.totalDeposited ELSE row.totalWithdrawn

(***************************************************************************)
(* walletRepo.save(wallet), first half: TypeORM selects the row, without a *)
(* lock, and will update the columns whose value differs from the entity.  *)
(* The two recomputed ones always do ("5" is not "5.00000000"), the third  *)
(* one when another request has changed it since the handler read it.      *)
(***************************************************************************)
DiffWallet(r) ==
    /\ pc[r] = "read"
    /\ stale' = [stale EXCEPT ![r] =
                    OtherTotal(r, snap[r][op[r].wallet])
                        # OtherTotal(r, wallet[op[r].wallet])]
    /\ Goto(r, "diffed")
    /\ UNCHANGED <<rowVars, op, snap, amlFlags, reply>>

Computed(r) ==
    LET row == snap[r][op[r].wallet]
    IN  IF IsDebit(r) THEN Debited(row, op[r].amount) ELSE Credited(row, op[r].amount)

\* What the UPDATE leaves in the row.
Saved(r) ==
    LET now == wallet[op[r].wallet]
    IN  IF stale[r] THEN Computed(r)
        ELSE IF IsDebit(r) THEN [Computed(r) EXCEPT !.totalDeposited = now.totalDeposited]
        ELSE [Computed(r) EXCEPT !.totalWithdrawn = now.totalWithdrawn]

SingleEntry(r) ==
    IF IsDebit(r)
    THEN Entry(r, op[r].wallet, "withdraw", "out", op[r].amount, op[r].key)
    ELSE Entry(r, op[r].wallet, "deposit", "in", op[r].amount, op[r].key)

(***************************************************************************)
(* The UPDATE, once no other transaction holds the row, the INSERT of the  *)
(* ledger row, and the COMMIT.                                             *)
(***************************************************************************)
CommitSingle(r) ==
    /\ pc[r] = "diffed"
    /\ lock[op[r].wallet] = Free
    /\ KeysOf(op[r]) \cap UsedKeys = {}
    /\ wallet' = [wallet EXCEPT ![op[r].wallet] = Saved(r)]
    /\ ledger' = ledger \cup {SingleEntry(r)}
    /\ Answer(r, "ok")

(***************************************************************************)
(* transferBetweenPlayersInGame looks the keys up inside its transaction,  *)
(* playerTransferBetweenPlayers before it and with a first look at the     *)
(* balance.  Then both lock the sender's row and the recipient's.          *)
(***************************************************************************)
BeginTransfer(r) ==
    /\ AtKeyLookup(r)
    /\ IsTransfer(r)
    /\ KeysOf(op[r]) \cap UsedKeys = {}
    /\ op[r].kind = "playerTransfer" => Covers(wallet[op[r].from], op[r].amount)
    /\ Goto(r, "lockFrom")
    /\ UNCHANGED <<rowVars, op, snap, stale, amlFlags, reply>>

BeginInsufficient(r) ==
    /\ AtKeyLookup(r)
    /\ op[r].kind = "playerTransfer"
    /\ KeysOf(op[r]) \cap UsedKeys = {}
    /\ ~Covers(wallet[op[r].from], op[r].amount)
    /\ Answer(r, "insufficient")
    /\ UNCHANGED <<wallet, ledger>>

LockFrom(r) ==
    /\ pc[r] = "lockFrom"
    /\ LockRow(r, op[r].from)
    /\ snap' = [snap EXCEPT ![r][op[r].from] = wallet[op[r].from]]
    /\ Goto(r, "lockTo")
    /\ UNCHANGED <<wallet, ledger, op, stale, amlFlags, reply>>

\* Mutant of LockTo: the copy read before the lock is kept.
LockToMutant(r) ==
    /\ pc[r] = "lockTo"
    /\ LockRow(r, op[r].to)
    /\ Goto(r, "locked")
    /\ UNCHANGED <<wallet, ledger, op, snap, stale, amlFlags, reply>>

LockTo(r) ==
    /\ pc[r] = "lockTo"
    /\ LockRow(r, op[r].to)
    /\ snap' = [snap EXCEPT ![r][op[r].to] = wallet[op[r].to]]
    /\ Goto(r, "locked")
    /\ UNCHANGED <<wallet, ledger, op, stale, amlFlags, reply>>

TransferEntries(r) ==
    {Entry(r, op[r].from, "transfer", "out", op[r].amount, LegKey(op[r], "debit")),
     Entry(r, op[r].to, "transfer", "in", op[r].amount, LegKey(op[r], "credit"))}

\* Both rows are saved from the locked copies, sender first.
CommitTransfer(r) ==
    /\ pc[r] = "locked"
    /\ Covers(snap[r][op[r].from], op[r].amount)
    /\ KeysOf(op[r]) \cap UsedKeys = {}
    /\ wallet' = [wallet EXCEPT ![op[r].from] = Debited(snap[r][op[r].from], op[r].amount),
                                ![op[r].to] = Credited(snap[r][op[r].to], op[r].amount)]
    /\ ledger' = ledger \cup TransferEntries(r)
    /\ Answer(r, "ok")

TransferInsufficient(r) ==
    /\ pc[r] = "locked"
    /\ ~Covers(snap[r][op[r].from], op[r].amount)
    /\ Answer(r, "insufficient")
    /\ UNCHANGED <<wallet, ledger>>

\* Mutant of DuplicateKey: the rolled back rows are returned as saved.
DuplicateKeyMutant(r) ==
    /\ \/ pc[r] = "diffed" /\ lock[op[r].wallet] = Free
       \/ pc[r] = "locked" /\ Covers(snap[r][op[r].from], op[r].amount)
    /\ KeysOf(op[r]) \cap UsedKeys # {}
    /\ Answer(r, "ok")
    /\ UNCHANGED <<wallet, ledger>>

(***************************************************************************)
(* The INSERT violates uq_ledger_operation_key_not_null: the transaction   *)
(* rolls back and the handler answers with the wallets as they now are.    *)
(***************************************************************************)
DuplicateKey(r) ==
    /\ \/ pc[r] = "diffed" /\ lock[op[r].wallet] = Free
       \/ pc[r] = "locked" /\ Covers(snap[r][op[r].from], op[r].amount)
    /\ KeysOf(op[r]) \cap UsedKeys # {}
    /\ Answer(r, "replayed")
    /\ UNCHANGED <<wallet, ledger>>

(***************************************************************************)
(* PostgreSQL.  A transfer waits for the recipient's row while it holds    *)
(* the sender's; a set of transfers that wait for exactly one another is a *)
(* deadlock, and the server aborts one of them.  A lost connection rolls   *)
(* back too.  The handlers rethrow both errors.                            *)
(***************************************************************************)
Deadlocked(S) ==
    /\ \A r \in S : pc[r] = "lockTo"
    /\ {lock[op[r].to] : r \in S} = S

DeadlockVictim(r) ==
    /\ \E S \in SUBSET Request : r \in S /\ Deadlocked(S)
    /\ Answer(r, "failed")
    /\ UNCHANGED <<wallet, ledger>>

ConnectionLost(r) ==
    /\ pc[r] \in {"read", "diffed", "lockFrom", "lockTo", "locked"}
    /\ Answer(r, "failed")
    /\ UNCHANGED <<wallet, ledger>>

Handle(r) ==
    \/ PlayerGate(r)
    \/ PlayerRefused(r)
    \/ SelfTransfer(r)
    \/ ReplayFound(r)
    \/ ReplayInconsistent(r)
    \/ ReadWallet(r)
    \/ ReadInsufficient(r)
    \/ DiffWallet(r)
    \/ CommitSingle(r)
    \/ BeginTransfer(r)
    \/ BeginInsufficient(r)
    \/ LockFrom(r)
    \/ LockTo(r)
    \/ CommitTransfer(r)
    \/ TransferInsufficient(r)
    \/ DuplicateKey(r)
    \/ DeadlockVictim(r)

AllAnswered ==
    /\ \A r \in Request : pc[r] = "done"
    /\ UNCHANGED vars

Next ==
    \/ \E r \in Request, o \in Operation : Send(r, o)
    \/ \E r \in Request : Handle(r) \/ ConnectionLost(r)
    \/ AllAnswered

Spec == Init /\ [][Next]_vars

\* A handler that can go on does, and the deadlock detector always runs.
FairSpec == Spec /\ \A r \in Request : WF_vars(Handle(r))
-----------------------------------------------------------------------------
TypeOK ==
    /\ wallet \in [Wallet -> Row]
    /\ \A e \in ledger :
        /\ e.by \in Request
        /\ e.wallet \in Wallet
        /\ e.amount \in Amount
        /\ e.operationKey \in OperationKey \cup {NoKey}
    /\ lock \in [Wallet -> Request \cup {Free}]
    /\ op \in [Request -> Operation \cup {NoOp}]
    /\ pc \in [Request -> Step]
    /\ snap \in [Request -> [Wallet -> Row]]
    /\ stale \in [Request -> BOOLEAN]
    /\ amlFlags \subseteq Request
    /\ reply \in [Request -> Reply]

(***************************************************************************)
(* No wallet ever shows a negative balance or total, whatever stale copy   *)
(* was saved over whatever newer one (the CHECKs of game_wallets would     *)
(* turn such a save into an error 500).                                    *)
(***************************************************************************)
NonNegative ==
    \A w \in Wallet :
        /\ wallet[w].balance >= 0
        /\ wallet[w].totalDeposited >= 0
        /\ wallet[w].totalWithdrawn >= 0

(***************************************************************************)
(* Retries are safe: however often and however concurrently one key is     *)
(* sent, at most one row carries it.                                       *)
(***************************************************************************)
KeyAppliedOnce ==
    \A e, f \in ledger :
        /\ e.operationKey # NoKey
        /\ e.operationKey = f.operationKey
        => e = f

\* Clients use one key for one operation only.
KeysNameOneOperation ==
    \A q, r \in Request :
        /\ op[q] # NoOp
        /\ op[r] # NoOp
        /\ KeysOf(op[q]) \cap KeysOf(op[r]) # {}
        => op[q] = op[r]

(***************************************************************************)
(* A success is a success: "ok" means this request's rows are committed,   *)
(* and when clients use a key for one operation only, an answer given as a *)
(* replay means a request for the very same operation committed its rows.  *)
(***************************************************************************)
SuccessIsApplied ==
    \A r \in Request :
        /\ reply[r] = "ok" => \E e \in ledger : e.by = r
        /\ reply[r] = "replayed" /\ KeysNameOneOperation
            => \E e \in ledger : reply[e.by] = "ok" /\ op[e.by] = op[r]

(***************************************************************************)
(* Row locks: a lock is held only by a transfer that is between its first  *)
(* FOR UPDATE and its COMMIT, on one of its own wallets, and the copy that *)
(* transfer will save is still the row: no deposit or withdrawal slipped   *)
(* in behind the lock.                                                     *)
(***************************************************************************)
LockedCopiesAreFresh ==
    \A w \in Wallet, r \in Request :
        lock[w] = r =>
            /\ \/ pc[r] = "lockTo" /\ w = op[r].from
               \/ pc[r] = "locked" /\ w \in {op[r].from, op[r].to}
            /\ snap[r][w] = wallet[w]

(***************************************************************************)
(* What a ledger row says happened to its wallet's balance in the step     *)
(* that committed it.                                                      *)
(***************************************************************************)
Moved(w) == wallet'[w].balance - wallet[w].balance
Posted(e) == IF e.side = "in" THEN Micro(e.amount) ELSE -Micro(e.amount)

(***************************************************************************)
(* A transfer moves exactly its amount from one current balance to the     *)
(* other and touches no third wallet, whatever unlocked deposits and       *)
(* withdrawals run beside it; and it never overdraws the sender.           *)
(***************************************************************************)
TransferMovesItsAmount ==
    [][\A r \in Request :
        pc[r] = "locked" /\ reply'[r] = "ok" =>
            LET f == op[r].from
                t == op[r].to
                m == Micro(op[r].amount)
            IN  /\ Moved(f) = -m
                /\ Moved(t) = m
                /\ op[r].amount <= wallet[f].balance
                /\ \A w \in Wallet \ {f, t} : wallet'[w] = wallet[w]]_vars

(***************************************************************************)
(* Every request is answered, also when transfers in opposite directions   *)
(* wait for each other's rows.                                             *)
(***************************************************************************)
EveryRequestAnswered == \A r \in Request : pc[r] = "sent" ~> pc[r] = "done"

(***************************************************************************)
(* A handler waits for nobody but the holder of a row, and a deadlock that *)
(* it is part of ends it: the guards of Handle, put together.              *)
(***************************************************************************)
CanGoOn(r) ==
    \/ pc[r] \in {"sent", "gated", "read", "locked"}
    \/ pc[r] = "diffed" /\ lock[op[r].wallet] = Free
    \/ pc[r] = "lockFrom" /\ lock[op[r].from] = Free
    \/ pc[r] = "lockTo" /\ lock[op[r].to] = Free
    \/ \E S \in SUBSET Request : r \in S /\ Deadlocked(S)

UnderWay(r) == pc[r] \notin {"idle", "done"}

(***************************************************************************)
(* Waiting for rows never brings everything to a halt: as long as requests *)
(* are under way, one of them can go on.  The deadlock detector looks for  *)
(* circles only, and a chain of waits ends in one or in a request that     *)
(* waits for nobody.                                                       *)
(***************************************************************************)
SomebodyCanGoOn == (\E r \in Request : UnderWay(r)) => \E r \in Request : CanGoOn(r)

(***************************************************************************)
(* The atomic book the locking operations implement.  "paid" holds the     *)
(* keys whose transfer is in the ledger, "posted" what its rows say.       *)
(***************************************************************************)
Book == INSTANCE LedgerBook WITH
            balance <- [w \in Wallet |-> wallet[w].balance],
            paid <- {k \in Key : <<k, "debit">> \in UsedKeys},
            posted <- {[by |-> e.by, wallet |-> e.wallet, change |-> Posted(e)] : e \in ledger},
            Id <- Request,
            Money <- {Micro(a) : a \in Amount}

\* Transfers alone behave as if each took effect at once (see Operation).
TransfersImplementBook == Book!Spec
=============================================================================
