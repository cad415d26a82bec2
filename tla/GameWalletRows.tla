--------------------------- MODULE GameWalletRows ---------------------------
(***************************************************************************)
(* The rows every wallet service of the platform shares: game_wallets,     *)
(* ledger_entries and the row locks PostgreSQL keeps on game_wallets.      *)
(*                                                                         *)
(* Money is counted in units of 10^-8, the scale of the decimal(30,8)      *)
(* columns.  safe-math.ts computes in units of 10^-6, so a balance moves   *)
(* by the amount rounded to a multiple of 100 units while the ledger row   *)
(* keeps the amount itself.                                                *)
(***************************************************************************)
EXTENDS Integers

CONSTANTS
    Wallet,     \* ids of game_wallets rows
    Request,    \* ids of HTTP requests; each runs one handler once
    Key,        \* idempotency keys a client may send
    NoKey,      \* the null operationKey
    Free,       \* the owner of an unlocked row
    Opening     \* [Wallet -> Nat], what was deposited before the run

ASSUME GameWalletAssumption ==
    /\ Free \notin Request
    /\ NoKey \notin Key \X {"plain", "debit", "credit"}
    /\ NoKey \notin Key
    /\ \A w \in Wallet : Opening[w] \in Nat /\ Opening[w] % 100 = 0

VARIABLES
    wallet,     \* [Wallet -> Row], the committed game_wallets rows
    ledger,     \* the committed ledger_entries rows
    lock        \* [Wallet -> Request \cup {Free}], FOR UPDATE locks held

rowVars == <<wallet, ledger, lock>>

(***************************************************************************)
(* operationKey values.  A transfer derives "<key>:debit" and              *)
(* "<key>:credit"; every other operation stores the key as it is, and a    *)
(* client may send a key that already ends in one of those suffixes.       *)
(***************************************************************************)
OperationKey == Key \X {"plain", "debit", "credit"}

Row == [balance : Int, totalDeposited : Int, totalWithdrawn : Int]

\* What a handler that has read nothing yet holds.
EmptyRow == [balance |-> 0, totalDeposited |-> 0, totalWithdrawn |-> 0]

OpeningRow(w) ==
    [balance |-> Opening[w], totalDeposited |-> Opening[w], totalWithdrawn |-> 0]

(***************************************************************************)
(* A ledger row.  "by" (the request that wrote it) and "side" (whether it  *)
(* records money entering or leaving the wallet) are history: the table    *)
(* has neither column, a transfer row says which side it is only through   *)
(* its key suffix and description.                                         *)
(***************************************************************************)
Entry(r, w, type, side, amount, key) ==
    [by |-> r, wallet |-> w, type |-> type, side |-> side,
     amount |-> amount, operationKey |-> key]

UsedKeys == {e.operationKey : e \in ledger} \ {NoKey}

(***************************************************************************)
(* safeAdd and safeSub: both arguments are rounded to 10^-6, half up.      *)
(***************************************************************************)
Micro(x) == ((x + 50) \div 100) * 100
SafeAdd(balance, amount) == Micro(balance) + Micro(amount)
SafeSub(balance, amount) == Micro(balance) - Micro(amount)

\* The row a handler computes in memory for money entering the wallet.
Credited(row, amount) ==
    [balance |-> SafeAdd(row.balance, amount),
     totalDeposited |-> SafeAdd(row.totalDeposited, amount),
     totalWithdrawn |-> row.totalWithdrawn]

\* The row a handler computes in memory for money leaving the wallet.
Debited(row, amount) ==
    [balance |-> SafeSub(row.balance, amount),
     totalDeposited |-> row.totalDeposited,
     totalWithdrawn |-> SafeAdd(row.totalWithdrawn, amount)]

\* Mutant of Covers: the balance is not compared.
CoversMutant(row, amount) == TRUE

Covers(row, amount) == amount <= row.balance

\* SELECT ... FOR UPDATE succeeds when no other transaction holds the row.
LockRow(r, w) ==
    /\ lock[w] \in {Free, r}
    /\ lock' = [lock EXCEPT ![w] = r]

\* COMMIT or ROLLBACK releases every row lock of the transaction.
Unlocked(r) == [w \in Wallet |-> IF lock[w] = r THEN Free ELSE lock[w]]

RowsInit ==
    /\ wallet = [w \in Wallet |-> OpeningRow(w)]
    /\ ledger = {}
    /\ lock = [w \in Wallet |-> Free]
=============================================================================
