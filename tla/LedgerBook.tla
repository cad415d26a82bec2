----------------------------- MODULE LedgerBook -----------------------------
(***************************************************************************)
(* What the platform's wallets promise, without rows, locks or requests:   *)
(* every operation takes effect in one step, on the balances of that       *)
(* moment, never beyond what a wallet holds; it takes effect at most once, *)
(* and one idempotency key at most once; and what is posted about it is    *)
(* what it did to the balance.                                             *)
(***************************************************************************)
EXTENDS Integers

CONSTANTS
    Wallet,
    Id,         \* what identifies one operation
    Key,        \* idempotency keys
    NoKey,      \* no key
    Opening,    \* [Wallet -> Nat], the opening balances
    Money       \* the amounts that may move

VARIABLES
    balance,    \* [Wallet -> Nat]
    paid,       \* idempotency keys that have taken effect
    posted      \* what each operation did to each wallet

vars == <<balance, paid, posted>>

Posting(id, w, change) == [by |-> id, wallet |-> w, change |-> change]

Init ==
    /\ balance = [w \in Wallet |-> Opening[w]]
    /\ paid = {}
    /\ posted = {}

\* An operation takes effect once, and so does its key, if it has one.
Use(id, k) ==
    /\ \A p \in posted : p.by # id
    /\ k \notin paid
    /\ paid' = paid \cup ({k} \ {NoKey})

Earn(id, w, m, k) ==
    /\ Use(id, k)
    /\ balance' = [balance EXCEPT ![w] = @ + m]
    /\ posted' = posted \cup {Posting(id, w, m)}

Spend(id, w, m, k) ==
    /\ m <= balance[w]
    /\ Use(id, k)
    /\ balance' = [balance EXCEPT ![w] = @ - m]
    /\ posted' = posted \cup {Posting(id, w, -m)}

Pay(id, from, to, m, k) ==
    /\ from # to
    /\ m <= balance[from]
    /\ Use(id, k)
    /\ balance' = [balance EXCEPT ![from] = @ - m, ![to] = @ + m]
    /\ posted' = posted \cup {Posting(id, from, -m), Posting(id, to, m)}

Next ==
    \E id \in Id, k \in Key \cup {NoKey}, w \in Wallet, m \in Money :
        \/ Earn(id, w, m, k)
        \/ Spend(id, w, m, k)
        \/ \E to \in Wallet : Pay(id, w, to, m, k)

Spec == Init /\ [][Next]_vars
=============================================================================
