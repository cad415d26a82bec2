--------------------------- MODULE MCWalletLedger ---------------------------
(***************************************************************************)
(* Small instances of WalletLedger for TLC.                                *)
(***************************************************************************)
EXTENDS WalletLedger, TLC

CONSTANTS w1, w2, w3, r1, r2, r3, k1

\* Wallets that hold 2 micro-units each; amounts of 1 and 2 micro-units.
MCOpening == [w \in Wallet |-> 200]

SinglesOf(kinds, wallets, amounts, keys) ==
    [kind : kinds, wallet : wallets, amount : amounts, key : keys]
TransfersOf(kinds, froms, tos, amounts, keys) ==
    [kind : kinds, from : froms, to : tos, amount : amounts, key : keys]

Plain(k) == <<k, "plain">>

\* Every handler once, retries under one key, and a key that collides.
MCMixed ==
    SinglesOf({"deposit"}, {w1}, {150}, {Plain(k1)})
    \cup SinglesOf({"withdraw"}, {w1}, {200}, {NoKey})
    \cup SinglesOf({"playerWithdraw"}, Wallet, {200}, {Plain(k1)})
    \cup SinglesOf({"deposit"}, {w2}, {100}, {<<k1, "debit">>})
    \cup TransfersOf({"transfer"}, {w1}, Wallet, {200}, {k1})
    \cup TransfersOf({"transfer"}, {w2}, {w1}, {149}, {NoKey})
    \cup TransfersOf({"playerTransfer"}, {w2}, {w1}, {200}, {k1, NoKey})

\* Transfers both ways and around a ring of three wallets, to oneself, keyed
\* and not, of a fractional amount.
MCTransfers ==
    TransfersOf({"transfer"}, {w1, w2}, {w1, w2}, {149}, {NoKey})
    \cup TransfersOf({"playerTransfer"}, {w1}, {w2}, {149, 200}, {k1})
    \cup TransfersOf({"playerTransfer"}, {w2}, {w3}, {200}, {NoKey})
    \cup TransfersOf({"transfer"}, {w3}, {w1}, {100}, {NoKey})

RequestSymmetry == Permutations(Request)
=============================================================================
