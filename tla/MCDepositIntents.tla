-------------------------- MODULE MCDepositIntents --------------------------
(***************************************************************************)
(* Small instances of DepositIntents for TLC: intents a and b of one       *)
(* player share an address and an amount.                                  *)
(***************************************************************************)
EXTENDS DepositIntents, TLC

CONSTANTS w1, w2, r1, r2, r3, a, b, t1, t2, t3, h1, H1, h2, h3, k1

MCOpening == [w \in Wallet |-> 0]
MCOwner == [i \in Intent |-> w1]
MCAmount == [i \in Intent |-> 150]

\* t1 fits both a and b, t2 and t3 fit b; t3 is the one that may be reverted.
MCPays == [t \in Tx |-> IF t = t1 THEN {a, b} ELSE {b}]

\* h1 and H1 are two spellings of t1.
MCTxOf == [h \in Hash |-> IF h \in {h1, H1} THEN t1 ELSE IF h = h2 THEN t2 ELSE t3]

Plain(k) == <<k, "plain">>

\* Right and wrong transactions, wrong players, one key for two intents.
MCConfirmations ==
    [intent : {a}, hash : {h1}, wallet : {w1}, key : {NoKey, Plain(k1)}]
    \cup [intent : {b}, hash : {h1, h2}, wallet : {w1}, key : {Plain(k1)}]
    \cup [intent : {b}, hash : Hash, wallet : {w1}, key : {NoKey}]
    \cup [intent : {a}, hash : {h1}, wallet : {w2}, key : {NoKey}]

RequestSymmetry == Permutations(Request)
=============================================================================
