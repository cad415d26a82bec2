----------------------------- MODULE MCNftShop -----------------------------
(***************************************************************************)
(* Small instances of NftShop for TLC: template t has two mints, template  *)
(* u no cap, and every player can pay for one of each, not both.           *)
(***************************************************************************)
EXTENDS NftShop, TLC

CONSTANTS p, q, r1, r2, r3, t, u, k1, k2

MCOpening == [w \in Wallet |-> 200]
MCCost == [x \in Template |-> IF x = t THEN 150 ELSE 100]
MCCap == [x \in Template |-> IF x = t THEN 2 ELSE 0]

Buys(players, templates, keys) ==
    [kind : {"buy"}, player : players, template : templates, key : keys]
Mints(players, templates) == [kind : {"mint"}, player : players, template : templates]

\* Retries, one key of two players and for two templates, and an admin.
MCMixed ==
    Buys({p}, {t}, {NoKey, k1}) \cup Buys({p}, {u}, {k1})
    \cup Buys({q}, {t}, {k1, k2}) \cup Mints({p, q}, {t})

RequestSymmetry == Permutations(Request)
=============================================================================
