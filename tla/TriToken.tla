------------------------------ MODULE TriToken ------------------------------
(***************************************************************************)
(* The TRI token as the contracts of the platform use it, and the helpers  *)
(* they share.  A transaction either does all of its steps or reverts: an  *)
(* action is a transaction that goes through.                              *)
(***************************************************************************)
EXTENDS Integers, FiniteSets

CONSTANTS
    Player,         \* accounts of players
    MaxMint         \* what an account with MINTER_ROLE mints in one call

\* The accounts that hold TRI: players, contracts and the receivers of fees.
Holder == Player \union
    {"shop", "market", "distributor", "safu", "dev", "triolith", "staking", "wallet"}

\* No player has the address of the shop or of the marketplace.
ASSUME TriTokenAssumption ==
    /\ IsFiniteSet(Player)
    /\ "shop" \notin Player /\ "market" \notin Player
    /\ MaxMint \in Nat

VARIABLES
    tri,            \* [Holder -> Nat], balanceOf
    supply          \* totalSupply

token == <<tri, supply>>

\* After the deployment and a first mint to every player.
InitToken ==
    /\ tri = [h \in Holder |-> IF h \in Player THEN MaxMint ELSE 0]
    /\ supply = MaxMint * Cardinality(Player)

\* Every unit that f gives to somebody, and how many these are.
Units(f) == UNION {{x} \X (1..f[x]) : x \in DOMAIN f}
SumOf(f) == Cardinality(Units(f))

Plus(balance, h, amount) == [balance EXCEPT ![h] = @ + amount]

\* transfer and transferFrom, given the allowance: revert below zero.
Covers(balance, from, amount) == balance[from] >= amount
Moved(balance, from, to, amount) ==
    [[balance EXCEPT ![from] = @ - amount] EXCEPT ![to] = @ + amount]

\* mint by an account with MINTER_ROLE, to a player or to a player's wallet.
MintTri(to, amount) ==
    /\ to \in Player \union {"wallet"}
    /\ tri' = Plus(tri, to, amount)
    /\ supply' = supply + amount

\* burn by an account with BURNER_ROLE, which needs no consent of the holder.
BurnTri(from, amount) ==
    /\ Covers(tri, from, amount)
    /\ tri' = Plus(tri, from, -amount)
    /\ supply' = supply - amount
=============================================================================
