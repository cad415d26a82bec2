----------------------------- MODULE MCContracts -----------------------------
EXTENDS Contracts, TLC

CONSTANTS p, q

MCRates == {<<2000, 3000>>, <<1000, 1000>>}
MCShares == {<<3333, 3333, 3334>>}
Players == Permutations(Player)
=============================================================================
