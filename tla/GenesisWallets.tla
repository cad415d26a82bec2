--------------------------- MODULE GenesisWallets ---------------------------
(***************************************************************************)
(* GenesisWallet.sol, a wallet contract whose code its owner may replace   *)
(* two days after announcing it, and the factory that deploys one wallet   *)
(* for an owner.  The module follows the wallet of one account.            *)
(***************************************************************************)
EXTENDS TriToken

CONSTANTS
    Implementation, \* addresses of wallet code; Original is the factory's
    Original,
    UpgradeDelay,   \* 2 days, in the ticks of the clock
    MaxTime

Address0 == "none"      \* address(0)

ASSUME GenesisWalletsAssumption ==
    /\ UpgradeDelay \in Nat
    /\ Original \in Implementation /\ Address0 \notin Implementation

VARIABLES
    now,            \* block.timestamp
    genesis,         \* [exists, owner, implementation, pending, readyAt]
    pendingSince    \* when wallet.pending last changed

walletVars == <<now, genesis, pendingSince>>

InitWallet ==
    /\ now = 0
    /\ genesis = [owner |-> Address0, implementation |-> Address0, pending |-> Address0, readyAt |-> 0]
    /\ pendingSince = 0

\* createWallet, which anybody may call for any owner without a wallet.
CreateWallet(owner) ==
    /\ genesis.owner = Address0
    /\ genesis' = [genesis EXCEPT !.owner = owner, !.implementation = Original]
    /\ UNCHANGED <<token, now, pendingSince>>

\* Mutant: a second proposal keeps the time of the first.
ProposeUpgradeMutant(u, impl) ==
    /\ genesis.owner = u
    /\ genesis' = [genesis EXCEPT !.pending = impl,
                                !.readyAt = IF genesis.pending = Address0 THEN now + UpgradeDelay ELSE @]
    /\ pendingSince' = IF genesis.pending = impl THEN pendingSince ELSE now
    /\ UNCHANGED <<token, now>>

ProposeUpgrade(u, impl) ==
    /\ genesis.owner = u
    /\ genesis' = [genesis EXCEPT !.pending = impl, !.readyAt = now + UpgradeDelay]
    /\ pendingSince' = IF genesis.pending = impl THEN pendingSince ELSE now
    /\ UNCHANGED <<token, now>>

CancelUpgrade(u) ==
    /\ genesis.owner = u
    /\ genesis' = [genesis EXCEPT !.pending = Address0, !.readyAt = 0]
    /\ pendingSince' = now
    /\ UNCHANGED <<token, now>>

\* upgradeToAndCall, through _authorizeUpgrade.
Upgrade(u, impl) ==
    /\ genesis.owner = u
    /\ impl = genesis.pending
    /\ now >= genesis.readyAt
    /\ genesis' = [genesis EXCEPT !.implementation = impl, !.pending = Address0, !.readyAt = 0]
    /\ pendingSince' = now
    /\ UNCHANGED <<token, now>>

\* transferOwnership of OpenZeppelin's Ownable leaves a proposal pending.
TransferOwnership(u, to) ==
    /\ genesis.owner = u
    /\ genesis' = [genesis EXCEPT !.owner = to]
    /\ UNCHANGED <<token, now, pendingSince>>

WithdrawTRI(u, amount) ==
    /\ genesis.owner = u
    /\ Covers(tri, "wallet", amount)
    /\ tri' = Moved(tri, "wallet", u, amount)
    /\ UNCHANGED <<supply, walletVars>>

Tick ==
    /\ now < MaxTime
    /\ now' = now + 1
    /\ UNCHANGED <<token, genesis, pendingSince>>

WalletTransaction ==
    \E u \in Player :
        \/ CreateWallet(u) \/ CancelUpgrade(u) \/ WithdrawTRI(u, 1)
        \/ \E impl \in Implementation : ProposeUpgrade(u, impl) \/ Upgrade(u, impl)
        \/ \E to \in Player : TransferOwnership(u, to)
-----------------------------------------------------------------------------
(***************************************************************************)
(* New code was announced: the code of a deployed wallet changes only to   *)
(* an implementation that has been pending, without a change or a          *)
(* cancellation in between, for the whole delay, and one announcement      *)
(* allows one upgrade.                                                     *)
(***************************************************************************)
UpgradesWereAnnounced ==
    [][(genesis.owner # Address0 /\ genesis'.implementation # genesis.implementation)
       => /\ genesis'.implementation = genesis.pending
          /\ now - pendingSince >= UpgradeDelay
          /\ genesis'.pending = Address0]_<<token, walletVars>>
=============================================================================
