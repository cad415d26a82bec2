------------------------ MODULE MCTokenShopListener ------------------------
(***************************************************************************)
(* Small instances for TLC.  TokenShopListener: a sale in block 1 and a    *)
(* purchase in block 2, which the sync may find in one range or in two.    *)
(* PlayerPortal: two accounts and two trades, beside a listener of which   *)
(* it needs only that every trade is stored in the end, which is what the  *)
(* other world checks (EveryTradeStored).                                  *)
(***************************************************************************)
EXTENDS TokenShopListener, PlayerPortal

VARIABLE portal     \* which of the two is looked at

worlds == <<vars, portalVars, portal>>

MCBlockOf == [e \in Event |-> e]
MCIsBought == [e \in Event |-> e # 1]

\* Handlers beside the sync in production; polling alone anywhere.
MCEnvironment == {
    [webSocket |-> TRUE, production |-> TRUE],
    [webSocket |-> FALSE, production |-> TRUE],
    [webSocket |-> FALSE, production |-> FALSE]}

Listener == ~portal /\ UNCHANGED <<portalVars, portal>>
Portal == portal /\ UNCHANGED <<vars, portal>>

MCInit == Init /\ PortalInit /\ portal \in BOOLEAN

\* FairSpec and PortalSpec, each in its world.
MCSpec ==
    /\ MCInit
    /\ [][(Listener /\ Next) \/ (Portal /\ PortalNext)]_worlds
    /\ WF_worlds(Listener /\ polling /\ StartSync)
    /\ WF_worlds(Listener /\ SyncStep)
    /\ WF_worlds(Portal /\ Refresh)
    /\ WF_worlds(Portal /\ \E q \in asked : Serve(q))
    /\ WF_worlds(Portal /\ \E q \in asked : Arrive(q))
    /\ WF_worlds(Portal /\ \E e \in Trades : Store(e))
=============================================================================
