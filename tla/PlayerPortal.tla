---------------------------- MODULE PlayerPortal ----------------------------
(***************************************************************************)
(* The player portal in a browser tab: the wallet of MetaMask it is        *)
(* connected to (WalletContext), a trade with the TokenShop contract       *)
(* (Trade), the history of the account (Portfolio) and of everyone         *)
(* (Dashboard), which it asks the server for over and over (useApiData).   *)
(*                                                                         *)
(* A page keeps the account it shows and the signer it signs with apart:   *)
(* when the player picks another account in MetaMask only the former       *)
(* follows.  A handler works on with both as they were when its button was *)
(* pressed, and answers arrive in any order.                               *)
(*                                                                         *)
(* Several trades may run: the button is blocked while one is pending, but *)
(* another mode, asset or page takes that back.  Left out: quotes,         *)
(* balances, the token, which none of these requests needs, the player     *)
(* session before a trade in a game, whose failure is ignored, and the     *)
(* buttons of the game wallet, whose requests StudioData has.              *)
(***************************************************************************)
EXTENDS Naturals, FiniteSets

CONSTANTS
    Account,        \* what the player has in MetaMask
    MaxTrades,      \* bounds
    MaxSwitches,    \* changes of the account, reloads, refused requests
    MaxAsked,       \* requests for the history under way
    Everyone,       \* whose trades the Dashboard shows
    None

ASSUME PortalAssumption ==
    /\ MaxTrades \in Nat /\ MaxSwitches \in Nat /\ MaxAsked \in Nat
    /\ None \notin Account \cup {Everyone} /\ Everyone \notin Account

VARIABLES
    page,       \* the one that is open
    chosen,     \* MetaMask's account for the site, None when locked or refused
    wallet,     \* WalletContext: the address and the signer
    connecting, \* connect() or the reconnection of a new page
    trade,      \* the calls of handleTrade
    asked,      \* requests for a history, with the rows once they are read
    shown,      \* the history on the page
    chain,      \* of each trade, who sent it and whether it is confirmed
    stored,     \* the trades shop_events has
    logged,     \* economic events: <<trade, account>>
    switches    \* counts what MaxSwitches bounds

tab == <<page, wallet, connecting, trade, asked, shown>>
outside == <<chosen, chain, stored, logged>>
portalVars == <<tab, outside, switches>>

Pages == {"Dashboard", "Trade", "Portfolio"}
Trades == 1..MaxTrades
Unread == Trades \cup {0}

NotConnecting == [step |-> "idle", account |-> None, signer |-> None]
NoTrade == [step |-> "idle", address |-> None, signer |-> None]
NoHistory == [account |-> None, rows |-> {}]
NoWallet == [address |-> None, signer |-> None]

PortalInit ==
    /\ page = "Trade"
    /\ chosen = None
    /\ wallet = NoWallet
    /\ connecting = NotConnecting
    /\ trade = [e \in Trades |-> NoTrade]
    /\ asked = {}
    /\ shown = NoHistory
    /\ chain = [e \in Trades |-> [sender |-> None, confirmed |-> FALSE]]
    /\ stored = {}
    /\ logged = {}
    /\ switches = 0

Bounded ==
    /\ switches < MaxSwitches
    /\ switches' = switches + 1
-----------------------------------------------------------------------------
(* useApiData.                                                             *)

Question(a) == [account |-> a, rows |-> Unread]

\* Whose history a page asks for while a is connected.
Subject(p, a) ==
    CASE p = "Portfolio" -> a
      [] p = "Dashboard" /\ a # None -> Everyone
      [] OTHER -> None

\* The effect on the path: a new account is asked for, the old rows stay;
\* without an account they go.
PathChanges(a) ==
    LET s == Subject(page, a)
    IN IF s = Subject(page, wallet.address) THEN UNCHANGED <<asked, shown>>
       ELSE IF s = None THEN shown' = NoHistory /\ UNCHANGED asked
       ELSE /\ Cardinality(asked) < MaxAsked
            /\ asked' = asked \cup {Question(s)}
            /\ UNCHANGED shown

\* Mutant of Refreshes: only as long as nothing has come.
RefreshesMutant == Subject(page, wallet.address) # None /\ shown = NoHistory

\* The intervals of the two pages, their buttons.
Refreshes == Subject(page, wallet.address) # None

Refresh ==
    /\ Refreshes
    /\ Cardinality(asked) < MaxAsked
    /\ asked' = asked \cup {Question(Subject(page, wallet.address))}
    /\ UNCHANGED <<page, wallet, connecting, trade, shown, outside, switches>>

\* getSummary and getRecentActivity, which has room for all trades (bound).
RowsOf(a) == {e \in stored : a \in {chain[e].sender, Everyone}}

\* getUserHistory.
Serve(q) ==
    /\ q.rows = Unread
    /\ asked' = (asked \ {q}) \cup {[q EXCEPT !.rows = RowsOf(q.account)]}
    /\ UNCHANGED <<page, wallet, connecting, trade, shown, outside, switches>>

\* Whatever the path is by now.
Arrive(q) ==
    /\ q.rows # Unread
    /\ asked' = asked \ {q}
    /\ shown' = q
    /\ UNCHANGED <<page, wallet, connecting, trade, outside, switches>>

RequestFails(q) ==
    /\ Bounded
    /\ asked' = asked \ {q}
    /\ UNCHANGED <<page, wallet, connecting, trade, shown, outside>>

\* Another page: answers for the one that is left have nowhere to go.
Navigate(p) ==
    /\ p # page
    /\ page' = p
    /\ shown' = NoHistory
    /\ asked' = {Question(s) : s \in {Subject(p, wallet.address)} \ {None}}
    /\ UNCHANGED <<wallet, connecting, trade, outside, switches>>
-----------------------------------------------------------------------------
(* WalletContext.                                                          *)

\* The player picks an account, or takes the site's access away, and the page
\* hears of it: handleAccountsChanged, disconnect.
SwitchAccount(a) ==
    /\ Bounded /\ a # chosen
    /\ chosen' = a
    /\ wallet' = IF a = None THEN NoWallet ELSE [wallet EXCEPT !.address = a]
    /\ PathChanges(a)
    /\ UNCHANGED <<page, connecting, trade, chain, stored, logged>>

Disconnect ==
    /\ wallet.address # None /\ Bounded
    /\ wallet' = NoWallet
    /\ PathChanges(None)
    /\ UNCHANGED <<page, connecting, trade, outside>>

Connect ==
    /\ wallet.address = None /\ connecting = NotConnecting
    /\ connecting' = [NotConnecting EXCEPT !.step = "accounts"]
    /\ UNCHANGED <<page, wallet, trade, asked, shown, outside, switches>>

\* The account and the signer come one after the other.
GetAccounts ==
    /\ connecting.step = "accounts" /\ chosen # None
    /\ connecting' = [connecting EXCEPT !.step = "signer", !.account = chosen]
    /\ UNCHANGED <<page, wallet, trade, asked, shown, outside, switches>>

GetSigner ==
    /\ connecting.step = "signer" /\ chosen # None
    /\ connecting' = [connecting EXCEPT !.step = "set", !.signer = chosen]
    /\ UNCHANGED <<page, wallet, trade, asked, shown, outside, switches>>

\* authenticateWallet takes its time, and the connection goes on however it
\* ends: the step between the signer and the address.

SetWallet ==
    /\ connecting.step = "set"
    /\ wallet' = [address |-> connecting.account, signer |-> connecting.signer]
    /\ connecting' = NotConnecting
    /\ PathChanges(connecting.account)
    /\ UNCHANGED <<page, trade, outside, switches>>

ConnectFails ==
    /\ connecting # NotConnecting /\ Bounded
    /\ connecting' = NotConnecting
    /\ UNCHANGED <<page, wallet, trade, asked, shown, outside>>

\* The chain or the player makes the tab load anew.
Reload ==
    /\ Bounded
    /\ wallet' = NoWallet
    /\ connecting' = [NotConnecting EXCEPT !.step = IF chosen = None THEN "idle" ELSE "accounts"]
    /\ trade' = [e \in Trades |-> NoTrade]
    /\ asked' = {}
    /\ shown' = NoHistory
    /\ UNCHANGED <<page, outside>>
-----------------------------------------------------------------------------
(* Trade: handleTrade.                                                     *)

Press(e) ==
    /\ page = "Trade" /\ trade[e] = NoTrade
    /\ wallet.address # None /\ wallet.signer # None
    /\ chain[e].sender = None /\ \A f \in 1..(e - 1) : chain[f].sender # None
    /\ trade' = [trade EXCEPT ![e] =
            [step |-> "send", address |-> wallet.address, signer |-> wallet.signer]]
    /\ UNCHANGED <<page, wallet, connecting, asked, shown, outside, switches>>

\* MetaMask sends for any account the site has access to.
Send(e) ==
    /\ trade[e].step = "send" /\ chosen # None
    /\ chain' = [chain EXCEPT ![e].sender = trade[e].signer]
    /\ trade' = [trade EXCEPT ![e].step = "wait"]
    /\ UNCHANGED <<page, wallet, connecting, asked, shown, chosen, stored, logged, switches>>

\* tx.wait(), then POST /api/sync, which Store stands for; in a game an event.
Confirmed(e) ==
    /\ trade[e].step = "wait" /\ chain[e].confirmed
    /\ trade' \in {[trade EXCEPT ![e].step = "event"], [trade EXCEPT ![e] = NoTrade]}
    /\ UNCHANGED <<page, wallet, connecting, asked, shown, outside, switches>>

\* Mutant of Verified: the signature is not looked at.
VerifiedMutant(signer, a) == TRUE

\* The server recovers the signer of the message it issued for the account.
Verified(signer, a) == signer = a

\* The event is posted for the account that was shown, signed by the signer.
LogEvent(e) ==
    /\ trade[e].step = "event"
    /\ logged' = logged \cup
            IF Verified(trade[e].signer, trade[e].address)
            THEN {<<e, trade[e].address>>} ELSE {}
    /\ trade' = [trade EXCEPT ![e] = NoTrade]
    /\ UNCHANGED <<page, wallet, connecting, asked, shown, chosen, chain, stored, switches>>

\* The player refuses, a transaction or a request fails.
TradeFails(e) ==
    /\ trade[e] # NoTrade /\ Bounded
    /\ trade' = [trade EXCEPT ![e] = NoTrade]
    /\ UNCHANGED <<page, wallet, connecting, asked, shown, outside>>

\* The chain, and the listener, which stores every trade in the end.
Confirm(e) ==
    /\ chain[e].sender # None /\ ~chain[e].confirmed
    /\ chain' = [chain EXCEPT ![e].confirmed = TRUE]
    /\ UNCHANGED <<tab, chosen, stored, logged, switches>>

Store(e) ==
    /\ chain[e].confirmed /\ e \notin stored
    /\ stored' = stored \cup {e}
    /\ UNCHANGED <<tab, chosen, chain, logged, switches>>

PortalNext ==
    \/ Refresh
    \/ \E p \in Pages : Navigate(p)
    \/ \E q \in asked : Serve(q) \/ Arrive(q) \/ RequestFails(q)
    \/ \E a \in Account \cup {None} : SwitchAccount(a)
    \/ Disconnect \/ Connect \/ GetAccounts \/ GetSigner \/ SetWallet \/ ConnectFails
    \/ Reload
    \/ \E e \in Trades :
        \/ Press(e) \/ Send(e) \/ Confirmed(e) \/ LogEvent(e) \/ TradeFails(e)
        \/ Confirm(e) \/ Store(e)

\* The interval goes on, requests are answered, and the listener stores.
PortalFairness ==
    /\ WF_portalVars(Refresh)
    /\ WF_portalVars(\E q \in asked : Serve(q))
    /\ WF_portalVars(\E q \in asked : Arrive(q))
    /\ WF_portalVars(\E e \in Trades : Store(e))

PortalSpec == PortalInit /\ [][PortalNext]_portalVars /\ PortalFairness
-----------------------------------------------------------------------------
PortalTypeOK ==
    /\ page \in Pages
    /\ chosen \in Account \cup {None}
    /\ wallet \in [{"address", "signer"} -> Account \cup {None}]
    /\ asked \subseteq [account : Account \cup {Everyone}, rows : SUBSET (Trades \cup {0})]
    /\ stored \subseteq Trades /\ logged \subseteq Trades \X Account

(***************************************************************************)
(* A trade is attributed, in a game, to the account that made it and only  *)
(* when it is confirmed, although the account shown may differ from the    *)
(* signer's and change at any time between the button and the event.       *)
(***************************************************************************)
EventsNameTheSender ==
    \A l \in logged : chain[l[1]].sender = l[2] /\ chain[l[1]].confirmed

Belong(a) == {e \in Trades : chain[e].confirmed /\ a \in {chain[e].sender, Everyone}}

Shows(a) ==
    /\ shown.account = a
    /\ shown.rows = Belong(a)

(***************************************************************************)
(* An answer may be late and for an earlier account, but under an account  *)
(* there is never a trade that another one made or that is not confirmed:  *)
(* what is wrong with a history is that it lacks rows.                     *)
(***************************************************************************)
HistoriesOnlyLack == shown.rows \subseteq Belong(shown.account)

(***************************************************************************)
(* A page that stays open on an account's trades, or on everyone's, ends   *)
(* up with them, all of them, for good: answers for an earlier account,    *)
(* answers read too early and failed requests are made up for.             *)
(***************************************************************************)
PagesCatchUp ==
    \A a \in Account \cup {Everyone} :
        <>[](Subject(page, wallet.address) = a) => <>[]Shows(a)
=============================================================================
