------------------------- MODULE TokenShopListener -------------------------
(***************************************************************************)
(* The indexer of the TokenShop contract: it copies Bought and Sold events *)
(* from the chain into shop_events and tax_event, by polling block ranges  *)
(* above a saved cursor and, when a WebSocket is configured, by handling   *)
(* each event as it arrives.  The process may crash between any two steps; *)
(* the tables stay.                                                        *)
(*                                                                         *)
(* Worker 0 is the sync, which syncInProgress keeps single; worker e > 0   *)
(* is the WebSocket handler of event e.  They interleave at every await.   *)
(***************************************************************************)
EXTENDS Integers

CONSTANTS
    N,              \* events 1..N, in chain order
    BlockOf,        \* [1..N -> 1..LastBlock]
    LastBlock,      \* the chain stops growing here
    IsBought,       \* [1..N -> BOOLEAN], FALSE for Sold
    Environment,    \* the settings it may run with: [webSocket, production : BOOLEAN]
    MaxFailures     \* crashes, errors and stale answers that may happen

Event == 1..N
Worker == 0..N

ASSUME TokenShopAssumption ==
    /\ N \in Nat
    /\ LastBlock \in Nat
    /\ BlockOf \in [Event -> 1..LastBlock]
    /\ \A e, f \in Event : e <= f => BlockOf[e] <= BlockOf[f]
    /\ IsBought \in [Event -> BOOLEAN]
    /\ Environment \subseteq [webSocket : BOOLEAN, production : BOOLEAN]
    /\ MaxFailures \in Nat

VARIABLES
    env,            \* WS_RPC_URL is set, NODE_ENV is "production"
    tip,            \* the newest block of the chain
    shop,           \* [Event -> Nat], rows of shop_events for the event
    tax,            \* [Event -> Nat], rows of tax_event for the event
    cursor,         \* lastSyncedBlock
    syncInProgress,
    polling,        \* the timer is running
    at,             \* [Worker -> Step]
    copy,           \* [Worker -> Nat], the lastSyncedBlock the worker has read
    latest,         \* the block number the sync works up to
    todo,           \* the logs the sync has still to persist
    failures        \* counts what MaxFailures bounds

tables == <<shop, tax, cursor>>
process == <<syncInProgress, polling, at, copy, latest, todo>>
vars == <<env, tip, shop, tax, cursor, syncInProgress, polling, at, copy, latest, todo, failures>>

Step ==
    {"idle", "readState", "clearTax", "resetCursor", "query", "lookUp",
     "insertShop", "logTax", "readCursor", "saveCursor"}

Init ==
    /\ env \in Environment
    /\ tip = 0
    /\ shop = [e \in Event |-> 0]
    /\ tax = [e \in Event |-> 0]
    /\ cursor = 0
    /\ syncInProgress = FALSE
    /\ polling = ~env.webSocket
    /\ at = [w \in Worker |-> "idle"]
    /\ copy = [w \in Worker |-> 0]
    /\ latest = 0
    /\ todo = {}
    /\ failures = 0

Goto(w, step) == at' = [at EXCEPT ![w] = step]
Failure ==
    /\ failures < MaxFailures
    /\ failures' = failures + 1

MineBlock ==
    /\ tip < LastBlock
    /\ tip' = tip + 1
    /\ UNCHANGED <<env, tables, process, failures>>
-----------------------------------------------------------------------------
(***************************************************************************)
(* syncOnce, called by the timer, at start-up and by POST /api/sync.  The  *)
(* node may have failed over to a replica that lags behind.                *)
(***************************************************************************)
StartSync ==
    /\ ~syncInProgress
    /\ syncInProgress' = TRUE
    /\ \/ latest' = tip /\ UNCHANGED failures
       \/ latest' \in 0..(tip - 1) /\ Failure
    /\ Goto(0, "readState")
    /\ UNCHANGED <<env, tip, tables, polling, copy, todo>>

\* syncOnce returns, normally or through its catch.
EndSync ==
    /\ syncInProgress' = FALSE
    /\ Goto(0, "idle")
    /\ todo' = {}

MayClear == ~env.production

NothingToSync ==
    /\ at[0] = "readState"
    /\ IF cursor > latest THEN ~MayClear ELSE cursor + 1 > latest
    /\ EndSync
    /\ UNCHANGED <<env, tip, tables, polling, copy, latest, failures>>

ReadState ==
    /\ at[0] = "readState"
    /\ cursor + 1 <= latest
    /\ copy' = [copy EXCEPT ![0] = cursor]
    /\ Goto(0, "query")
    /\ UNCHANGED <<env, tip, tables, syncInProgress, polling, latest, todo, failures>>

\* The cursor is ahead of the tip: the chain is taken to have been wiped.
ClearShop ==
    /\ at[0] = "readState"
    /\ cursor > latest
    /\ MayClear
    /\ shop' = [e \in Event |-> 0]
    /\ Goto(0, "clearTax")
    /\ UNCHANGED <<env, tip, tax, cursor, syncInProgress, polling, copy, latest, todo, failures>>

ClearTax ==
    /\ at[0] = "clearTax"
    /\ tax' = [e \in Event |-> 0]
    /\ Goto(0, "resetCursor")
    /\ UNCHANGED <<env, tip, shop, cursor, syncInProgress, polling, copy, latest, todo, failures>>

ResetCursor ==
    /\ at[0] = "resetCursor"
    /\ cursor' = 0
    /\ copy' = [copy EXCEPT ![0] = 0]
    /\ IF latest = 0
       THEN EndSync
       ELSE Goto(0, "query") /\ UNCHANGED <<syncInProgress, todo>>
    /\ UNCHANGED <<env, tip, shop, tax, polling, latest, failures>>

\* Mutant of FirstBlock: the block after the next.
FirstBlockMutant == copy[0] + 2

FirstBlock == copy[0] + 1

\* Both queryFilter calls: the logs of blocks up to "latest" no longer change.
Query ==
    /\ at[0] = "query"
    /\ todo' = {e \in Event : BlockOf[e] \in FirstBlock..latest}
    /\ Goto(0, "lookUp")
    /\ UNCHANGED <<env, tip, tables, syncInProgress, polling, copy, latest, failures>>

(***************************************************************************)
(* The sync persists all Bought logs of its range before the Sold ones,    *)
(* each kind in chain order; a handler persists its own event.             *)
(***************************************************************************)
Before(e, f) == IF IsBought[e] = IsBought[f] THEN e <= f ELSE IsBought[e]
Doing(w) == IF w = 0 THEN CHOOSE e \in todo : \A f \in todo : Before(e, f) ELSE w
AtEvent(w, step) == at[w] = step /\ (w = 0 => todo # {})

\* The handler of an event begins, or the event is delivered again.
Deliver(e) ==
    /\ env.webSocket
    /\ BlockOf[e] <= tip
    /\ at[e] = "idle"
    /\ Goto(e, "lookUp")
    /\ UNCHANGED <<env, tip, tables, syncInProgress, polling, copy, latest, todo, failures>>

\* persistParsedEvent returns: the next log, or the handler's own cursor update.
Persisted(w) ==
    IF w = 0
    THEN Goto(w, "lookUp") /\ todo' = todo \ {Doing(w)}
    ELSE Goto(w, "readCursor") /\ UNCHANGED todo

Stored(e) == tax[e] > 0 \/ shop[e] > 0

LookUp(w) ==
    /\ AtEvent(w, "lookUp")
    /\ IF Stored(Doing(w)) THEN Persisted(w) ELSE Goto(w, "insertShop") /\ UNCHANGED todo
    /\ UNCHANGED <<env, tip, tables, syncInProgress, polling, copy, latest, failures>>

\* INSERT is refused when the table has a row for the event.
Unique(table, e) == table[e] = 0

InsertShop(w) ==
    LET e == Doing(w)
    IN  /\ AtEvent(w, "insertShop")
        /\ Unique(shop, e)
        /\ shop' = [shop EXCEPT ![e] = @ + 1]
        /\ Goto(w, "logTax")
        /\ UNCHANGED <<env, tip, tax, cursor, syncInProgress, polling, copy, latest, todo, failures>>

\* taxService.logEvent.
LogTax(w) ==
    LET e == Doing(w)
    IN  /\ AtEvent(w, "logTax")
        /\ Unique(tax, e)
        /\ tax' = [tax EXCEPT ![e] = @ + 1]
        /\ Persisted(w)
        /\ UNCHANGED <<env, tip, shop, cursor, syncInProgress, polling, copy, latest, failures>>

\* The worker ends in its catch: for the sync, the cursor stays where it was.
Stops(w) ==
    /\ IF w = 0 THEN EndSync ELSE Goto(w, "idle") /\ UNCHANGED <<syncInProgress, todo>>
    /\ UNCHANGED <<env, tip, tables, polling, copy, latest>>

Duplicate(w) ==
    /\ \/ AtEvent(w, "insertShop") /\ ~Unique(shop, Doing(w))
       \/ AtEvent(w, "logTax") /\ ~Unique(tax, Doing(w))
    /\ Stops(w)
    /\ UNCHANGED failures

\* Mutant of SaveSyncCursor: saved although logs are left.
SaveSyncCursorMutant ==
    /\ at[0] = "lookUp"
    /\ cursor' = latest
    /\ EndSync
    /\ UNCHANGED <<env, tip, shop, tax, polling, copy, latest, failures>>

SaveSyncCursor ==
    /\ at[0] = "lookUp"
    /\ todo = {}
    /\ cursor' = latest
    /\ EndSync
    /\ UNCHANGED <<env, tip, shop, tax, polling, copy, latest, failures>>

\* handleWebSocketEvent: reads the cursor, and saves its block if that is newer.
ReadCursor(e) ==
    /\ at[e] = "readCursor"
    /\ copy' = [copy EXCEPT ![e] = cursor]
    /\ Goto(e, IF BlockOf[e] > cursor THEN "saveCursor" ELSE "idle")
    /\ UNCHANGED <<env, tip, tables, syncInProgress, polling, latest, todo, failures>>

SaveCursor(e) ==
    /\ at[e] = "saveCursor"
    /\ cursor' = BlockOf[e]
    /\ Goto(e, "idle")
    /\ UNCHANGED <<env, tip, shop, tax, syncInProgress, polling, copy, latest, todo, failures>>

\* POST /api/sync/reindex, up to its own syncOnce.
Reindex ==
    /\ cursor' = 0
    /\ UNCHANGED <<env, tip, shop, tax, process, failures>>
-----------------------------------------------------------------------------
\* A worker's query or RPC call fails.
Caught(w) == Stops(w)

WorkerFails(w) ==
    /\ at[w] # "idle"
    /\ Failure
    /\ Caught(w)

\* The WebSocket drops: back to polling.
WebSocketError ==
    /\ env.webSocket
    /\ ~polling
    /\ polling' = TRUE
    /\ UNCHANGED <<env, tip, tables, syncInProgress, at, copy, latest, todo, failures>>

\* The process dies and starts again.
Crash ==
    /\ Failure
    /\ syncInProgress' = FALSE
    /\ polling' = ~env.webSocket
    /\ at' = [w \in Worker |-> "idle"]
    /\ copy' = [w \in Worker |-> 0]
    /\ latest' = 0
    /\ todo' = {}
    /\ UNCHANGED <<env, tip, tables>>

SyncStep ==
    \/ NothingToSync
    \/ ReadState
    \/ ClearShop
    \/ ClearTax
    \/ ResetCursor
    \/ Query
    \/ LookUp(0)
    \/ InsertShop(0)
    \/ LogTax(0)
    \/ Duplicate(0)
    \/ SaveSyncCursor

HandlerStep(e) ==
    \/ LookUp(e)
    \/ InsertShop(e)
    \/ LogTax(e)
    \/ Duplicate(e)
    \/ ReadCursor(e)
    \/ SaveCursor(e)

Next ==
    \/ MineBlock
    \/ StartSync
    \/ SyncStep
    \/ Reindex
    \/ \E e \in Event : Deliver(e) \/ HandlerStep(e)
    \/ \E w \in Worker : WorkerFails(w)
    \/ WebSocketError
    \/ Crash

Spec == Init /\ [][Next]_vars

\* The timer fires again and again, and a sync that can go on does.
FairSpec ==
    /\ Spec
    /\ WF_vars(polling /\ StartSync)
    /\ WF_vars(SyncStep)
-----------------------------------------------------------------------------
TypeOK ==
    /\ env \in Environment
    /\ tip \in 0..LastBlock
    /\ shop \in [Event -> Nat]
    /\ tax \in [Event -> Nat]
    /\ cursor \in 0..LastBlock
    /\ syncInProgress \in BOOLEAN
    /\ polling \in BOOLEAN
    /\ at \in [Worker -> Step]
    /\ copy \in [Worker -> 0..LastBlock]
    /\ latest \in 0..LastBlock
    /\ todo \subseteq Event
    /\ failures \in 0..MaxFailures
    /\ syncInProgress = (at[0] # "idle")

\* Outside production a stale answer looks like a wiped chain and clears the
\* tables; only a second failure, in the middle of that, loses trades.
PollsOnly == ~env.webSocket /\ (env.production \/ failures <= 1)

(***************************************************************************)
(* While polling alone feeds the tables, the cursor never passes a trade   *)
(* that is not stored, so a later sync cannot miss it; while the tables    *)
(* are being cleared the cursor still stands for the old rows.  (With a    *)
(* WebSocket a handler saves its own block over trades still to come.)     *)
(***************************************************************************)
NothingSkipped ==
    PollsOnly /\ at[0] \notin {"clearTax", "resetCursor"} =>
        \A e \in Event : BlockOf[e] <= cursor => shop[e] > 0

(***************************************************************************)
(* Once trades are on the chain, polling stores them, whatever failed.     *)
(***************************************************************************)
EveryTradeStored ==
    \A e \in Event : (PollsOnly /\ BlockOf[e] <= tip) ~> (shop[e] > 0 \/ ~PollsOnly)
=============================================================================
