----------------------------- MODULE TaxHistory -----------------------------
(***************************************************************************)
(* The tax events and the cost basis kept from them.  Logs of the chain    *)
(* reach TaxService.logEvent through the chain indexer (Sold and Transfer, *)
(* over a connection that delivers a log at once or never) and through the *)
(* token shop listener (Bought and Sold, stored sooner or later).  A log   *)
(* has legs: the events its handler stores one after the other, each with  *)
(* its price in SEK, its row in tax_event and its part in the cost basis   *)
(* of its user and asset.  Handlers interleave at every await.             *)
(***************************************************************************)
EXTENDS TaxReports, ChainIndexer, Sequences, FiniteSets

CONSTANTS
    Emitted,        \* sequence of the chain's logs, each at a time of its own
    DayOf,          \* [Log -> Day]
    RateOn          \* [Day -> SUBSET Nat], SEK per USD as the sources give it

Log == DOMAIN Emitted
Day == {DayOf[l] : l \in Log}

LegOf(user, asset, type, amount, usd) ==
    [user |-> user, asset |-> asset, type |-> type, amount |-> amount, usd |-> usd]

\* handleMarketplaceSold: the prices are in ETH, so none is known in USD.
SoldLegs(sale) ==
    << LegOf(sale.seller, sale.asset, "disposal", 1, Unknown),
       LegOf(sale.buyer, sale.asset, "acquisition", 1, Unknown),
       LegOf(sale.buyer, "TRI", "disposal", 1, Unknown) >>

\* handleTriTransfer: minting and burning is skipped.
TransferLegs(transfer) ==
    IF "zero" \in {transfer.from, transfer.to} THEN << >>
    ELSE << LegOf(transfer.from, "TRI", "disposal", 1, Unknown),
            LegOf(transfer.to, "TRI", "acquisition", 1, Unknown) >>

\* persistParsedEvent of the token shop listener.
TradeLegs(trade) ==
    << LegOf(trade.user, "TRI", IF trade.event = "Bought" THEN "acquisition" ELSE "disposal",
             trade.amount, trade.usd) >>

Legs == [l \in Log |->
    CASE Emitted[l].event = "Marketplace.Sold" -> SoldLegs(Emitted[l])
      [] Emitted[l].event = "Transfer" -> TransferLegs(Emitted[l])
      [] OTHER -> TradeLegs(Emitted[l])]

FromShop(l) == Emitted[l].event \in {"Bought", "Sold"}

KeyOf(leg) == <<leg.user, leg.asset>>
Key == UNION {{KeyOf(Legs[l][i]) : i \in DOMAIN Legs[l]} : l \in Log}
User == {k[1] : k \in Key}

\* getAssetPriceInSEK prices what resolveCoinId finds among a few symbols; the
\* handlers name assets by their addresses, which are none of them.
KnownAssets == {"eth", "ethereum", "weth", "usdc", "usdt", "dai"}
OracleKnows(asset) == asset \in KnownAssets

ASSUME TaxHistoryAssumption ==
    /\ Len(Emitted) \in Nat /\ Log = 1..Len(Emitted)
    /\ RateOn \in [Day -> SUBSET Nat]
    /\ \A l \in Log : Emitted[l].event \in {"Marketplace.Sold", "Transfer", "Bought", "Sold"}
    /\ \A l \in Log : FromShop(l) =>
          /\ Emitted[l].amount \in Nat \ {0}
          /\ Emitted[l].usd \in Nat \/ Emitted[l].usd = Unknown
    /\ \A k \in Key : ~OracleKnows(k[2])

NoRow == [h |-> Nothing, last |-> -1]
NewRow == [h |-> Nothing, last |-> 0]
NoRate == 0

VARIABLES
    mined,          \* the chain has got this far
    doing,          \* [Log -> Stage], what the log's handler does next
    work,           \* [Log -> [leg, sek, id, copy, seen]], its local variables
    events,         \* tax_event: set of [id, log, leg, sek]
    nextId,         \* the sequence of its ids
    basis,          \* [Key -> row of tax_cost_basis, or NoRow]
    healthy,        \* tax_projection_state
    rates,          \* [Day -> cached rate, or NoRate]
    unsettled       \* keys whose updates overlapped, failed or were cut off

taxTables == <<events, nextId, basis, healthy>>
taxVars == <<mined, doing, work, taxTables, rates, unsettled, connection>>

Updating == {"find", "create", "select", "update"}
Running == {"value", "fetch", "insert", "healthy", "failed"} \union Updating
Stage == {"mine", "wait", "over"} \union Running

Leg(l) == Legs[l][work[l].leg]
MyKey(l) == KeyOf(Leg(l))

Idle == [leg |-> 1, sek |-> Unknown, id |-> 0, copy |-> NoRow, seen |-> NoRow]

TaxInit ==
    /\ mined = 0
    /\ doing = [l \in Log |-> "mine"]
    /\ work = [l \in Log |-> Idle]
    /\ events = {}
    /\ nextId = 1
    /\ basis = [k \in Key |-> NoRow]
    /\ healthy = TRUE
    /\ rates = [d \in Day |-> NoRate]
    /\ unsettled = {}
    /\ InitConnection

Continue(l, step) == doing' = [doing EXCEPT ![l] = step]
-----------------------------------------------------------------------------
(***************************************************************************)
(* The chain, and the two ways to a handler.                               *)
(***************************************************************************)
\* The indexer's subscription hears the log now or not at all.
Mine ==
    LET l == mined + 1
    IN /\ mined < Len(Emitted)
       /\ mined' = l
       /\ Continue(l, CASE FromShop(l) -> "wait"
                    [] ~FromShop(l) /\ Listening /\ Legs[l] # << >> -> "value"
                    [] OTHER -> "over")
       /\ UNCHANGED <<work, taxTables, rates, unsettled, connection>>

\* persistParsedEvent has stored the row of the shop and calls logEvent.
HandleShopLog(l) ==
    /\ doing[l] = "wait"
    /\ socket # "down"
    /\ Continue(l, "value")
    /\ UNCHANGED <<mined, work, taxTables, rates, unsettled, connection>>
-----------------------------------------------------------------------------
(***************************************************************************)
(* logEvent                                                                *)
(***************************************************************************)
InSek(price, rate) == IF rate = NoRate THEN Unknown ELSE price * rate

\* No positive price and no known coin, or a rate in the cache: no fetch.
Value(l) ==
    /\ doing[l] = "value"
    /\ IF Positive(Leg(l).usd) /\ rates[DayOf[l]] = NoRate
       THEN Continue(l, "fetch") /\ UNCHANGED work
       ELSE /\ Continue(l, "insert")
            /\ work' = [work EXCEPT ![l].sek =
                  IF Positive(Leg(l).usd) THEN InSek(Leg(l).usd, rates[DayOf[l]])
                  ELSE Unknown]
    /\ UNCHANGED <<mined, taxTables, rates, unsettled, connection>>

\* Riksbanken answers, or else the ECB, or neither.
Fetched(day) == RateOn[day] \union {NoRate}

FetchRate(l) ==
    /\ doing[l] = "fetch"
    /\ \E rate \in Fetched(DayOf[l]) :
          /\ rates' = IF rate = NoRate THEN rates ELSE [rates EXCEPT ![DayOf[l]] = rate]
          /\ work' = [work EXCEPT ![l].sek = InSek(Leg(l).usd, rate)]
    /\ Continue(l, "insert")
    /\ UNCHANGED <<mined, taxTables, unsettled, connection>>

Overlapping(l) ==
    \E m \in Log \ {l} : doing[m] \in Updating /\ MyKey(m) = MyKey(l)

\* The unique index on source, transaction and log index does not apply to the
\* indexer's legs: ethers hands a listener the log under .log, and the fields
\* that the indexer reads beside it are undefined.
InsertEvent(l) ==
    /\ doing[l] = "insert"
    /\ events' = events \union
          {[id |-> nextId, log |-> l, leg |-> work[l].leg, sek |-> work[l].sek]}
    /\ nextId' = nextId + 1
    /\ work' = [work EXCEPT ![l].id = nextId]
    /\ unsettled' = IF Overlapping(l) THEN unsettled \union {MyKey(l)} ELSE unsettled
    /\ Continue(l, "find")
    /\ UNCHANGED <<mined, basis, healthy, rates, connection>>

\* Mutant: the event right after the last processed one counts as processed.
FindBasisMutant(l) ==
    LET row == basis[MyKey(l)]
        known == IF row = NoRow THEN NewRow ELSE row
    IN /\ doing[l] = "find"
       /\ IF work[l].id <= known.last + 1
          THEN Continue(l, "healthy") /\ UNCHANGED work
          ELSE /\ work' = [work EXCEPT ![l].copy =
                     [h |-> Counted(known.h, Leg(l)), last |-> work[l].id]]
               /\ Continue(l, IF row = NoRow THEN "create" ELSE "select")
       /\ UNCHANGED <<mined, taxTables, rates, unsettled, connection>>

\* updateCostBasis up to its save.
FindBasis(l) ==
    LET row == basis[MyKey(l)]
        known == IF row = NoRow THEN NewRow ELSE row
    IN /\ doing[l] = "find"
       /\ IF work[l].id <= known.last
          THEN Continue(l, "healthy") /\ UNCHANGED work
          ELSE /\ work' = [work EXCEPT ![l].copy =
                     [h |-> Counted(known.h, Leg(l)), last |-> work[l].id]]
               /\ Continue(l, IF row = NoRow THEN "create" ELSE "select")
       /\ UNCHANGED <<mined, taxTables, rates, unsettled, connection>>

\* save() of a row without an id: the unique key admits the first.
CreateBasis(l) ==
    /\ doing[l] = "create"
    /\ IF basis[MyKey(l)] = NoRow
       THEN /\ basis' = [basis EXCEPT ![MyKey(l)] = work[l].copy]
            /\ Continue(l, "healthy")
       ELSE Continue(l, "failed") /\ UNCHANGED basis
    /\ UNCHANGED <<mined, work, events, nextId, healthy, rates, unsettled, connection>>

\* save() of a known row selects it, and then updates the columns that differ.
SelectBasis(l) ==
    /\ doing[l] = "select"
    /\ work' = [work EXCEPT ![l].seen = basis[MyKey(l)]]
    /\ Continue(l, "update")
    /\ UNCHANGED <<mined, taxTables, rates, unsettled, connection>>

Merged(row, mine, selected) ==
    [h |-> [f \in DOMAIN row.h |->
               IF mine.h[f] # selected.h[f] THEN mine.h[f] ELSE row.h[f]],
     last |-> IF mine.last # selected.last THEN mine.last ELSE row.last]

UpdateBasis(l) ==
    /\ doing[l] = "update"
    /\ basis' = [basis EXCEPT ![MyKey(l)] = Merged(@, work[l].copy, work[l].seen)]
    /\ Continue(l, "healthy")
    /\ UNCHANGED <<mined, work, events, nextId, healthy, rates, unsettled, connection>>

\* logEvent has returned: the handler goes on to the log's next leg.
NextLeg(l) ==
    IF work[l].leg < Len(Legs[l])
    THEN Continue(l, "value") /\ work' = [work EXCEPT ![l] = [Idle EXCEPT !.leg = work[l].leg + 1]]
    ELSE Continue(l, "over") /\ work' = [work EXCEPT ![l] = Idle]

MarkProjectionHealthy(l) ==
    /\ doing[l] = "healthy"
    /\ healthy' = TRUE
    /\ NextLeg(l)
    /\ UNCHANGED <<mined, events, nextId, basis, rates, unsettled, connection>>

\* The error is recorded and swallowed.
MarkProjectionFailed(l) ==
    /\ doing[l] = "failed"
    /\ healthy' = FALSE
    /\ unsettled' = unsettled \union {MyKey(l)}
    /\ NextLeg(l)
    /\ UNCHANGED <<mined, events, nextId, basis, rates, connection>>
-----------------------------------------------------------------------------
(***************************************************************************)
(* The process and the whole.                                              *)
(***************************************************************************)
\* A handler's local state is gone; what it had stored stays.
IndexerDies ==
    /\ faults < MaxFaults
    /\ socket # "down"
    /\ doing' = [l \in Log |-> IF doing[l] \in Running THEN "over" ELSE doing[l]]
    /\ work' = [l \in Log |-> Idle]
    /\ unsettled' = unsettled \union
          {MyKey(l) : l \in {m \in Log : doing[m] \in Updating \union {"failed"}}}
    /\ rates' = [d \in Day |-> NoRate]
    /\ Die
    /\ UNCHANGED <<mined, taxTables>>

StoreLeg(l) ==
    \/ Value(l) \/ FetchRate(l) \/ InsertEvent(l) \/ FindBasis(l) \/ CreateBasis(l)
    \/ SelectBasis(l) \/ UpdateBasis(l) \/ MarkProjectionHealthy(l) \/ MarkProjectionFailed(l)

UnchangedHistory == UNCHANGED <<mined, doing, work, taxTables, rates, unsettled>>

TaxNext ==
    \/ Mine \/ IndexerDies
    \/ \E l \in Log : HandleShopLog(l) \/ StoreLeg(l)
    \/ (ConnectionStep \/ Start) /\ UnchangedHistory

TaxSpec == TaxInit /\ [][TaxNext]_taxVars
FairTaxSpec == TaxSpec /\ ConnectionFairness
-----------------------------------------------------------------------------
Row == [h : [DOMAIN Nothing -> Int], last : Int]
Locals == [leg : Nat, sek : Int, id : Nat, copy : Row, seen : Row]

TaxTypeOK ==
    /\ mined \in 0..Len(Emitted)
    /\ doing \in [Log -> Stage]
    /\ work \in [Log -> Locals]
    /\ \A l \in Log : doing[l] \in Running => work[l].leg \in DOMAIN Legs[l]
    /\ nextId \in Nat \ {0}
    /\ events \subseteq [id : 1..(nextId - 1), log : 1..mined, leg : Nat, sek : Int]
    /\ \A e \in events : e.leg \in DOMAIN Legs[e.log]
    /\ basis \in [Key -> Row]
    /\ healthy \in BOOLEAN
    /\ rates \in [Day -> Nat]
    /\ unsettled \subseteq Key
    /\ ConnectionTypeOK

LegOfRow(e) == Legs[e.log][e.leg]
KeyOfRow(e) == KeyOf(LegOfRow(e))

Settled(k) == k \notin unsettled /\ \A l \in Log : doing[l] \in Updating => MyKey(l) # k

StoredRows(k) == {e \in events : KeyOfRow(e) = k}

\* The basis after the rows with the ids up to n, counted in that order.
Tally(rows) ==
    LET stored(n) == {e \in rows : e.id = n}
        basisAt[n \in Nat] ==
            IF n = 0 THEN NoRow
            ELSE IF stored(n) = {} THEN basisAt[n - 1]
            ELSE [h |-> Counted(basisAt[n - 1].h, LegOfRow(CHOOSE e \in stored(n) : TRUE)),
                  last |-> n]
    IN basisAt

(***************************************************************************)
(* The running tally is exact where its updates do not meet: a cost basis  *)
(* whose updates never overlapped, failed or were cut off is what counting *)
(* the user's stored events of the asset one by one gives, whatever other  *)
(* handlers, crashes and reconnects came in between.                       *)
(***************************************************************************)
SettledBasisIsExact ==
    \A k \in Key : Settled(k) => basis[k] = Tally(StoredRows(k))[nextId - 1]

\* getEventsForUser orders by timestamp; here the rows of one log go by id.
Place(e) == e.log * nextId + e.id

EventOf(e) ==
    LET l == LegOfRow(e)
    IN [at |-> Place(e), asset |-> l.asset, type |-> l.type, amount |-> l.amount,
        usd |-> l.usd, sek |-> e.sek]

History(u) == {EventOf(e) : e \in {d \in events : KeyOfRow(d)[1] = u}}

AssetsOf(u) == {k[2] : k \in {j \in Key : j[1] = u}}

InTimeOrder(u) ==
    \A d, e \in events :
        KeyOfRow(d) = KeyOfRow(e) /\ KeyOfRow(e)[1] = u /\ d.id < e.id => d.log < e.log

\* No disposal at a price exceeds what the priced acquisitions before it left.
Covered(history) ==
    \A e \in history :
        e.type = "disposal" /\ e.usd # Unknown =>
            e.amount <= SummaryUpTo(history, e.asset, "usd")[e.at - 1].quantity

Rated(history) == \A e \in history : e.usd # Unknown => e.sek # Unknown

ForNothing(history) == \E e \in history : e.usd = 0

BasisTotals(u) == Totals([a \in AssetsOf(u) |-> basis[<<u, a>>].h])

(***************************************************************************)
(* The reports tell one story: when a user's events of each asset were     *)
(* stored in the order of their times, every disposal is covered, nothing  *)
(* was sold for nothing and the tallies are settled, the lifetime summary  *)
(* (from the cost basis) and the summary from the events are equal.  If    *)
(* every priced event has its rate, so are the K4 rows and the summary in  *)
(* SEK, and an export that the gate lets through lacks a value in SEK in   *)
(* one row per twenty events at most.                                      *)
(***************************************************************************)
ReportsAgree ==
    \A u \in User :
        LET history == History(u)
            assets == AssetsOf(u)
        IN /\ \A a \in assets : Settled(<<u, a>>)
           /\ InTimeOrder(u) /\ Covered(history) /\ ~ForNothing(history)
           =>
            /\ BasisTotals(u) = Summary(history, assets, "usd")
            /\ Rated(history) =>
                  /\ K4Totals(history, assets) = Summary(history, assets, "sek")
                  /\ ~Blocked(history) =>
                        20 * Cardinality(UNION {Incomplete(K4(history, a)) : a \in assets})
                            <= Cardinality(history)

(***************************************************************************)
(* A connection that is lost is opened again, unless the service is shut   *)
(* down or dies: whatever order failures, closes and timers come in, a     *)
(* timer is never lost.                                                    *)
(***************************************************************************)
Reconnects == socket = "closed" ~> (socket = "open" \/ socket = "down" \/ destroyed)
=============================================================================
