------------------------------ MODULE TaxReports ------------------------------
(***************************************************************************)
(* What the tax service computes from a user's stored events: the average  *)
(* cost of one asset, the summary, the rows of the Swedish K4 form and the *)
(* gate before the export.  Pure operators over sets of events             *)
(*   [at, asset, type, amount, usd, sek]                                   *)
(* in which at is the event's own place in the order of time, and usd and  *)
(* sek are unit prices or Unknown.  Money is whole; the averages are exact *)
(* as long as the instance's prices divide.                                *)
(***************************************************************************)
EXTENDS Integers, FiniteSets, FiniteSetsExt, Functions

Unknown == -1

Nothing == [quantity |-> 0, cost |-> 0, gains |-> 0, losses |-> 0]

Average(h) == IF h.quantity > 0 THEN h.cost \div h.quantity ELSE 0

Acquired(h, price, amount) ==
    [h EXCEPT !.quantity = @ + amount, !.cost = @ + price * amount]

\* The disposed units take their share of the cost along.
Released(h, amount) ==
    [h EXCEPT !.quantity = @ - amount, !.cost = @ - Average(h) * amount]

Realized(h, price, amount) ==
    LET result == (price - Average(h)) * amount
    IN IF result >= 0 THEN [h EXCEPT !.gains = @ + result]
                      ELSE [h EXCEPT !.losses = @ + result]

Disposed(h, price, amount) == Released(Realized(h, price, amount), amount)

\* A sale so small that the fee and the rounding leave nothing has the price 0,
\* which logEvent and updateCostBasis take for none and the reports for a price.
Positive(price) == price # Unknown /\ price # 0

\* The arithmetic of updateCostBasis.
Counted(h, event) ==
    CASE ~Positive(event.usd) -> h
      [] Positive(event.usd) /\ event.type = "acquisition" ->
            Acquired(h, event.usd, event.amount)
      [] OTHER -> Disposed(h, event.usd, event.amount)

OfAsset(events, asset) == {e \in events : e.asset = asset}

LastPlace(events) == Max({0} \union {e.at : e \in events})

\* What a step makes of the events up to a place, one after the other.
InTurn(events, start, Step(_, _)) ==
    LET here(n) == {e \in events : e.at = n}
        after[n \in Nat] ==
            IF n = 0 THEN start
            ELSE IF here(n) = {} THEN after[n - 1]
            ELSE Step(after[n - 1], CHOOSE e \in here(n) : TRUE)
    IN after

Total(figures) == FoldFunction(+, 0, figures)

\* The gains and the losses of all assets, from those of each.
Totals(holdings) ==
    [field \in {"gains", "losses"} |->
        Total([a \in DOMAIN holdings |-> holdings[a][field]])]
-----------------------------------------------------------------------------
(***************************************************************************)
(* getSummaryFromEvents keeps a holding per asset from its first priced    *)
(* acquisition on.  A disposal without one is a gain in full and takes     *)
(* nothing away.  Both currencies share the quantity: events without a     *)
(* price in SEK dilute the average in SEK.                                 *)
(***************************************************************************)
SummaryStep(holding, event, price) ==
    LET known(h) == IF price = Unknown THEN h ELSE Realized(h, price, event.amount)
    IN CASE event.usd = Unknown -> holding
         [] event.usd # Unknown /\ event.type = "acquisition" ->
               [Acquired(holding, IF price = Unknown THEN 0 ELSE price, event.amount)
                   EXCEPT !.held = TRUE]
         [] OTHER ->
               IF holding.held THEN Released(known(holding), event.amount) ELSE known(holding)

SummaryUpTo(events, asset, currency) ==
    InTurn(OfAsset(events, asset),
           [quantity |-> 0, cost |-> 0, gains |-> 0, losses |-> 0, held |-> FALSE],
           LAMBDA h, e : SummaryStep(h, e, e[currency]))

AssetSummary(events, asset, currency) ==
    SummaryUpTo(events, asset, currency)[LastPlace(events)]

Summary(events, assets, currency) ==
    Totals([a \in assets |-> AssetSummary(events, a, currency)])

\* netTaxableGain in tenths: losses count for SWEDISH_LOSS_DEDUCTION_RATE.
TaxableTenths(totals) == 10 * totals.gains + 7 * totals.losses
-----------------------------------------------------------------------------
(***************************************************************************)
(* buildK4Rows keeps a holding per asset and currency and falls back to    *)
(* USD when the disposal, or the holding, has no value in SEK.             *)
(***************************************************************************)
Bought(h, price, amount) == IF price = Unknown THEN h ELSE Acquired(h, price, amount)

\* Mutant: USD is preferred.
K4CurrencyMutant(k4, event) ==
    CASE event.usd # Unknown /\ k4.usd.quantity > 0 -> "usd"
      [] ~(event.usd # Unknown /\ k4.usd.quantity > 0) /\
         event.sek # Unknown /\ k4.sek.quantity > 0 -> "sek"
      [] OTHER -> "missing"

K4Currency(k4, event) ==
    CASE event.sek # Unknown /\ k4.sek.quantity > 0 -> "sek"
      [] ~(event.sek # Unknown /\ k4.sek.quantity > 0) /\
         event.usd # Unknown /\ k4.usd.quantity > 0 -> "usd"
      [] OTHER -> "missing"

K4Step(k4, event) ==
    LET currency == K4Currency(k4, event)
    IN CASE event.type = "acquisition" ->
              [k4 EXCEPT !.sek = Bought(@, event.sek, event.amount),
                         !.usd = Bought(@, event.usd, event.amount)]
         [] event.type = "disposal" /\ currency = "missing" ->
              [k4 EXCEPT !.missing = @ \union {event}]
         [] OTHER ->
              [k4 EXCEPT ![currency] = Disposed(@, event[currency], event.amount),
                         !.inUsd = IF currency = "usd" THEN @ \union {event} ELSE @]

\* The K4 rows of an asset, added up by currency; the rows of no use by event.
K4UpTo(events, asset) ==
    InTurn(OfAsset(events, asset),
           [sek |-> Nothing, usd |-> Nothing, missing |-> {}, inUsd |-> {}], K4Step)

K4(events, asset) == K4UpTo(events, asset)[LastPlace(events)]

K4Totals(events, assets) == Totals([a \in assets |-> K4(events, a).sek])

\* Rows that cannot be filed: without a value, or with one in USD.
Incomplete(k4) == k4.missing \union k4.inUsd

Unpriced(events) == {e \in events : e.usd = Unknown}

\* checkExportReadiness: more than one event in twenty has no valuation.
Blocked(events) == 20 * Cardinality(Unpriced(events)) > Cardinality(events)
=============================================================================
