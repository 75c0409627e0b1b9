------------------------- MODULE DashboardSections -------------------------
(* What dashboard/dashboard_read_model.py computes of the rows that one page    *)
(* has read: functions of a projection (the Portfolio rows, by symbol), of      *)
(* sums of open lots (by symbol) and of the last decisions about selling.       *)
EXTENDS Integers, Sequences, FiniteSetsExt

CONSTANTS DUST_MIN_VALUE,     \* the value from which a position is material
          DRIFT_TOLERANCE,    \* the difference of quantities that is none
          None                \* SQL's NULL

ASSUME SectionsAssumption ==
    DUST_MIN_VALUE \in Nat \ {0} /\ DRIFT_TOLERANCE \in Nat /\ None \notin Int

Magnitude(n) == IF n < 0 THEN -n ELSE n
PositionValue(quantity, price) == IF None \in {quantity, price} THEN None ELSE quantity * price

RowValue(portfolio, s) == PositionValue(portfolio[s].quantity, portfolio[s].price)
IsMaterial(portfolio, s) ==
    /\ s \in DOMAIN portfolio
    /\ RowValue(portfolio, s) # None
    /\ RowValue(portfolio, s) >= DUST_MIN_VALUE
IsDustValue(v) == v # None /\ v > 0 /\ v < DUST_MIN_VALUE

\* Lots are valued at the price of the projection, and at none without a row.
PriceIn(portfolio, s) == IF s \in DOMAIN portfolio THEN portfolio[s].price ELSE None

Quantity(table, s, quantity(_)) == IF s \in DOMAIN table THEN quantity(table[s]) ELSE 0
Difference(portfolio, lots, s) ==
    Quantity(portfolio, s, LAMBDA r : r.quantity) - Quantity(lots, s, LAMBDA q : q)

\* The symbols that the page warns of: material by the projection, and drifted.
Reconciliation(portfolio, lots) ==
    {s \in DOMAIN portfolio \cup DOMAIN lots :
        /\ IsMaterial(portfolio, s)
        /\ Magnitude(Difference(portfolio, lots, s)) > DRIFT_TOLERANCE}

\* One row for each symbol with open lots. Its price is that of the last decision, if there
\* is one, else that of the projection; a price of zero counts as none in the former.
ExitPrice(portfolio, events, s) ==
    IF s \in DOMAIN events /\ events[s].price \notin {None, 0} THEN events[s].price
                                                            ELSE PriceIn(portfolio, s)
ExitValue(portfolio, lots, events, s) ==
    IF s \in DOMAIN events /\ events[s].value # None
    THEN events[s].value ELSE PositionValue(lots[s], ExitPrice(portfolio, events, s))

\* The reasons that SELL_REASON_PRESENTATION explains.
Presented == {"stop_loss_not_reached", "take_profit_not_reached", "rounded_quantity_zero",
    "quantity_below_min_notional", "quantity_below_min_qty", "insufficient_binance_balance",
    "no_open_lots", "exchange_filter_missing", "read_only", "strategy_hold"}

\* loaded: the decisions could be read; wanted: the page was asked to read them.
ExitLabel(events, loaded, wanted, s) ==
    IF ~wanted THEN "Open Exit Status"
    ELSE IF ~loaded THEN "Diagnostics unavailable"
    ELSE IF s \notin DOMAIN events THEN "Review"
    ELSE IF "stop_loss_reached" \in events[s].reasons /\ events[s].pnl # None /\ events[s].pnl > 0
         THEN "Anomaly"
    ELSE IF events[s].reasons \cap Presented = {} THEN "Review"
    ELSE "explained"

ExitStatus(portfolio, lots, events, loaded, wanted) ==
    LET value(s) == ExitValue(portfolio, lots, events, s)  IN
    [label |-> [s \in DOMAIN lots |-> ExitLabel(events, loaded, wanted, s)],
     dust |-> {s \in DOMAIN lots : IsDustValue(value(s))},
     material |-> {s \in DOMAIN lots : value(s) = None \/ value(s) >= DUST_MIN_VALUE}]

\* The last decision of each symbol that has one in a window: a sequence, the newest last.
LatestBySymbol(window) ==
    [s \in {window[i].symbol : i \in DOMAIN window} |->
        window[Max({i \in DOMAIN window : window[i].symbol = s})]]

Newest(log, limit) == SubSeq(log, Max({1, Len(log) - limit + 1}), Len(log))

\* Balances of the projection that the bot does not manage.
ExcludedBalances(portfolio, lots) == DOMAIN portfolio \ DOMAIN lots
=============================================================================
