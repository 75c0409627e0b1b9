--------------------------- MODULE TradingReports ---------------------------
(* The reports about results and re-entries: the performance KPIs and the churn *)
(* summary of dashboard_read_model.py, the operational KPIs, and the totals of  *)
(* the Telegram replies. Each makes several queries over tables to which the    *)
(* bot appends an operation with its closures, and in which nothing changes: a  *)
(* query sees all the operations up to some number.                             *)
EXTENDS Integers, Sequences, FiniteSetsExt

CONSTANTS Traded,          \* symbols
          Operations,      \* FILLED operations that may be recorded
          CHURN_GAP,       \* gap of SELL and BUY that is short (15 min)
          CHURN_WINDOW,    \* how far back the churn summary looks (48 h)
          DAY,             \* the length of a day
          LATEST_LIMIT,    \* the most that /last_operations can be asked for (50)
          MaxOperations, MaxMinute     \* bounds: the history, the clock

\* realized: the results of the closures of the operation; marks: how it is known to be a
\* correction; fee: the normalized fee.
Operation == [symbol : Traded, side : {"BUY", "SELL"}, marks : SUBSET {"source", "accounting_only"},
              version : {"unversioned", "v1"}, realized : Seq(Int), fee : Nat]

\* A closure is of a fill of a SELL (core/trading_models.py, LotClosure).
ASSUME ReportsAssumption ==
    /\ IsFiniteSet(Traded) /\ Operations \subseteq Operation
    /\ \A op \in Operations : op.side = "BUY" => op.realized = <<>>
    /\ {CHURN_GAP, CHURN_WINDOW, DAY} \subseteq Nat \ {0}
    /\ {LATEST_LIMIT, MaxOperations, MaxMinute} \subseteq Nat

VARIABLES minute,    \* the time
          history,   \* the operations, each with the time of its execution
          report     \* the report in work: its kind, when it was asked for, what each query saw
reportVars == <<minute, history, report>>

NoReport == [kind |-> "none", at |-> 0, marks |-> <<>>]
Queries == [none |-> 0, performance |-> 4, operational |-> 2, churn |-> 2, last |-> 2, today |-> 1]
Answered == report.kind # "none" /\ Len(report.marks) = Queries[report.kind]

ReportInit == minute = 0 /\ history = <<>> /\ report = NoReport

PassMinute == minute < MaxMinute /\ minute' = minute + 1 /\ UNCHANGED <<history, report>>

\* The bot, or its worker of corrections, accounts for an operation in one transaction.
Record(op) ==
    /\ Len(history) < MaxOperations
    /\ history' = Append(history, [op |-> op, at |-> minute])
    /\ UNCHANGED <<minute, report>>

AskReport(kind) ==
    /\ report = NoReport
    /\ report' = [kind |-> kind, at |-> minute, marks |-> <<>>]
    /\ UNCHANGED <<minute, history>>

Query ==
    /\ report.kind # "none" /\ ~Answered
    /\ report' = [report EXCEPT !.marks = Append(@, Len(history))]
    /\ UNCHANGED <<minute, history>>

ReportNext ==
    \/ ~Answered /\ (PassMinute \/ \E op \in Operations : Record(op))
    \/ Query
    \/ \E kind \in DOMAIN Queries \ {"none"} : AskReport(kind)

ReportSpec == ReportInit /\ [][ReportNext]_reportVars
-----------------------------------------------------------------------------
\* The closures of operations 1 to n, and the sum of results and of fees.
Closures(n) == UNION {{<<i, j>> : j \in DOMAIN history[i].op.realized} : i \in 1..n}
Amount(c) == history[c[1]].op.realized[c[2]]
Realized(closures) == SumFunction([c \in closures |-> Amount(c)])
Fees(S) == SumFunction([i \in S |-> history[i].op.fee])
Of(S, Test(_)) == {i \in S : Test(history[i].op)}
With(closures, Test(_)) == {c \in closures : Test(history[c[1]].op)}

\* Two modules tell corrections from trades, each in its way.
IsManualCorrectionOperation(op) == "source" \in op.marks
IsManualCorrection(op) == op.marks # {}

Day(i) == history[i].at \div DAY
Days == 0..(MaxMinute \div DAY)

\* Mutant: the operations are read before the closures.
OperationsFirst(m) == [closures |-> m[2], operations |-> m[1], fees |-> m[3]]

\* What the queries of _build_performance_kpis have seen: closures, the operations of these,
\* the fees; the last query, of the capital of the BUYs, is left out.
PerformanceQueries(m) == [closures |-> m[1], operations |-> m[2], fees |-> m[3]]

\* _calculate_performance_kpis
Performance(m) ==
    LET seen == PerformanceQueries(m)
        closures == Closures(seen.closures)
        known == {c \in closures : c[1] <= seen.operations}
        manual == With(known, IsManualCorrectionOperation)
    IN [gross |-> Realized(closures), manual |-> Realized(manual),
        bot |-> Realized(closures \ manual),
        count |-> [sign \in {-1, 0, 1} |-> Quantify(closures, LAMBDA c :
            sign = IF Amount(c) > 0 THEN 1 ELSE IF Amount(c) < 0 THEN -1 ELSE 0)],
        fees |-> Fees(1..seen.fees),
        by_symbol |-> [s \in Traded |-> Realized(With(known, LAMBDA op : op.symbol = s))],
        by_day |-> [d \in Days |-> Realized({c \in known : Day(c[1]) = d})]]

\* One row of the operational KPIs, of the SELLs that have closures.
OperationalRow(sells, closures) ==
    LET closed == {i \in sells : \E c \in closures : c[1] = i}
        of(i) == {c \in closures : c[1] = i}
    IN [trades |-> Cardinality(closed), fees |-> Fees(closed),
        realized |-> Realized({c \in closures : c[1] \in sells}),
        wins |-> Quantify(closed, LAMBDA i : Realized(of(i)) > 0)]

\* get_operational_kpis_context: operations, then the closures of the SELLs among them.
Operational(m) ==
    LET sells == Of(1..m[1], LAMBDA op : op.side = "SELL" /\ ~IsManualCorrection(op))
        closures == {c \in Closures(m[2]) : c[1] \in sells}
        row(Test(_)) == OperationalRow(Of(sells, Test), closures)
    IN [all |-> OperationalRow(sells, closures),
        by_version |-> [v \in {"unversioned", "v1"} |-> row(LAMBDA op : op.version = v)],
        by_symbol |-> [s \in Traded |-> row(LAMBDA op : op.symbol = s)]]

\* realized_pnl_for_day, one query.
RealizedOnDay(n, d) == Realized({c \in Closures(n) : Day(c[1]) = d})

\* format_last_operations: the newest SELLs, then their closures.
LastOperations(m) ==
    LET sells == Of(1..m[1], LAMBDA op : op.side = "SELL")
        newest == {i \in sells : Quantify(sells, LAMBDA j : j > i) < LATEST_LIMIT}
    IN [total |-> Realized({c \in Closures(m[2]) : c[1] \in newest}),
        missing |-> newest \ {c[1] : c \in Closures(m[2])}]
-----------------------------------------------------------------------------
\* The operations that the churn summary loads: those since the cutoff.
Window(n, since) == {i \in 1..n : history[i].at >= since}
Apart(i, j) == history[j].at - history[i].at

\* _build_churn_summary: the BUYs soon after the last SELL of their symbol.
Reentries(loaded) ==
    {i \in Of(loaded, LAMBDA op : op.side = "BUY") :
        LET sells == {j \in Of(loaded, LAMBDA op : op.side = "SELL" /\ op.symbol = history[i].op.symbol) : j < i}
        IN sells # {} /\ Apart(Max(sells), i) < CHURN_GAP}

\* _calculate_churn: the SELLs soon after which their symbol is bought, corrections apart.
ChurnedSells(loaded, threshold) ==
    LET trades == Of(loaded, LAMBDA op : ~IsManualCorrection(op))  IN
    {i \in Of(trades, LAMBDA op : op.side = "SELL") :
        LET buys == {j \in Of(trades, LAMBDA op : op.side = "BUY" /\ op.symbol = history[i].op.symbol) : j > i}
        IN buys # {} /\ Apart(i, Min(buys)) <= threshold}

Symbols(S) == {history[i].op.symbol : i \in S}
-----------------------------------------------------------------------------
Seen == report.marks[1]
AtOnce == [q \in 1..4 |-> Seen]     \* as if every query had been the first

\* Queries at different times make one report: it is that of the moment of the first, but
\* that the fees may already hold those of later operations
\* (dashboard/dashboard_read_model.py:997, dashboard/services/operational_kpis.py:34,
\* core/telegram_diagnostics.py:1065).
ReportIsOfItsFirstQuery ==
    /\ report.kind = "performance" =>
         /\ Performance(report.marks) = [Performance(AtOnce) EXCEPT !.fees = Fees(1..report.marks[3])]
         /\ Fees(1..report.marks[3]) >= Performance(AtOnce).fees
    /\ report.kind = "operational" => Operational(report.marks) = Operational(AtOnce)
    /\ report.kind = "last" => LastOperations(report.marks) = LastOperations(AtOnce)

\* What one report sums by symbol, by day, by strategy version or by source it sums in each
\* way to the same, and to what the others sum from the same operations: where the two ways
\* to know a correction differ, by the results of these corrections.
TotalsAgree ==
    LET P == Performance(AtOnce)
        O == Operational(AtOnce)
        disputed == Of(1..Seen, LAMBDA op : IsManualCorrection(op) # IsManualCorrectionOperation(op))
    IN /\ P.gross = P.bot + P.manual
       /\ P.gross = SumFunction(P.by_symbol) /\ P.gross = SumFunction(P.by_day)
       /\ Cardinality(Closures(Seen)) = SumFunction(P.count)
       /\ O.all.realized = SumFunction([v \in DOMAIN O.by_version |-> O.by_version[v].realized])
       /\ O.all.trades = SumFunction([s \in Traded |-> O.by_symbol[s].trades])
       /\ O.all.realized = P.bot - Realized({c \in Closures(Seen) : c[1] \in disputed})
       /\ \A d \in Days : P.by_day[d] = RealizedOnDay(Seen, d)
       /\ LastOperations(AtOnce).missing = {} /\ Seen <= LATEST_LIMIT =>
              LastOperations(AtOnce).total = P.gross

\* The churn summary looks at BUYs and the operational KPIs at SELLs, yet for a symbol without
\* corrections they see re-entries over the same operations both or neither.
ReentriesAgree ==
    LET loaded == Window(Seen, report.at - CHURN_WINDOW)
        corrected == Symbols(Of(loaded, IsManualCorrection))
        short == Symbols(Reentries(loaded)) \ corrected
    IN /\ short \subseteq Symbols(ChurnedSells(loaded, CHURN_GAP))
       /\ Symbols(ChurnedSells(loaded, CHURN_GAP - 1)) \ corrected \subseteq short

\* The reports agree with themselves and with each other
\* (dashboard/dashboard_read_model.py:1040, dashboard/services/operational_kpis.py:113).
ReportsAgree == Answered => ReportIsOfItsFirstQuery /\ TotalsAgree /\ ReentriesAgree
=============================================================================
