------------------------------- MODULE MCSite -------------------------------
(* The pages that the site builds from what others write: the exchange rates,   *)
(* the worker in the browser, the dashboard. They share no state; in each       *)
(* behaviour one of them, the scene, moves.                                     *)
EXTENDS ExchangeRates, ServiceWorker, DashboardPage, TLC, FiniteSets

VARIABLE scene
Still == portfolio = [s \in {} |-> 0]

SiteInit ==
    /\ RatesInit /\ WorkerInit /\ PageInit
    /\ scene \in {"rates", "worker", "page"}
    /\ scene # "page" => Still

SiteNext ==
    /\ UNCHANGED scene
    /\ \/ scene = "rates" /\ RatesNext /\ UNCHANGED <<workerVars, pageVars>>
       \/ scene = "worker" /\ WorkerNext /\ UNCHANGED <<ratesVars, pageVars>>
       \/ scene = "page" /\ PageNext /\ UNCHANGED <<ratesVars, workerVars>>

Spec == SiteInit /\ [][SiteNext]_<<scene, ratesVars, workerVars, pageVars>>

ProjectionRows == {[quantity |-> 0, price |-> 3], [quantity |-> 2, price |-> 3],
                   [quantity |-> 1, price |-> None]}
SellDecisions == [symbol : Symbols, reasons : {{"strategy_hold"}}, price : {None},
                  value : {None}, pnl : {None}]

\* Two pages at once are two of the analytics, the ones that share the cache, beside one write
\* or one failure and without decisions.
Bounded ==
    LET busy == {t \in Threads : page[t].phase # "idle"} IN
    Cardinality(busy) > 1 =>
        /\ \A t \in busy : page[t].kind = "analytics"
        /\ writes + faults <= 1 /\ decisions = <<>>

Alike == Permutations(Requests) \cup Permutations(Threads)
=============================================================================
