--------------------------- MODULE ExchangeRates ---------------------------
(* The rates of currencyconverter/views.py and the calls of update_rates that  *)
(* renew them. A quote is named by the moment at which its source gave it, so  *)
(* that a smaller quote is an older one.                                       *)
EXTENDS Integers, Sequences

CONSTANTS Requests,      \* the calls of update_rates
          Staleness,     \* the age above which a rate is renewed (360 s)
          Aliasable,     \* bound: keys of which a second row may be posted
          MaxTime,       \* bound of the clock
          MaxFailures    \* bound of the answers that are refused or incomplete

VARIABLES clock,      \* the time
          rate,       \* the rows of ExchangeRate: quote and last_update of each key
          aliased,    \* keys of which a row with the same letters in another case exists
          call,       \* what each request is doing
          failures,   \* answers refused or incomplete so far
          overtaken   \* history: keys others saved since the request began
ratesVars == <<clock, rate, aliased, call, failures, overtaken>>

Dollars == {"USD_OFFICIAL", "USD_BLUE"}
Keys == <<"ARS_UVA", "USD_OFFICIAL", "USD_BLUE">>
Key == {"ARS_UVA"} \cup Dollars
Time == 0..MaxTime

ASSUME RatesAssumption ==
    Staleness \in Nat /\ MaxTime \in Nat /\ MaxFailures \in Nat /\ Aliasable \subseteq Key

Row == [quote : Time, last_update : Time]

\* A request is at the key numbered pos of the loop; a dollar answer is saved for
\* the keys of todo, from an answer that names the houses.
Call == [phase : {"idle", "look", "fetch", "save", "answered", "failed"}, now : Time,
         pos : 1..4, todo : SUBSET Key, houses : SUBSET Key, quote : Time]
NoCall == [phase |-> "idle", now |-> 0, pos |-> 1, todo |-> {}, houses |-> {}, quote |-> 0]

\* filter(key__iexact=key) returns one row.
Single(k) == k \notin aliased
Stale(k, now) == now - rate[k].last_update > Staleness

RatesInit ==
    /\ clock = 0
    /\ rate = [k \in Key |-> [quote |-> 0, last_update |-> 0]]
    /\ aliased = {}
    /\ call = [r \in Requests |-> NoCall]
    /\ failures = 0
    /\ overtaken = [r \in Requests |-> {}]

Tick == clock < MaxTime /\ clock' = clock + 1
        /\ UNCHANGED <<rate, aliased, call, failures, overtaken>>

\* ExchangeRatesViewSet: a user posts a row whose key differs in case only.
AddAlias(k) == k \notin aliased /\ aliased' = aliased \cup {k}
               /\ UNCHANGED <<clock, rate, call, failures, overtaken>>

Begin(r) ==
    /\ call[r].phase = "idle"
    /\ call' = [call EXCEPT ![r] = [NoCall EXCEPT !.phase = "look", !.now = clock]]
    /\ UNCHANGED <<clock, rate, aliased, failures, overtaken>>

\* Mutant: the blue dollar is not looked at, because it is saved with the official one.
LookNotAtBlue(r) ==
    /\ call[r].phase = "look" /\ call[r].pos <= 3
    /\ LET k == Keys[call[r].pos]  IN
       call' = [call EXCEPT ![r] =
           IF k # "USD_BLUE" /\ Single(k) /\ Stale(k, @.now) THEN [@ EXCEPT !.phase = "fetch"]
                                                             ELSE [@ EXCEPT !.pos = @ + 1]]
    /\ UNCHANGED <<clock, rate, aliased, failures, overtaken>>

\* The loop looks at the next key, and goes on unless its only row is stale.
Look(r) ==
    LET k == Keys[call[r].pos] IN
    /\ call[r].phase = "look" /\ call[r].pos <= 3
    /\ call' = [call EXCEPT ![r] =
                  IF Single(k) /\ Stale(k, @.now) THEN [@ EXCEPT !.phase = "fetch"]
                                                  ELSE [@ EXCEPT !.pos = call[r].pos + 1]]
    /\ UNCHANGED <<clock, rate, aliased, failures, overtaken>>

Answer(r) ==
    /\ call[r].phase = "look" /\ call[r].pos > 3
    /\ call' = [call EXCEPT ![r].phase = "answered"]
    /\ UNCHANGED <<clock, rate, aliased, failures, overtaken>>

\* Mutant: the answer may come from a cache on the way, from any time before.
FetchCached(r) ==
    /\ call[r].phase = "fetch"
    /\ LET k == Keys[call[r].pos]
           wanted == IF k \in Dollars THEN Dollars ELSE {k}
       IN \E kept \in 0..clock :
            call' = [call EXCEPT ![r] = [@ EXCEPT !.phase = "save", !.houses = wanted,
                                                  !.todo = wanted, !.quote = kept]]
    /\ UNCHANGED <<clock, rate, aliased, failures, overtaken>>

\* get_ARSUVA_rate, or update_ARSUSD_rate up to its loop: the source answers. A dollar
\* answer may lack a house.
Fetch(r) ==
    /\ call[r].phase = "fetch"
    /\ LET k == Keys[call[r].pos]
           wanted == IF k \in Dollars THEN Dollars ELSE {k}
       IN \E houses \in IF k \in Dollars THEN SUBSET Dollars ELSE {{k}} :
            /\ failures' = IF houses = wanted THEN failures ELSE failures + 1
            /\ failures' <= MaxFailures
            /\ call' = [call EXCEPT ![r] = [@ EXCEPT !.phase = "save", !.houses = houses,
                                                     !.todo = wanted, !.quote = clock]]
    /\ UNCHANGED <<clock, rate, aliased, overtaken>>

\* The source cannot be reached, or sends what cannot be read.
FetchFails(r) ==
    /\ call[r].phase = "fetch" /\ failures < MaxFailures
    /\ failures' = failures + 1
    /\ call' = [call EXCEPT ![r].phase = "failed"]
    /\ UNCHANGED <<clock, rate, aliased, overtaken>>

\* The UVA row is the one that Look found; a dollar row is looked up again.
Found(k) == k \notin Dollars \/ Single(k)

\* One row is saved, whole, with the time at which the request began.
Save(r, k) ==
    /\ call[r].phase = "save" /\ k \in call[r].todo
    /\ k = "USD_BLUE" => "USD_OFFICIAL" \notin call[r].todo
    /\ Found(k) /\ k \in call[r].houses
    /\ rate' = [rate EXCEPT ![k] = [quote |-> call[r].quote, last_update |-> call[r].now]]
    /\ overtaken' = [q \in Requests |-> IF q = r \/ call[q].phase = "idle"
                                           THEN overtaken[q] ELSE overtaken[q] \cup {k}]
    /\ call' = [call EXCEPT ![r].todo = @ \ {k}]
    /\ UNCHANGED <<clock, aliased, failures>>

\* A row with an alias is passed over; a house that was not in the answer is an unbound
\* variable.
SkipOrRaise(r, k) ==
    /\ call[r].phase = "save" /\ k \in call[r].todo
    /\ k = "USD_BLUE" => "USD_OFFICIAL" \notin call[r].todo
    /\ ~(Found(k) /\ k \in call[r].houses)
    /\ call' = [call EXCEPT ![r] = IF Found(k) THEN [@ EXCEPT !.phase = "failed"]
                                               ELSE [@ EXCEPT !.todo = call[r].todo \ {k}]]
    /\ UNCHANGED <<clock, rate, aliased, failures, overtaken>>

Saved(r) ==
    /\ call[r].phase = "save" /\ call[r].todo = {}
    /\ call' = [call EXCEPT ![r] = [@ EXCEPT !.phase = "look", !.pos = call[r].pos + 1]]
    /\ UNCHANGED <<clock, rate, aliased, failures, overtaken>>

RatesNext ==
    \/ Tick
    \/ \E k \in Aliasable : AddAlias(k)
    \/ \E r \in Requests :
         \/ Begin(r) \/ Look(r) \/ Answer(r) \/ Fetch(r) \/ FetchFails(r) \/ Saved(r)
         \/ \E k \in Key : Save(r, k) \/ SkipOrRaise(r, k)

RatesSpec == RatesInit /\ [][RatesNext]_ratesVars
-----------------------------------------------------------------------------
RatesTypeOK ==
    /\ clock \in Time
    /\ rate \in [Key -> Row]
    /\ aliased \in SUBSET Key
    /\ call \in [Requests -> Call]
    /\ failures \in 0..MaxFailures
    /\ overtaken \in [Requests -> SUBSET Key]

\* A request that answered has left no rate older than the staleness it is there to
\* prevent, except one that another request has saved meanwhile, or that has an alias
\* (currencyconverter/views.py:269).
FreshAfterAnswer ==
    \A r \in Requests, k \in Key :
        call[r].phase = "answered" /\ Single(k) /\ k \notin overtaken[r]
            => ~Stale(k, call[r].now)

\* A rate goes back to an older quote, or an older time, only if the request that saves it
\* was running when another one saved the newer (currencyconverter/views.py:241 and 286).
BackOnlyByOverlap ==
    [][\A k \in Key :
        rate'[k].quote < rate[k].quote \/ rate'[k].last_update < rate[k].last_update
            => \E r \in Requests : call'[r] # call[r] /\ k \in overtaken[r]]_ratesVars
=============================================================================
