--------------------------- MODULE DashboardPage ---------------------------
(* The pages of dashboard/dashboard_read_model.py: threads build them section   *)
(* by section, each section reading its tables when its turn comes, while the   *)
(* bot writes; the analytics page is kept in the cache of the process.          *)
EXTENDS DashboardSections

CONSTANTS Threads,                 \* threads of the process
          Symbols, Rows,           \* symbols, and the projection rows they may have
          Decisions,               \* decisions about selling the bot may record
          SELL_EVENT_LIMIT,        \* length of the window of decisions
          DIAGNOSTICS,             \* DASHBOARD_INCLUDE_SELL_DIAGNOSTICS
          HEALTHCHECK_STALE_AFTER, ANALYTICS_CACHE_SECONDS,
          MaxMoment, MaxWrites, MaxFaults,   \* bounds: time, writes of the bot, failures
          NoBeat, NoEntry

Moment == 0..MaxMoment
ASSUME PageAssumption ==
    /\ {HEALTHCHECK_STALE_AFTER, ANALYTICS_CACHE_SECONDS, MaxMoment, MaxWrites, MaxFaults,
        SELL_EVENT_LIMIT} \subseteq Nat
    /\ Rows \subseteq [quantity : Nat, price : Nat \cup {None}]
    /\ NoBeat \notin Int /\ DIAGNOSTICS \in BOOLEAN

VARIABLES moment, writes, faults,
          portfolio, lots, decisions, beat,   \* the tables of the bot
          entry,                              \* the cache: a context and the time it was stored
          page                                \* the request of each thread
tables == <<portfolio, lots, decisions, beat>>
pageVars == <<moment, writes, faults, tables, entry, page>>
-----------------------------------------------------------------------------
Empty == [s \in {} |-> 0]
\* A context as it is built. The last three are history: what drifted when the projection was
\* read, what was written until the lots were, and what had lots all the time.
NewContext == [begun |-> moment, finished |-> moment, rows |-> Empty, lots |-> Empty,
               events |-> Empty, loaded |-> TRUE, beat |-> NoBeat, stale |-> FALSE,
               errors |-> {}, drift |-> {}, moved |-> {}, kept |-> DOMAIN lots]

\* "history" stands for recent operations, on the analytics page also for fees and KPIs;
\* "rest" for dust and churn. They read for themselves only.
Sections(kind) ==
    CASE kind \in {"home", "analytics"} -> <<"portfolio", "health", "history", "lots", "exit", "rest">>
      [] kind = "exit"                  -> <<"portfolio", "lots", "exit">>
      [] kind = "churn"                 -> <<"rest">>
Kinds == {"home", "analytics", "exit", "churn"}

\* served: when the page was answered.
Idle == [kind |-> "home", pos |-> 0, ctx |-> [NewContext EXCEPT !.kept = {}, !.begun = 0,
         !.finished = 0], served |-> 0, phase |-> "idle"]

PageInit ==
    /\ moment = 0 /\ writes = 0 /\ faults = 0
    /\ portfolio \in UNION {[S -> Rows] : S \in SUBSET Symbols}
    /\ lots = [s \in {q \in DOMAIN portfolio : portfolio[q].quantity > 0} |-> portfolio[s].quantity]
    /\ decisions = <<>> /\ beat = 0
    /\ entry = NoEntry
    /\ page = [t \in Threads |-> Idle]

At(t, section) ==
    /\ page[t].phase = "build"
    /\ page[t].pos <= Len(Sections(page[t].kind))
    /\ Sections(page[t].kind)[page[t].pos] = section
Moved(t, ctx) == page' = [page EXCEPT ![t] = [@ EXCEPT !.pos = page[t].pos + 1, !.ctx = ctx]]

\* A request that has read the projection and not yet the lots.
Between(t) ==
    /\ page[t].phase = "build"
    /\ \E i \in 1..page[t].pos - 1 : Sections(page[t].kind)[i] = "portfolio"
    /\ \E i \in page[t].pos..Len(Sections(page[t].kind)) : Sections(page[t].kind)[i] = "lots"

Witnessed(s, after) ==     \* history: what a write of symbol s means for the pages in work
    [t \in Threads |->
        IF page[t].phase # "build" THEN page[t]
        ELSE [page[t] EXCEPT !.ctx = [page[t].ctx EXCEPT
                 !.moved = IF Between(t) THEN @ \cup {s} ELSE @, !.kept = @ \cap after]]]

\* The bot trades: it writes the projection and the lots in one transaction.
Trade(s) ==
    /\ writes < MaxWrites /\ writes' = writes + 1
    /\ \E row \in Rows :
         /\ portfolio' = [q \in DOMAIN portfolio \cup {s} |-> IF q = s THEN row ELSE portfolio[q]]
         /\ lots' = [q \in (DOMAIN lots \ {s}) \cup {q \in {s} : row.quantity > 0} |->
                        IF q = s THEN row.quantity ELSE lots[q]]
    /\ page' = Witnessed(s, DOMAIN lots')
    /\ UNCHANGED <<moment, faults, decisions, beat, entry>>

\* The projection changes without a trade: a price, or an operation of somebody else.
Outside(s) ==
    /\ writes < MaxWrites /\ writes' = writes + 1
    /\ \/ \E row \in Rows : portfolio' =
             [q \in DOMAIN portfolio \cup {s} |-> IF q = s THEN row ELSE portfolio[q]]
       \/ portfolio' = [q \in DOMAIN portfolio \ {s} |-> portfolio[q]]
    /\ page' = Witnessed(s, DOMAIN lots)
    /\ UNCHANGED <<moment, faults, lots, decisions, beat, entry>>

Decide ==
    /\ writes < MaxWrites /\ writes' = writes + 1
    /\ \E d \in Decisions : decisions' = Append(decisions, d)
    /\ UNCHANGED <<moment, faults, portfolio, lots, beat, entry, page>>

Beat == writes < MaxWrites /\ writes' = writes + 1 /\ beat' = moment
        /\ UNCHANGED <<moment, faults, portfolio, lots, decisions, entry, page>>

Pass == moment < MaxMoment /\ moment' = moment + 1
        /\ UNCHANGED <<writes, faults, tables, entry, page>>
-----------------------------------------------------------------------------
\* A page is asked for. The analytics page looks into the cache first.
Ask(t, kind) ==
    /\ page[t].phase = "idle"
    /\ page' = [page EXCEPT ![t] = [kind |-> kind, pos |-> 1, ctx |-> NewContext, served |-> 0,
                   phase |-> IF kind = "analytics" THEN "cache" ELSE "build"]]
    /\ UNCHANGED <<moment, writes, faults, tables, entry>>

Fresh == entry # NoEntry /\ moment < entry.stored + ANALYTICS_CACHE_SECONDS

CacheHit(t) ==
    /\ page[t].phase = "cache" /\ Fresh
    /\ page' = [page EXCEPT ![t] = [@ EXCEPT !.phase = "shown", !.ctx = entry.context,
                                             !.served = moment]]
    /\ UNCHANGED <<moment, writes, faults, tables, entry>>

\* The context begins here: what was seen while the request waited is forgotten.
Build(t) == [page EXCEPT ![t] = [@ EXCEPT !.phase = "build", !.ctx = NewContext]]

CacheMiss(t) ==
    /\ page[t].phase = "cache" /\ ~Fresh
    /\ page' = Build(t)
    /\ UNCHANGED <<moment, writes, faults, tables, entry>>

\* The entry cannot be read: it is deleted, if that succeeds, whoever has stored it.
CacheUnreadable(t) ==
    /\ page[t].phase = "cache" /\ faults < MaxFaults
    /\ faults' = faults + 1
    /\ entry' \in {entry, NoEntry}
    /\ page' = Build(t)
    /\ UNCHANGED <<moment, writes, tables>>

ReadPortfolio(t) ==
    /\ At(t, "portfolio")
    /\ Moved(t, [page[t].ctx EXCEPT !.rows = portfolio, !.moved = {},
                                    !.drift = Reconciliation(portfolio, lots)])
    /\ UNCHANGED <<moment, writes, faults, tables, entry>>

\* _build_bot_status decides with the time it reads now whether the beat is stale.
ReadHealth(t) ==
    /\ At(t, "health")
    /\ Moved(t, [page[t].ctx EXCEPT !.beat = beat,
                                    !.stale = moment - beat > HEALTHCHECK_STALE_AFTER])
    /\ UNCHANGED <<moment, writes, faults, tables, entry>>

\* Mutant: the number of lots is taken for their quantity.
CountLots(t) ==
    /\ At(t, "lots")
    /\ Moved(t, [page[t].ctx EXCEPT !.lots = [s \in DOMAIN lots |-> 1]])
    /\ UNCHANGED <<moment, writes, faults, tables, entry>>

ReadLots(t) ==
    /\ At(t, "lots")
    /\ Moved(t, [page[t].ctx EXCEPT !.lots = lots])
    /\ UNCHANGED <<moment, writes, faults, tables, entry>>

\* The decisions are looked up for symbols with lots only. The homepage takes a window of
\* theirs; the page of the exit status takes those of its symbols from a window of all.
WantsEvents(kind) == kind = "exit" \/ DIAGNOSTICS
ReadEvents(t) ==
    LET mine(d) == d.symbol \in DOMAIN page[t].ctx.lots
        window == IF page[t].kind = "exit"
                  THEN SelectSeq(Newest(decisions, SELL_EVENT_LIMIT), mine)
                  ELSE Newest(SelectSeq(decisions, mine), SELL_EVENT_LIMIT)
    IN /\ At(t, "exit")
       /\ Moved(t, IF WantsEvents(page[t].kind)
                   THEN [page[t].ctx EXCEPT !.events = LatestBySymbol(window)] ELSE page[t].ctx)
       /\ UNCHANGED <<moment, writes, faults, tables, entry>>

\* Their failure does not fail the section. The homepage goes on as if there were none.
EventsFail(t) ==
    /\ At(t, "exit") /\ faults < MaxFaults
    /\ WantsEvents(page[t].kind) /\ page[t].ctx.lots # Empty
    /\ faults' = faults + 1
    /\ Moved(t, [page[t].ctx EXCEPT !.loaded = page[t].kind # "exit"])
    /\ UNCHANGED <<moment, writes, tables, entry>>

Others == {"history", "rest"}
ReadOther(t) ==
    /\ \E section \in Others : At(t, section)
    /\ Moved(t, page[t].ctx)
    /\ UNCHANGED <<moment, writes, faults, tables, entry>>

\* Mutant: a failure is written to the log only.
SectionFailsSilently(t) ==
    /\ \E section \in Others \cup {"portfolio", "health", "lots"} : At(t, section)
    /\ faults < MaxFaults /\ faults' = faults + 1
    /\ Moved(t, page[t].ctx)
    /\ UNCHANGED <<moment, writes, tables, entry>>

\* _add_data_error: the section keeps its empty value and the page goes on, but that of the
\* exit status, which reads all in one try, ends.
SectionFails(t) ==
    \E section \in Others \cup {"portfolio", "health", "lots"} :
        /\ At(t, section)
        /\ faults < MaxFaults /\ faults' = faults + 1
        /\ page' = [page EXCEPT ![t] =
              [@ EXCEPT !.pos = IF page[t].kind = "exit" THEN Len(Sections("exit")) + 1
                                                         ELSE page[t].pos + 1,
                        !.ctx = [page[t].ctx EXCEPT !.errors = @ \cup {section}]]]
        /\ UNCHANGED <<moment, writes, tables, entry>>

\* Mutant: the entry is stored without a time to live.
FinishForever(t) ==
    /\ page[t].phase = "build" /\ page[t].pos > Len(Sections(page[t].kind))
    /\ LET done == [page[t].ctx EXCEPT !.finished = moment]  IN
       /\ page' = [page EXCEPT ![t] = [@ EXCEPT !.phase = "shown", !.ctx = done, !.served = moment]]
       /\ entry' = IF page[t].kind = "analytics"
                   THEN [context |-> done, stored |-> MaxMoment] ELSE entry
    /\ UNCHANGED <<moment, writes, faults, tables>>

\* The page is built and answered. That of the analytics is stored before, if that succeeds.
Finish(t) ==
    /\ page[t].phase = "build" /\ page[t].pos > Len(Sections(page[t].kind))
    /\ LET done == [page[t].ctx EXCEPT !.finished = moment]  IN
       /\ page' = [page EXCEPT ![t] = [@ EXCEPT !.phase = "shown", !.ctx = done, !.served = moment]]
       /\ \/ page[t].kind = "analytics" /\ entry' = [context |-> done, stored |-> moment]
             /\ faults' = faults
          \/ page[t].kind = "analytics" /\ faults < MaxFaults /\ faults' = faults + 1
             /\ entry' = entry
          \/ page[t].kind # "analytics" /\ UNCHANGED <<faults, entry>>
    /\ UNCHANGED <<moment, writes, tables>>

\* The process is replaced: the cache is in its memory.
Restart ==
    /\ faults < MaxFaults /\ faults' = faults + 1
    /\ entry' = NoEntry
    /\ page' = [t \in Threads |-> Idle]
    /\ UNCHANGED <<moment, writes, tables>>

PageNext ==
    \/ Beat \/ Pass \/ Decide \/ Restart
    \/ \E s \in Symbols : Trade(s) \/ Outside(s)
    \/ \E t \in Threads :
         \/ \E kind \in Kinds : Ask(t, kind)
         \/ CacheHit(t) \/ CacheMiss(t) \/ CacheUnreadable(t)
         \/ ReadPortfolio(t) \/ ReadHealth(t) \/ ReadLots(t) \/ ReadEvents(t) \/ EventsFail(t)
         \/ ReadOther(t) \/ SectionFails(t) \/ Finish(t)

PageSpec == PageInit /\ [][PageNext]_pageVars
-----------------------------------------------------------------------------
Shown(t, kinds) == page[t].phase = "shown" /\ page[t].kind \in kinds

\* A drift is warned of if there was one when the projection was read, unless the bot wrote the
\* symbol before the lots were read, or one of the two could not be read and the page
\* says so: neither a failure nor the two moments make up a warning or
\* lose one silently (dashboard/dashboard_read_model.py:318).
ReconciliationTrue ==
    \A t \in Threads : Shown(t, {"home", "analytics"}) =>
        LET ctx == page[t].ctx
            read == {"portfolio", "lots"} \cap ctx.errors = {}
            warned == IF read THEN Reconciliation(ctx.rows, ctx.lots) ELSE {}
        IN /\ warned \subseteq ctx.drift \cup ctx.moved
           /\ read => ctx.drift \subseteq warned \cup ctx.moved

\* A symbol that has open lots all the while is on the page, and not among the balances that
\* the bot does not manage, or the page names a failure; from the cache too
\* (dashboard/dashboard_read_model.py:191 and 318).
NothingHidden ==
    \A t \in Threads : Shown(t, {"home", "analytics", "exit"}) =>
        LET ctx == page[t].ctx
            status == ExitStatus(ctx.rows, ctx.lots, ctx.events, ctx.loaded,
                                 WantsEvents(page[t].kind))
        IN \/ ctx.errors # {}
           \/ /\ ctx.kept \subseteq DOMAIN status.label
              /\ ctx.kept \cap ExcludedBalances(ctx.rows, ctx.lots) = {}

\* The bot is shown as alive only if it was heard within the time after which it is stale, longer
\* by the life of a cache entry and by the time the page took
\* (dashboard/dashboard_read_model.py:191 and 628).
HealthyIsRecent ==
    \A t \in Threads : Shown(t, {"home", "analytics"}) =>
        LET ctx == page[t].ctx  IN
        ctx.beat # NoBeat /\ ~ctx.stale =>
            page[t].served - ctx.beat <= HEALTHCHECK_STALE_AFTER
                + (IF ctx.finished < page[t].served THEN ANALYTICS_CACHE_SECONDS ELSE 0)
                + (ctx.finished - ctx.begun)
=============================================================================
