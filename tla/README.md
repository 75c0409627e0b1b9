# A verification of django_render

django_render is a Django application beside an external trading bot. It shows
the bot's tables as dashboards, answers Telegram commands about them, lets an
operator ask the bot to pause, and protects itself with passkeys. It runs as
one gunicorn worker with two threads (`Procfile`), over a PostgreSQL database it
shares with the bot; most of the bot's tables are read-only here.

This directory holds TLA+ models of its concurrent parts, TLC runs that check
them on small instances, and TLAPS proofs for all instances.

## The system

| Part | State | Operations | What is hard |
|---|---|---|---|
| Passkeys (`profile/passkeys.py`) | credentials, proofs and challenges of enrolment (rows), session rows, the state of a registration (in the session) | re-authenticate, step up (options, assertion), register (begin, complete), revoke, manage | requests of one session work on copies of it and overwrite each other; proofs must pay once; a worker can die between steps; a sweep deletes rows under them |
| Rate limiter (`profile/passkeys.py`) | a row for each key, a lock and a stamp in each process | count an attempt; now and then sweep | time read before waiting for locks; two processes; failing sweep |
| Telegram webhook (`core/views.py`) | message rows; Telegram's queue | parse, look for a duplicate, record, dispatch, send parts, answer | repeated deliveries, also while one is being handled; failing database and Bot API; crashes |
| Bot control (`core/views.py`, `static/core/js/bot_control.js`) | one row; the script of each panel | pause, resume, status, retry, reload | requests that arrive late or not at all; several panels |
| Dashboard read model (`dashboard/dashboard_read_model.py`) | one cache entry in the process | build the context of a page section by section, cache that of the analytics for a minute | sections read at different moments and fail one by one; concurrent builders; entries that cannot be read |
| Dust signals (`dashboard/dust_read_model.py`, `dashboard/views.py`) | detections (the bot's), reviews, corrections | overview, list, detail, review, request a correction | five reads at five moments; lists with limits; several operators |
| Exchange rates (`currencyconverter/views.py`) | a row for each rate; the browser's caches | update rates; offline pages | concurrent updates; sources that fail half way; versions of the worker |
| Telegram diagnostics and services (`core/telegram_diagnostics.py`, `dashboard/services/`) | none | format health, positions, buy status, portfolio | several queries for one reply while the bot trades; long case distinctions; messages within 4096 characters |
| Operational KPIs, diagnostics API | none | aggregate histories; JSON | the same history summed in several ways, from several queries |
| Version, settings, scripts | none | | |

The parts interact through the database: a passkey view calls the rate limiter
before anything expensive; the limiter's sweep deletes the rows of proofs and
challenges; the webhook asks the diagnostics for a reply; the bot polls the
control row; dashboards read what the bot writes. Within the process the two
threads share the limiter's lock and stamp and the analytics cache.

`PROJECT.json` lists the hazards of each part at its lines; the properties below
are there for them.

## The modules

| Module | Models | Checked by | Proved in |
|---|---|---|---|
| `PasskeyEnrollment` | enrolment and revocation | `MCPasskeyEnrollment`, `Passkey*.cfg` | `PasskeyEnrollmentProofs` |
| `OneUseProofs` | abstract: a ledger of proofs that pay once | refined by `PasskeyEnrollment` | same |
| `RateLimiter` | the limiter and its sweep | `MCRateLimiter`, `RateLimit.cfg` | `RateLimiterProofs` |
| `FixedWindow` | abstract: what the limiter promises a key | refined by `RateLimiter` | same |
| `TelegramWebhook` | `listener` and all it calls | `MCTelegramWebhook`, `Webhook*.cfg` | `TelegramWebhookProofs` |
| `BotControl` | panels, POSTs, the row | `MCBotControl`, `Control.cfg` | `BotControlProofs` |
| `DustSignals` | overview, reviews, requests of corrections | `MCDustSignals`, `Dust*.cfg` | `DustSignalsProofs` |
| `ExchangeRates` | `update_rates`, its sources and its rows | `MCSite`, `Site.cfg` | `CurrencyProofs` |
| `ServiceWorker` | the offline caches of the browser | `MCSite`, `Site.cfg` | `CurrencyProofs` |
| `DashboardSections` | what a page computes of the rows it has read | used by `DashboardPage` | lemmas in `DashboardPageProofs` |
| `DashboardPage` | pages built section by section, and their cache | `MCSite`, `Site.cfg` | `DashboardPageProofs` |
| `TradingReports` | performance and operational KPIs, churn, totals | `MCReports`, `Reports.cfg` | `ReportsProofs` |
| `PositionModes` | replies about generations and open lots | `MCReports`, `Reports.cfg` | `ReportsProofs` |
| `StatusReplies` | `/portfolio_status` and `/buy_status` | `MCReports`, `Reports.cfg` | `ReportsProofs` |
| `HtmlParts` | the splitting of long replies | `MCReports`, `Reports.cfg` | `ReportsProofs` |

`MCSite` and `MCReports` each check several modules that share no state: the
variable `scene` says which of them moves in a behaviour, and the others stay
at one initial state. The check is that of each module alone, in one run.

Definitions whose comment begins with "Mutant" are faulty variants of the
definition that follows them. No specification uses them; they show that
each property can fail.

### PasskeyEnrollment

`req[r]` is the request a thread serves. It holds the copy of the session that
the middleware loaded; `Respond` writes the whole copy back over `store`, which
is how Django's session middleware loses updates. Each other action is one
transaction of a view: `ReauthCreate` (reauthenticate), `BeginRead`,
`BeginCeremony`, `BeginRefused` (RegistrationBeginView), `CompleteSave`,
`CompleteCheck`, `Register` (RegistrationCompleteView), `OptionsExists`,
`OptionsCreate` (EnrollmentStepUpBeginView), `AssertSave`, `AssertConsume`,
`AssertVerify`, `AssertGrant` (EnrollmentStepUpCompleteView), `RevokeDelete`
(revoke). `Admit` is the rate limiter, reduced to its verdict and the sweep of
proofs and challenges. `Abort` is an exception, `Restart` the loss of the worker.

What the WebAuthn library verifies is taken as given: `Register` may store a
new credential for whatever state it is handed, `AssertVerify` names a
credential the user owns, or either refuses. The library's options and the
names of passkeys are left out. "unused" tokens stand for random ones not drawn yet.

### RateLimiter

A call reads the clock (`Enter`), looks at the stamp without the lock (`Gate`),
with it (`Acquire`), prunes, stamps, and runs the transaction on the row of its
key (`CountFirst`, `CountNext`, `Refuse`). Waiting for the lock of the process is
a disabled `Acquire`; a thread waits for the row lock between `Gate` and the count,
with its old `now`. The count is one action because the row is locked
(`select_for_update`) and created under a unique key. Keys are opaque: the HMAC
of a scope and an identity. `opened`, `granted`, `sweptAt` are history.

### TelegramWebhook

`queue` and `waiting` are Telegram's: `Deliver` hands an update to a thread,
`GiveUp` repeats one that is still being handled. The thread then takes the steps of
`listener`: `Parse`, `RecordExists`, `RecordCreate`, `Dispatch`, one `Send`
or `SendRaises` for each part, `Respond`. `RepliesTo` lists the replies the diagnostics
may give to a kind of message; their text is not modelled. `KindOf` tells which
malformation or command an update holds. A send has four results: shown, lost, shown
but not confirmed (a timeout), or an exception that `_deliver_telegram` does not catch.
`excused` is history: the updates whose record failed, or that Telegram repeated
while they were being handled.

### BotControl

`panel` is the script of a page (`phase` stands for `inFlight` and where
`send` is), `post` and `server` the requests on their way, `row` the BotControl
row. `Doubt` covers every answer that is not the JSON of the row, and none: the
request may still arrive. Requests of a page that was left go on (`Reload`). The
HTML form without script behaves as a POST whose page is left. `updated_at` and
`updated_by` are written with the other fields and shown with them; `reason`,
which names the POST that wrote it, stands for all three.

### DustSignals

`detections`, `reviews` and `corrections` are the tables, of which the bot writes
the first (`Detect`) and settles the last (`Settle`). `view` is one call of
`get_dust_overview_context`, whose six queries are the actions `OverviewRun` to
`OverviewSummary`, in the program's order; the code holds no transaction around
them, so any write may come in between. Each list is `First(S, n, key)`: the first n
of a set in the order of a key, as the query or the sort of the code has it.
A failure of reviews or corrections is swallowed, as `_reviews_for_rows` and
`_corrections_for_detection_ids` do; another ends the reading. `page[o]` is where an operator
is on the way to a correction: the group's page is looked up (`OpenDetail`), its
corrections are (`ShowDetail`), the form looks up the latest detection again
(`OpenForm`), and is saved (`Submit`). `handled` and `blocked` are history: what was so at
every moment of the reading, and at some. Left out: runs and groups without
a name, the rows whose identity differs only in null and empty fields, the
list page, the informational residuals, hand-written form values.

### ExchangeRates and ServiceWorker

A request of `update_rates` goes through the keys (`Look`), asks the source of a
stale one (`Fetch`, `FetchFails`) and saves rows one at a time (`Save`): the row
of the UVA it read before the source answered, those of the two dollars looked
up again, each whole and with the time at which the request began. A
dollar answer may lack a house; then `SkipOrRaise` ends the request between
two saves, as the unbound variable in `update_ARSUSD_rate` does. A quote is named
by the time at which its source gave it, so that "older" is "less".
`AddAlias` posts a row whose key differs in case only, which `filter(key__iexact=...)`
cannot tell from the first. `overtaken` is history.

`ServiceWorker` is the script of `service_worker`: `caches` are in the order of their
creation, because `caches.match` looks through them in that order; `pending` are the copies
that a fetch handler has begun to store and nobody waits for. A new version is
installed page by page, may fail half way and leave its cache behind, and on activation
deletes the caches of the others; copies of a replaced worker may come later and
create its cache again.

### DashboardSections and DashboardPage

`DashboardSections` has the functions of a page: which symbols have drifted
(`_build_reconciliation`), the state and the value of each open position
(`_build_exit_status`), which balances the bot does not manage, which decision is
the last of a symbol. `DashboardPage` has the order of the reads: `Sections(kind)`
for the homepage, the analytics page, the page of the exit status and that of the
churn, one action for each section, and `SectionFails` for
`_add_data_error`, after which the page goes on with an empty section, or, for the
exit status, ends. The bot writes lots and projection in one transaction (`Trade`),
and the projection without the lots when a price or a balance changes (`Outside`).
`entry` is the cache entry of the analytics page: it is read, found unreadable and
deleted, or stored, by any thread in any order, and lost on `Restart`. `begun`,
`finished`, `drift`, `moved` and `kept` of a context are history: when it was built,
what had drifted when the projection was read, what was written until the lots
were, and which symbols had lots all the while.

### TradingReports, PositionModes, StatusReplies

Each models replies that need several queries, of which a query sees the tables of
its own moment. In `TradingReports` the tables only grow, so a query is
the length of the history it saw; `Performance`, `Operational`, `Reentries`,
`ChurnedSells`, `LastOperations` compute each report from these lengths, with the
filters, the groups and the signs of the code, and without ratios and hold times. In
`PositionModes` a reply reads generations, lots and projection in the order
of its function (`Reads`), and is computed as `Classify`, `Flagged`, `Breakdown`
and `Compared` do. In `StatusReplies` a reply also survives the failure
of most of its queries (`ReadError`); `Equity` is what `build_portfolio_status`
sums up, `Interpret` is `interpret_buy_state` with its order, and
`StatusLines` are those lines of the reply that a reader could find at odds
with its heading. The functions of strings, decimals and percentages are left out.

### HtmlParts

A line is a sequence of tokens (tags, entities, texts) with lengths, as
`_HTML_ATOM_RE` divides them. `TakeAtom` and `TakeText` are the rounds of the
loops of `_split_overlong_html_line`, `Flushed` is its `flush`, `PackLine` a round of
`_pack_html_lines`. Only the lengths of texts matter, so a text that is cut is a
piece with a part of its length. `PartsAssumption` says of the replies that the tags of
each line match and are closed in it, and that no tag, entity or single character is longer
than `LIMIT` together with the tags around it: the formatters write each line with its tags
(`core/telegram_diagnostics.py:505`, `572`), never one within another, and the limit is 4096. Without the
second a part could not fit, since the code puts an atom into a segment however long it is.

## The runs

| Run | Instance | Question |
|---|---|---|
| `passkey_step_up` | 1 user, 1 session, 2 requests at once, a passkey to begin with | Do proofs and challenges pay once, although two requests hold copies of their tokens? Does a revoked passkey vouch for nothing? Is the ledger `OneUseProofs` implemented? |
| `passkey_expiry` | 2 users with a session each, 1 request at a time, clock 0..2, times to live 1, sweep window 1 | Is what pays fresh, and is nothing fresh swept? Does every passkey trace to a password proof of its own session, and is a registration state verified once, whatever crash comes? |
| `passkey_later_credential` (violation) | 2 sessions of a user without passkey | Does a later credential always need a step-up: no. |
| `rate_limit` | 3 threads of 2 processes, 1 key, limit 2, window 1, interval 2, clock 0..2 | Is no attempt lost, is `FixedWindow` implemented, does a process sweep once per interval, does every call return, also after a failing sweep? |
| `webhook` | 2 threads; a reply of 2 chunks and a malformed update; failing database, early repetitions, crashes, 2 faults | Is nothing dispatched twice without excuse? Is what is acknowledged answered or cut off? Are chunks shown without a gap? Is every command answered or cut off in the end? |
| `webhook_duplicates` (violation) | early repetitions | The duplicate check is passed twice. |
| `webhook_photo` (violation) | a photo that cannot be sent | No text follows it. |
| `control` | 2 panels, 2 POSTs | Do cards show what was in the row, is a success a success, is only what was called uncertain late, is nothing carried out twice, do the controls come back? |
| `dust` | a critical group and a warning, 2 detections in 2 runs, 2 operators, 2 corrections, 1 review, limits 2, 1, 1 | Is what is listed unresolved and of one run, are critical groups first, do only races make duplicates? |
| `dust_none_found` (violation) | limits 2, 2, 1 | The overview says nothing was found beside an unresolved warning. |
| `site` | rates: 2 requests, clock 0..2, staleness 0, 1 failure, 1 alias; worker: 2 versions, 2 pages of which 1 public, 2 states of the site; pages: 2 threads, 1 symbol, 3 kinds of row, 1 decision, 2 writes, 1 failure, clock 0..2 | Does an answered request leave its rates fresh, and do rates go back only when requests overlap? Is an offline page the active worker's? Does no failure, moment or cache entry hide a position, make up a drift, or show a dead bot as alive? |
| `reports` | reports: 3 operations of 2 symbols with and without closures and corrections, clock 0..3; modes: 2 symbols, 2 generations, 2 writes; replies: 2 assets, prices 0 and 1, 5 reports of the bot, 1 failing query; parts: lines of up to 5 tokens, 2 tags, limit 8 | Are reports those of the moment of their first query, and do they agree with each other? Do the replies account for all open lots? Do equity and BUY state follow from what was read? Does every part of a split reply fit, with its tags matched and nothing lost? |

Why the bounds suffice: the interesting interleavings need two requests (a
copy that is read before the other's write and written after it), two
sessions or users (something of one used in the other), one more clock unit
than the longest interval compared, and one fault between any two steps. For
the limiter two threads of one process meet at the lock and the third, of
another process, meets them at the row; the interval of two leaves room for a
window to end and another to begin within it. Two POSTs, of one panel or of two,
let the later one overtake the earlier. For the overview two groups of
different severity compete for a list of one, the less severe worth more
and earlier by name. `dust` has the bound `TwoAtATime`: two operators act beside each
other, or one beside a reading of the overview or after a review, for the
overview sees of an operator only the corrections. `site` and `reports` have the bounds `Bounded`: two
pages at once are two of the analytics (the only ones that share something, the
cache), beside one write or one failure; a report that is being made meets at
most one further operation, and what the bot writes before a reply's first read is
among the initial states instead. The symbols of a page do not interact, so one
is enough; for the replies two share the slots, the cash and the sums. A limit of 8
lets a line of five tokens be cut in a text, before a tag, and
before an entity, with a tag open or not. What is proved holds
for all bounds. Operators, requests and tokens are permuted only in runs of
safety properties. Deadlock is not checked where clients simply may stop
(`CHECK_DEADLOCK FALSE` for the webhook, the panels and the overview); a lost
wakeup or a lock held for good shows in `CallsReturn`, `EveryCommandAnswered` and `PanelFreed`.

### What the violations show

They are described under "findings" in `PROJECT.json`.

1. `README.md:818` promises a step-up for a later credential. The need for it is
   decided when a registration begins; two registrations begun before the first
   passkey exists both complete.
2. `docs/PROJECT_STATE.md` says duplicate message ids are ignored. The check and
   the insert are two statements with no constraint behind them.
3. `docs/DESIGN.md:387` says a photo falls back to text. `send_photo` returns
   `False` for failures, and only an exception leads to the text.
4. `dashboard.html:458` says "No active operational dust issues found." when the list is
   empty. The list is cut to five before groups with a correction are dropped.

Noticed while reading, without a run: the comment at `profile/passkeys.py:353` says the
ceremony is consumed before verification, but it is popped from a copy of
the session, so a concurrent request with an earlier copy verifies the same
state again (`CeremonyVerifiedOnce` holds one request at a time); a chat that is
not an object, or a text of blanks, ends an update with 500
(`core/views.py:304`, `311`), where `docs/PROJECT_STATE.md:194` says malformed updates do
not; `_clean_filters` (`dashboard/dust_read_model.py:202`) drops the page number
that line 104 asks for, so every page of the dust list is the first. Also:

- A quote of zero ends the conversion form with a division by zero
  (`currencyconverter/views.py:144`), and a second row whose key differs in case only
  stops the updates of both (`currencyconverter/views.py:231`, `272`).
- The page warns of a drift only for symbols that are material by the projection;
  one with lots and without a row is in the lists and not in the warning.
- When the diagnostics of selling cannot be read the homepage shows "Review" for every
  position, the page of the exit status "Diagnostics unavailable".
- The equity of `/portfolio_status` adds the free balance of the last report to the lots
  of now: it counts what was paid or received since then twice (`EquityExact` says by how much).
- `/buy_status` can say that there is capacity and that there are no slots, when the bot
  itself was blocked by positions and its counts leave room (`SlotsHonest`).
- `dashboard_read_model.py:1150` and `operational_kpis.py:387` tell corrections from trades in
  different ways, so their totals differ by such operations (`TotalsAgree`).
- Lots of a generation with a phase that is not known are in the open quantity of
  `/position_mode`, and not in its active one; the mode is INCONSISTENT then.
- Without a row of the projection `/position` shows a difference of minus the open
  quantity; without lots the API shows none.

## Fairness

- `RateLimiter`: `WF` of each thread's steps. The operating system schedules the threads;
  the lock is free again after finitely many steps of its holder. Clients need
  not call, and processes need not be replaced.
- `TelegramWebhook`: `WF` of each thread's steps and of Telegram's deliveries, which the
  Bot API promises for a time; repetitions and crashes are bounded by `MaxFaults` and
  not required.
- `BotControl`: `WF` of the script: a fetch succeeds or fails in the end, as browsers
  do. The operator need do nothing, and the server need not serve any POST.

## What is proved

The proofs hold for every value of the constants that satisfies the `ASSUME`s of
the modules: numbers are naturals, a price that is not known is not a number, times
to live are not longer than the sweep's window (`profile/passkeys.py` 57-64, `settings.py` 111), and the values that stand for
"none" are not members of the sets.

- `PasskeyEnrollmentProofs`: `TypeCorrect`, then `Inductive`. The invariant ties each
  token to its row's history: a consumed proof names the ceremony it paid for,
  a ceremony names proofs that are consumed, a challenge is consumed
  before a request holds it for verification. `CeremoniesArePaid`,
  `ProofsPayOnce`, `ChallengesGrantOnce`, `PasskeysEnrolledOnPassword` follow from
  it; `SweepSparesWhatIsUsable`, `RevokedPasskeysCannotVouch` are about steps, and
  `Implementation` is the refinement of `OneUseProofs`. Sessions take no part in
  the argument: what they hold may be anything, which is why lost updates do
  no harm to these properties. They do harm to the registration states, so
  `StatesVerifiedOnce` has a hypothesis, `[]SessionsApart`: no two requests of
  one session overlap. With it, a state in a session or in the copy a request works on was
  not used for a passkey yet, and is the state of that session only.
- `RateLimiterProofs`: the invariant says that a running window has its row with exactly
  the admissions counted, that a call's `now` is not later than the clock, that a
  thread past the lock holds it, and that the stamp is at least as late as the
  last sweep whose holder has let go. `LimiterTypeCorrect`, `NoAttemptLost`, `PrunesOncePerInterval`
  and the refinement `LimiterImplementation` follow.
- `TelegramWebhookProofs`: a message with a row was taken by a delivery that is
  still at work, was handled, or was cut off (`NothingUnanswered`, for any failures).
  A message whose record did not fail and that was not repeated early has one
  delivery at most and, once taken, a row (`MessagesAnsweredOnce`). Deliveries
  of an update are numbered by the faults before them, and never two alike (`NumberedInductive`):
  that bounds how often one is taken (`WebhookTypes`), and keeps the chunks of a
  delivery a sequence that only its thread appends to (`SplitWithoutGap`).
- `BotControlProofs`: a panel that waits does so for its last POST, and a POST that is
  neither doubtful nor left is waited for or finished; so a write that comes late
  belongs to a doubtful one. What a panel has read is among the rows since its
  last POST. `PanelTypeCorrect`, `CardsAreTrue`, `SuccessWasWritten`,
  `LateWritesAreUncertain`, `WrittenOnce`.
- `DustSignalsProofs`: for the overview, the history includes the present while
  it is read, rows are of the run, and from the query on that makes it so,
  critical groups are listed before others unless they were resolved. The
  lemma behind that is `FirstClosed`: the first n of a finite set contain
  whatever precedes one of them (`CriticalListedFirst`, `UnresolvedListed`, `RunShown`).
  For corrections, what a page could see is not open on the detection it shows, nor on
  any the form may find later, because detections only grow (`DuplicatesRace`).

- `CurrencyProofs`: for the rates, what a request has passed is fresh by its own clock unless
  others saved it meanwhile or it has an alias, and a row is not newer than what a
  request is about to save unless it was overtaken (`RatesInvariant`). `FreshAfterAnswerHolds`
  and `BackOnlyByOverlapHolds` follow, for any number of requests and failures.
  For the worker, there is one cache for each version, and that of the version in
  control is the first (`WorkerInvariant`): activation leaves it alone, so whatever comes
  later is behind it. Hence `OfflineFromActiveHolds`.
- `DashboardPageProofs`: the invariant follows a context through its sections. Until the lots
  are read, the drift noted when the projection was read is that of the rows read and the lots of
  now, but for what moved; with the lots it becomes a fact of the context, which nothing changes
  any more, and the cache holds only such contexts, with the time at which they were
  finished (`PageInvariant`). A failure adds to the errors, and nothing is claimed of what it
  names. `ReconciliationTrueHolds`, `NothingHiddenHolds` and `HealthyIsRecentHolds` follow, for
  any threads, symbols, rows, times and failures.

- `ReportsProofs` begins with sums over finite sets, `SumFunctionOnSet` of the community modules:
  that they do not depend on the order (`SumWithout`), add up over disjoint sets (`SumApart`) and over
  the parts of a set by a key (`SumOfParts`), and that a sum of ones is a cardinality. The library's
  theorems of induction take an operator, which the provers cannot instantiate, so these
  lemmas argue by a least counterexample: a nonempty set of naturals has a least element
  (`LeastNat`, from the library's theorem on well-founded relations), and so has a set of
  finite sets a smallest (`SmallestSet`, `SubsetInduction`).
  - `ReportsTellTheSame`: the history is in the order of time and each query saw no less than
    the one before (`ReportsInvariant`). So the closures that a later query sees beyond
    those of the first are of no operation the first saw, and a report is that of its first query
    (`FirstQuery`). Of one moment, each total is the sum of one function over the closures, and the
    ways to sum it are partitions of these (`Totals`). For the re-entries, the
    last SELL before a BUY and the first BUY after a SELL are no farther apart than any other two
    around them, because times grow (`ReentriesBothOrNeither`).
  - `InventoryHolds`: what a reply has read is what the tables held, apart from what was written since, which is noted
    (`ModesInvariant`); the parts of `/position_mode` are a partition of the lots.
  - `RepliesSupported` needs types only (`RepliesTypes`): a case distinction over what was read.

  - `SplitReplyFits`: the invariant `PartsInv` has three parts. `Cursor` says where the splitting
    stands: the open tags are those after the tokens passed, and nothing is packed before
    all is split. `Segments` says that what is done and what is in work fit with the tags that would
    close them now, match their tags, are in the order of the reply and cut nothing but texts, and
    that they hold of every token what is due: all of those passed, none of those to come, and of the text in
    work all but `remaining`. `Packs` says that the parts are the first `packed` segments in order.
    A flush and an addition to the segment in work each keep `Segments` whatever the
    action that does it (`FlushKeeps`, `TakeKeeps`), so the actions only have to show that there is room. What the
    folds over tokens and pieces compute is proved by the same least counterexample as for the
    sums (`TagsAppend`, `SumExtend`). The theorem is about the real hazard of that code, the
    tags that it adds itself: a segment must be closed early while there is room for its closing tags.

  What is assumed of the data beside types and `PartsAssumption`: the symbols, assets and ids are finitely many, and a
  BUY has no closures (a `LotClosure` is of a fill of a SELL, `core/trading_models.py`).

Only model-checked: the liveness properties (liveness under fairness and ENABLED are beyond the
prover), and what the violations show. Every invariant and action property of a passing run
is a theorem.

## What is not modelled, and the plan

Not modelled for good: WebAuthn cryptography, Django's and PostgreSQL's own code
(transactions, row locks, unique keys are taken as they are documented), wording
and layout, version and settings modules, development scripts and hooks.

Not modelled yet, in the order in which it would be worth it:

1. The list page of `DustSignals`, with its filters and pages, and the form's validation.
2. Hold times (`operational_kpis.py`, FIFO over openings and closures) and the history of the
   equity with its chart: pure functions, to be checked against definitions like those
   of `TradingReports`.
3. The replies of one query (`/health`, `/last_sell`, `/why_not_sell`), the freshness labels
   of the diagnostics API, its authentication and its payload of the capacity.
4. The sections of a page that only format what they read: valuation consistency, fee
   assets, the BUY summary, disk usage.
5. The conversion form, the manifest and the other REST views of the converter.
