--------------------------- MODULE StatusReplies ---------------------------
(* The commands /portfolio_status and /buy_status of core/telegram_diagnostics  *)
(* with the services they call. Each makes several queries, of which most may   *)
(* fail and be done without, while the bot trades and reports.                  *)
EXTENDS Integers, Sequences, FiniteSetsExt

CONSTANTS Assets,            \* symbols
          Prices,            \* prices that may be recorded: 0 is taken for none
          Absent,            \* a value, a row or an answer that there is not
          STALE,             \* HEALTHCHECK_STALE_MINUTES
          MATERIAL_MIN, MAX_POSITIONS, BUY_AMOUNT,
          Verdicts,          \* what a report of the bot may say of its last try to buy
          Rejections,        \* why an operation of the bot may have been rejected
          MaxHour, MaxDeeds, MaxErrors   \* bounds: time, writes of the bot, failures

\* counts: if it reports its classification, and with it the slots that this leaves.
Verdict == [decision : STRING, reason : STRING, error : BOOLEAN, read_only : BOOLEAN,
            counts : BOOLEAN]
ASSUME RepliesAssumption ==
    /\ {STALE, MATERIAL_MIN, MAX_POSITIONS, BUY_AMOUNT, MaxHour, MaxDeeds, MaxErrors} \subseteq Nat
    /\ IsFiniteSet(Assets) /\ Prices \subseteq Nat /\ Absent \notin Int
    /\ Verdicts \subseteq Verdict /\ Rejections \subseteq STRING

VARIABLES hour, cash,
          positions,    \* the open quantity of the lots, by symbol
          quotes,       \* price and time of the rows of Portfolio
          rejected,     \* the reason of the latest rejected BUY, "" without one
          pulse,        \* the latest report of the bot
          deeds, errors,
          answer        \* the reply in work
market == <<cash, positions, quotes, rejected, pulse>>
repliesVars == <<hour, market, deeds, errors, answer>>
-----------------------------------------------------------------------------
Worth(rows, lots, a) == lots[a] * rows[a].price
Held(lots) == {a \in Assets : lots[a] > 0}

Aged(at, now) == at = Absent \/ now - at > STALE

\* Mutant: positions below the minimum are passed over before their value is added.
OpenValueOfMaterial(lots, rows, priced) ==
    SumFunction([a \in {b \in priced : Worth(rows, lots, b) >= MATERIAL_MIN} |-> Worth(rows, lots, a)])

OpenValue(lots, rows, priced) == SumFunction([a \in priced |-> Worth(rows, lots, a)])

\* build_portfolio_status, of lots and rows that could be read: the equity.
Equity(lots, rows, free, now) ==
    LET priced == {a \in Held(lots) : ~Aged(rows[a].updated, now) /\ rows[a].price > 0}  IN
    IF priced = Held(lots) /\ free # Absent THEN free + OpenValue(lots, rows, priced) ELSE Absent
-----------------------------------------------------------------------------
\* What /buy_status knows of a report: counts are those of its classification.
Counts(p) == p # Absent /\ p.verdict.counts
Effective(p) == IF Counts(p) THEN Cardinality(p.material) + Cardinality(p.unknown) ELSE Absent
Slots(p) == IF Effective(p) = Absent THEN Absent ELSE Max({0, MAX_POSITIONS - Effective(p)})

\* interpret_buy_state, in its order.
Interpret(p, reason) ==
    LET decision == p.verdict.decision  IN
    IF Effective(p) = Absent THEN "diagnostic_unavailable"
    ELSE IF p.verdict.read_only THEN "blocked_by_read_only"
    ELSE IF decision = "blocked_by_positions" THEN "blocked_by_positions"
    ELSE IF decision = "blocked_by_usdt" \/ reason = "free_usdt_below_buy_amount" THEN "blocked_by_usdt"
    ELSE IF decision = "submitted_failed" \/ (decision = "submitted" /\ p.verdict.error) THEN "execution_error"
    ELSE IF decision = "no_candidate" \/ reason = "no_candidate" THEN "no_candidate"
    ELSE IF reason = "loss_reentry_cooldown_active" THEN "blocked_by_cooldown"
    ELSE IF Effective(p) >= MAX_POSITIONS THEN "blocked_by_positions"
    ELSE IF p.free < BUY_AMOUNT THEN "blocked_by_usdt"
    ELSE "available"

\* The lines of _buy_status_lines that a reader could find at odds with the heading.
StatusLines(p, reason, label) ==
    {IF Slots(p) = Absent THEN "unavailable" ELSE IF Slots(p) > 0 THEN "capacity" ELSE "no slots"}
    \cup (IF p.verdict.read_only THEN {"read-only"} ELSE {})
    \cup (IF p.verdict.decision = "blocked_by_usdt" \/ reason = "free_usdt_below_buy_amount"
          THEN {"usdt"} ELSE {})
    \cup (IF "blocked_by_positions" \in {p.verdict.decision, label} THEN {"no slots"} ELSE {})

\* build_buy_status_exposure: the total is none if one of the symbols has no value.
Exposure(p, rows) ==
    LET symbols == IF Counts(p) THEN p.material ELSE {}  IN
    IF (rows = Absent /\ symbols # {}) \/ \E a \in symbols : rows[a].price = 0 THEN Absent
    ELSE {<<a, rows[a].price>> : a \in symbols}

\* format_buy_status. A report that is old, missing or dated after the reading of the clock
\* says nothing of the present; the reason of a rejection counts if a fresh one has none.
BuyStatus(p, rejection, rows, now) ==
    LET stale == p = Absent \/ Aged(p.at, now) \/ p.at > now
        reason == IF stale THEN "" ELSE IF p.verdict.reason # "" THEN p.verdict.reason ELSE rejection
        label == IF stale THEN "diagnostic_unavailable" ELSE Interpret(p, reason)
    IN [label |-> label, stale |-> stale, exposure |-> Exposure(p, rows),
        lines |-> IF stale THEN {"unavailable"} ELSE StatusLines(p, reason, label)]
-----------------------------------------------------------------------------
NoAnswer == [kind |-> "none", pos |-> 1]
Steps == [portfolio_status |-> <<"now", "pulse", "lots", "rows">>,
          buy_status |-> <<"pulse", "now", "rejection", "rows">>]
Given == answer.kind # "none" /\ answer.pos > Len(Steps[answer.kind])

\* What the bot reports: its balance, and which positions are material or of unknown value.
Said(verdict) ==
    [at |-> hour, free |-> cash, verdict |-> verdict,
     material |-> {a \in Held(positions) : Worth(quotes, positions, a) >= MATERIAL_MIN},
     unknown |-> {a \in Held(positions) : quotes[a].price = 0}]

RepliesInit ==
    /\ hour = 0 /\ cash = BUY_AMOUNT
    /\ positions \in [Assets -> 0..MATERIAL_MIN]
    /\ quotes \in [Assets -> [price : Prices, updated : {0}]]
    /\ rejected = "" /\ pulse \in {Absent} \cup {Said(verdict) : verdict \in Verdicts}
    /\ deeds = 0 /\ errors = 0 /\ answer = NoAnswer

PassHour == hour < MaxHour /\ hour' = hour + 1 /\ UNCHANGED <<market, deeds, errors, answer>>

Deed == deeds < MaxDeeds /\ deeds' = deeds + 1 /\ UNCHANGED <<hour, errors, answer>>

BuyLot(a) ==
    /\ quotes[a].price > 0 /\ cash >= quotes[a].price
    /\ cash' = cash - quotes[a].price
    /\ positions' = [positions EXCEPT ![a] = @ + 1]
    /\ Deed /\ UNCHANGED <<quotes, rejected, pulse>>

SellLot(a) ==
    /\ positions[a] > 0 /\ quotes[a].price > 0
    /\ cash' = cash + quotes[a].price
    /\ positions' = [positions EXCEPT ![a] = @ - 1]
    /\ Deed /\ UNCHANGED <<quotes, rejected, pulse>>

Quote(a, price) ==
    /\ quotes' = [quotes EXCEPT ![a] = [price |-> price, updated |-> hour]]
    /\ Deed /\ UNCHANGED <<cash, positions, rejected, pulse>>

Reject(reason) == rejected' = reason /\ Deed /\ UNCHANGED <<cash, positions, quotes, pulse>>

Report(verdict) == pulse' = Said(verdict) /\ Deed /\ UNCHANGED <<cash, positions, quotes, rejected>>

Command(kind) ==
    /\ answer.kind = "none"
    /\ answer' = [kind |-> kind, pos |-> 1, now |-> 0, pulse |-> Absent, lots |-> Absent,
                  rows |-> Absent, rejection |-> "", cash |-> 0]
    /\ UNCHANGED <<hour, market, deeds, errors>>

\* cash: history, the balance at the moment at which the lots were read.
ReadNext ==
    /\ answer.kind # "none" /\ ~Given
    /\ LET step == Steps[answer.kind][answer.pos]
           at == [answer EXCEPT !.pos = @ + 1]
       IN answer' = CASE step = "now" -> [at EXCEPT !.now = hour]
                      [] step = "pulse" -> [at EXCEPT !.pulse = pulse]
                      [] step = "lots" -> [at EXCEPT !.lots = positions, !.cash = cash]
                      [] step = "rejection" -> [at EXCEPT !.rejection = rejected]
                      [] step = "rows" -> [at EXCEPT !.rows = quotes]
    /\ UNCHANGED <<hour, market, deeds, errors>>

\* A query fails: the reply goes on without its rows, but /buy_status not without a report.
ReadError ==
    /\ answer.kind # "none" /\ ~Given
    /\ Steps[answer.kind][answer.pos] # "now"
    /\ errors < MaxErrors /\ errors' = errors + 1
    /\ answer' = IF answer.kind = "buy_status" /\ Steps[answer.kind][answer.pos] = "pulse"
                 THEN NoAnswer ELSE [answer EXCEPT !.pos = @ + 1]
    /\ UNCHANGED <<hour, market, deeds>>

RepliesNext ==
    \/ ~Given /\ PassHour
    \/ ~Given /\ \E a \in Assets : BuyLot(a) \/ SellLot(a) \/ \E price \in Prices : Quote(a, price)
    \/ ~Given /\ \E reason \in Rejections : Reject(reason)
    \/ ~Given /\ \E verdict \in Verdicts : Report(verdict)
    \/ \E kind \in DOMAIN Steps : Command(kind)
    \/ ReadNext \/ ReadError

RepliesSpec == RepliesInit /\ [][RepliesNext]_repliesVars
-----------------------------------------------------------------------------
\* The free balance that /portfolio_status shows, of a report that is not old.
Free == IF answer.pulse = Absent \/ Aged(answer.pulse.at, answer.now) THEN Absent ELSE answer.pulse.free

\* The equity shown values every open lot by a price recorded within STALE, and is off the
\* one at the moment of the lots, at these prices, by exactly what the bot has paid since its
\* report; nothing else that happens or fails between the queries makes it wrong, and none is
\* shown where a part of it is not known.
EquityExact ==
    answer.kind = "portfolio_status" =>
        LET equity == Equity(answer.lots, answer.rows, Free, answer.now)
            true == answer.cash
                      + SumFunction([a \in Assets |-> Worth(answer.rows, answer.lots, a)])
        IN Absent \notin {answer.lots, answer.rows} /\ equity # Absent =>
             /\ equity - true = answer.pulse.free - answer.cash
             /\ \A a \in Held(answer.lots) : answer.now - answer.rows[a].updated <= STALE

\* BUY is shown as available only after a report heard within STALE that leaves a free slot, the
\* amount for it and no mark against it, and then no line says otherwise; where slots are said to
\* be both free and not, the bot itself was blocked by positions while its counts leave room.
SlotsHonest ==
    answer.kind = "buy_status" =>
        LET p == answer.pulse
            status == BuyStatus(p, answer.rejection, answer.rows, answer.now)
        IN /\ status.label = "available" =>
                /\ p # Absent /\ answer.now - p.at \in 0..STALE
                /\ Cardinality(p.material \cup p.unknown) < MAX_POSITIONS /\ p.free >= BUY_AMOUNT
                /\ ~p.verdict.read_only /\ status.lines = {"capacity"}
           /\ {"capacity", "no slots"} \subseteq status.lines => p.verdict.decision = "blocked_by_positions"
           /\ status.stale => status.lines = {"unavailable"}
           /\ Counts(p) /\ status.exposure # Absent => {e[1] : e \in status.exposure} = p.material

\* A reply says of the present only what the report and the rows it has read support
\* (core/telegram_diagnostics.py:709 and 869).
RepliesOfTheReport == Given => EquityExact /\ SlotsHonest
=============================================================================
