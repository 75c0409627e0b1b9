--------------------------- MODULE PositionModes ---------------------------
(* The replies about generations of positions and their open lots: the          *)
(* commands /position_modes, /position_mode and /position of                    *)
(* core/telegram_diagnostics.py and the inventory of bot_diagnostics_api.py.    *)
(* Each reads two or three tables one after the other while the bot trades.     *)
EXTENDS Integers, Sequences, FiniteSetsExt

CONSTANTS Coins, Ids,          \* symbols; generations
          NoId,                \* a lot without a generation
          NoRow,               \* a symbol without a row of the projection
          TRADING_PHASES,
          OddPhases,           \* phases that the program does not know
          MaxQty, MaxActs      \* bounds: quantity of a row, writes of the bot

Phases == TRADING_PHASES \cup OddPhases \cup {"HOLD", "CLOSED"}
ACTIVE_PHASES == TRADING_PHASES \cup {"HOLD"}
ASSUME ModesAssumption ==
    /\ IsFiniteSet(Ids) /\ NoId \notin Ids /\ NoRow \notin Int
    /\ {"HOLD", "CLOSED"} \cap TRADING_PHASES = {} /\ OddPhases \cap (ACTIVE_PHASES \cup {"CLOSED"}) = {}
    /\ MaxQty \in Nat \ {0} /\ MaxActs \in Nat

VARIABLES generations,   \* the generations, by id
          holdings,      \* the open quantity of the lots, by symbol and generation
          projection,    \* the quantity of the row of Portfolio, by symbol
          acts,          \* writes so far
          inquiry        \* the reply in work: what it has read
modesVars == <<generations, holdings, projection, acts, inquiry>>
-----------------------------------------------------------------------------
OfSymbol(gens, s) == {id \in DOMAIN gens : gens[id].symbol = s}
WithPhase(gens, s, phases) == {id \in OfSymbol(gens, s) : gens[id].phase \in phases}

\* _classify_generations
Classify(gens, s) ==
    LET hold == Cardinality(WithPhase(gens, s, {"HOLD"}))
        trading == Cardinality(WithPhase(gens, s, TRADING_PHASES))
    IN IF WithPhase(gens, s, OddPhases) # {} \/ hold > 1 \/ trading > 1 THEN "INCONSISTENT"
       ELSE IF hold > 0 /\ trading > 0 THEN "HOLD + TRADING"
       ELSE IF hold > 0 THEN "HOLD" ELSE IF trading > 0 THEN "TRADING" ELSE "UNKNOWN"

QtyIn(lots, s, ids) == SumFunction([id \in ids |-> lots[<<s, id>>]])
OpenQty(lots, s) == QtyIn(lots, s, Ids \cup {NoId})

\* Mutant: a lot of a closed generation counts as assigned.
FlaggedIfUnknown(gens, lots, s) ==
    \E id \in Ids \cup {NoId} : lots[<<s, id>>] > 0 /\ id \notin OfSymbol(gens, s)

\* _symbols_with_unassigned_open_qty
Flagged(gens, lots, s) ==
    \E id \in Ids \cup {NoId} :
        /\ lots[<<s, id>>] > 0
        /\ id \notin OfSymbol(gens, s) \/ id \in WithPhase(gens, s, {"CLOSED"})

\* The quantities that format_position_mode prints; current: of the listed generations.
Breakdown(gens, lots, s) ==
    [active |-> QtyIn(lots, s, WithPhase(gens, s, ACTIVE_PHASES)),
     current |-> QtyIn(lots, s, WithPhase(gens, s, Phases \ {"CLOSED"})),
     generationless |-> lots[<<s, NoId>>],
     closed |-> QtyIn(lots, s, WithPhase(gens, s, {"CLOSED"})),
     missing |-> QtyIn(lots, s, Ids \ OfSymbol(gens, s))]

\* The projection's quantity minus that of the lots, of which /position_mode prints the
\* negative. A missing row counts as zero for /position; for the API so do missing lots not.
Compared(kind, row, lots, s) ==
    IF row = NoRow /\ kind = "position" THEN -OpenQty(lots, s)
    ELSE IF row = NoRow \/ (kind = "inventory" /\ OpenQty(lots, s) = 0) THEN NoRow
    ELSE row - OpenQty(lots, s)
-----------------------------------------------------------------------------
NoInquiry == [kind |-> "none", symbols |-> {}, pos |-> 1]
Reads == [modes |-> <<"generations", "lots">>,
          mode |-> <<"generations", "lots", "portfolio">>,
          position |-> <<"portfolio", "lots">>,
          inventory |-> <<"portfolio", "lots">>]
Told == inquiry.kind # "none" /\ inquiry.pos > Len(Reads[inquiry.kind])

\* Lots may have been left by an older bot: without a generation, or with one that is closed
\* or unknown.
ModesInit ==
    /\ generations \in UNION {[S -> [symbol : Coins, phase : Phases]] : S \in SUBSET Ids}
    /\ holdings \in {[k \in Coins \X (Ids \cup {NoId}) |-> IF k \in some THEN 1 ELSE 0] :
                        some \in UNION {kSubset(n, Coins \X (Ids \cup {NoId})) : n \in 0..1}}
    /\ projection = [s \in Coins |-> IF OpenQty(holdings, s) = 0 THEN NoRow ELSE OpenQty(holdings, s)]
    /\ acts = 0 /\ inquiry = NoInquiry

\* History: what was written of which symbol since the first read.
Noted(what, s) ==
    /\ acts < MaxActs /\ acts' = acts + 1
    /\ inquiry' = IF inquiry.kind = "none" \/ inquiry.pos = 1 THEN inquiry
                  ELSE [inquiry EXCEPT !.noted = @ \cup {<<what, s>>}]

\* The lots and the projection change together.
Moves(s, id, n) ==
    LET row == (IF projection[s] = NoRow THEN 0 ELSE projection[s]) + n  IN
    /\ row \in 0..MaxQty /\ holdings[<<s, id>>] + n \in 0..MaxQty
    /\ holdings' = [holdings EXCEPT ![<<s, id>>] = @ + n]
    /\ projection' = [projection EXCEPT ![s] = row]

\* The bot buys and opens a generation; there is one that trades and one that holds at most.
OpenGeneration(id, s, phase) ==
    /\ id \notin DOMAIN generations
    /\ WithPhase(generations, s, IF phase = "HOLD" THEN {"HOLD"} ELSE TRADING_PHASES) = {}
    /\ generations' = [i \in DOMAIN generations \cup {id} |->
          IF i = id THEN [symbol |-> s, phase |-> phase] ELSE generations[i]]
    /\ Moves(s, id, 1)
    /\ Noted("opened", s)

TradeLots(s, id, n) ==
    /\ id \in WithPhase(generations, s, ACTIVE_PHASES)
    /\ Moves(s, id, n)
    /\ Noted("moved", s)
    /\ UNCHANGED generations

\* A generation is closed in a transaction after the one that has used up its lots.
Shift(id, phase) ==
    /\ generations[id].phase \notin {"CLOSED", phase}
    /\ phase = "CLOSED" => \A s \in Coins : holdings[<<s, id>>] = 0
    /\ generations' = [generations EXCEPT ![id].phase = phase]
    /\ Noted("shifted", generations[id].symbol)
    /\ UNCHANGED <<holdings, projection>>

\* The balance changes without the bot, which sees it when it next writes the projection.
Project(s) ==
    /\ \E row \in (0..MaxQty) \cup {NoRow} : projection' = [projection EXCEPT ![s] = row]
    /\ Noted("moved", s)
    /\ UNCHANGED <<generations, holdings>>

\* symbols: those of the material list for /position_modes, else the one asked about.
Inquire(kind, symbols) ==
    /\ inquiry.kind = "none"
    /\ kind # "modes" => Cardinality(symbols) = 1
    /\ inquiry' = [kind |-> kind, symbols |-> symbols, pos |-> 1, generations |-> <<>>,
                   lots |-> <<>>, rows |-> <<>>, noted |-> {}, then |-> <<>>]
    /\ UNCHANGED <<generations, holdings, projection, acts>>

\* The next table is read. then: history, the generations at the moment of the lots.
ReadTable ==
    /\ inquiry.kind # "none" /\ ~Told
    /\ LET table == Reads[inquiry.kind][inquiry.pos]
           at == [inquiry EXCEPT !.pos = @ + 1]
       IN inquiry' = CASE table = "generations" -> [at EXCEPT !.generations = generations]
                       [] table = "lots" -> [at EXCEPT !.lots = holdings, !.then = generations]
                       [] table = "portfolio" -> [at EXCEPT !.rows = projection]
    /\ UNCHANGED <<generations, holdings, projection, acts>>

ModesNext ==
    \/ ~Told /\ \E s \in Coins : Project(s)
    \/ ~Told /\ \E s \in Coins, id \in Ids, phase \in ACTIVE_PHASES : OpenGeneration(id, s, phase)
    \/ ~Told /\ \E s \in Coins, id \in Ids, n \in {-1, 1} : TradeLots(s, id, n)
    \/ ~Told /\ \E id \in DOMAIN generations, phase \in Phases : Shift(id, phase)
    \/ \E kind \in DOMAIN Reads, symbols \in SUBSET Coins : Inquire(kind, symbols)
    \/ ReadTable

ModesSpec == ModesInit /\ [][ModesNext]_modesVars
-----------------------------------------------------------------------------
\* The list warns of a quantity without a generation wherever one was when the lots were read,
\* and elsewhere only if a generation was opened since the generations were.
WarnsOfUnassigned ==
    inquiry.kind = "modes" => \A s \in inquiry.symbols :
        LET flagged == Flagged(inquiry.generations, inquiry.lots, s)
            unassigned == Flagged(inquiry.then, inquiry.lots, s)
        IN /\ unassigned => flagged
           /\ flagged /\ ~unassigned => <<"opened", s>> \in inquiry.noted

\* What /position_mode prints adds up to the open quantity, a mode other than INCONSISTENT
\* has all of the listed quantity active, and the list would warn of the same rows.
BreakdownAddsUp ==
    inquiry.kind = "mode" => \A s \in inquiry.symbols :
        LET b == Breakdown(inquiry.generations, inquiry.lots, s)  IN
        /\ b.current + b.generationless + b.closed + b.missing = OpenQty(inquiry.lots, s)
        /\ b.active # b.current => Classify(inquiry.generations, s) = "INCONSISTENT"
        /\ Flagged(inquiry.generations, inquiry.lots, s)
              <=> b.generationless + b.closed + b.missing > 0

\* A difference of projection and lots is one of a moment unless the two moved in between.
DifferenceOfAMoment ==
    inquiry.kind # "modes" => \A s \in inquiry.symbols :
        \/ \E what \in {"opened", "moved"} : <<what, s>> \in inquiry.noted
        \/ Compared(inquiry.kind, inquiry.rows[s], inquiry.lots, s)
             = Compared(inquiry.kind, projection[s], holdings, s)

\* Whatever the tables hold and the bot does meanwhile, the replies account for all the open
\* lots (core/telegram_diagnostics.py:546 and 572, dashboard/bot_diagnostics_api.py:253).
InventoryAccounted == Told => WarnsOfUnassigned /\ BreakdownAddsUp /\ DifferenceOfAMoment
=============================================================================
