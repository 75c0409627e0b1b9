------------------------ MODULE DashboardPageProofs ------------------------
(* A page neither hides what is there nor warns of what is not, and shows no    *)
(* dead bot as alive, whatever fails and whatever the bot writes meanwhile:     *)
(* proofs for any threads, symbols, rows, windows and times.                    *)
EXTENDS DashboardPage, TLAPS

\* What a context is, with types for its times only.
Shaped(c) ==
    c \in [begun : Nat, finished : Nat, rows : {c.rows}, lots : {c.lots}, events : {c.events},
           loaded : {c.loaded}, beat : Nat \cup {NoBeat}, stale : BOOLEAN, errors : {c.errors},
           drift : {c.drift}, moved : {c.moved}, kept : {c.kept}]

Request(p) ==
    /\ p \in [kind : Kinds, pos : Nat, ctx : {p.ctx}, served : Nat,
              phase : {"idle", "cache", "build", "shown"}]
    /\ Shaped(p.ctx)

\* The place of the section of the lots among those of a page that has one.
WithLots == {"home", "analytics", "exit"}
LotsPlace(kind) == IF kind = "exit" THEN 2 ELSE 4

\* A bot that looks alive was heard shortly before the page was begun.
Alive(c) == c.beat # NoBeat /\ ~c.stale => c.begun - c.beat <= HEALTHCHECK_STALE_AFTER

\* What did not move in between is warned of if and only if it had drifted.
Agrees(c, open) == \A s : s \notin c.moved => (s \in c.drift <=> s \in Reconciliation(c.rows, open))

\* A context in which the lots were read, or tried to.
Complete(c) ==
    /\ c.errors = {} => c.kept \subseteq DOMAIN c.lots
    /\ {"portfolio", "lots"} \cap c.errors = {} => Agrees(c, c.lots)

\* A context in work, up to the section at pos.
InWork(c, kind, pos) ==
    /\ c.begun <= moment /\ Alive(c)
    /\ kind \in WithLots =>
        /\ c.kept \subseteq DOMAIN lots
        /\ pos \in 2..LotsPlace(kind) /\ "portfolio" \notin c.errors => Agrees(c, lots)
        /\ pos > LotsPlace(kind) => Complete(c)

Final(c) == Shaped(c) /\ Alive(c) /\ Complete(c)

InOrder(p) ==
    /\ Request(p)
    /\ p.phase = "cache" => p.pos = 1
    /\ p.phase = "build" => p.pos > 0 /\ InWork(p.ctx, p.kind, p.pos)
    /\ p.phase = "shown" =>
        /\ Alive(p.ctx)
        /\ p.kind \in WithLots => Complete(p.ctx)
        /\ p.served <= p.ctx.finished
               + (IF p.ctx.finished < p.served THEN ANALYTICS_CACHE_SECONDS ELSE 0)

EntryInOrder ==
    entry # NoEntry =>
        /\ entry \in [context : {entry.context}, stored : Nat]
        /\ Final(entry.context) /\ entry.stored = entry.context.finished

Clocks == moment \in Nat /\ beat \in Nat /\ page = [t \in Threads |-> page[t]]

PInv == Clocks /\ EntryInOrder /\ \A t \in Threads : InOrder(page[t])

USE PageAssumption, SectionsAssumption
-----------------------------------------------------------------------------
\* Where the sections are.
LEMMA Lengths ==
    ASSUME NEW kind \in Kinds
    PROVE  \/ kind \in {"home", "analytics"} /\ kind \in WithLots /\ LotsPlace(kind) = 4
              /\ Sections(kind) = <<"portfolio", "health", "history", "lots", "exit", "rest">>
           \/ kind = "exit" /\ kind \in WithLots /\ LotsPlace(kind) = 2
              /\ Sections(kind) = <<"portfolio", "lots", "exit">>
           \/ kind = "churn" /\ kind \notin WithLots /\ LotsPlace(kind) = 4
              /\ Sections(kind) = <<"rest">>
<1>1. CASE kind \in {"home", "analytics"}
  <2>1. Sections(kind) = <<"portfolio", "health", "history", "lots", "exit", "rest">>
    BY <1>1 DEF Sections
  <2>2. kind \in WithLots /\ LotsPlace(kind) = 4
    BY <1>1 DEF WithLots, LotsPlace
  <2> QED BY <1>1, <2>1, <2>2
<1>2. CASE kind = "exit"
  <2>1. Sections(kind) = <<"portfolio", "lots", "exit">>
    BY <1>2 DEF Sections
  <2>2. kind \in WithLots /\ LotsPlace(kind) = 2
    BY <1>2 DEF WithLots, LotsPlace
  <2> QED BY <1>2, <2>1, <2>2
<1>3. CASE kind = "churn"
  <2>1. Sections(kind) = <<"rest">>
    BY <1>3 DEF Sections
  <2>2. kind \notin WithLots /\ LotsPlace(kind) = 4
    BY <1>3 DEF WithLots, LotsPlace
  <2> QED BY <1>3, <2>1, <2>2
<1> QED BY <1>1, <1>2, <1>3 DEF Kinds

LEMMA LotsAt ==
    ASSUME NEW kind \in WithLots
    PROVE  /\ kind \in Kinds
           /\ Sections(kind)[1] = "portfolio" /\ Sections(kind)[LotsPlace(kind)] = "lots"
           /\ Len(Sections(kind)) \in Nat /\ LotsPlace(kind) <= Len(Sections(kind))
           /\ LotsPlace(kind) \in {2, 4}
<1>1. kind \in Kinds
  BY DEF WithLots, Kinds
<1>2. CASE Sections(kind) = <<"portfolio", "health", "history", "lots", "exit", "rest">>
           /\ LotsPlace(kind) = 4
  BY <1>1, <1>2
<1>3. CASE Sections(kind) = <<"portfolio", "lots", "exit">> /\ LotsPlace(kind) = 2
  BY <1>1, <1>3
<1> QED BY <1>1, <1>2, <1>3, Lengths

LEMMA Places ==
    ASSUME NEW kind \in Kinds, NEW i \in 1..Len(Sections(kind)), NEW section,
           section = Sections(kind)[i]
    PROVE  /\ section = "portfolio" => i = 1 /\ kind \in WithLots
           /\ section = "lots" => i = LotsPlace(kind) /\ kind \in WithLots
           /\ section = "health" => i = 2 /\ LotsPlace(kind) = 4
           /\ section = "exit" => i = LotsPlace(kind) + 1 /\ kind \in WithLots
           /\ section \in Others /\ kind \in WithLots => i \in {3, 6} /\ LotsPlace(kind) = 4
           /\ LotsPlace(kind) \in {2, 4} /\ i \in Nat \ {0}
<1>1. CASE Sections(kind) = <<"portfolio", "health", "history", "lots", "exit", "rest">>
           /\ LotsPlace(kind) = 4 /\ kind \in WithLots
  BY <1>1 DEF Others
<1>2. CASE Sections(kind) = <<"portfolio", "lots", "exit">> /\ LotsPlace(kind) = 2
           /\ kind \in WithLots
  BY <1>2 DEF Others
<1>3. CASE Sections(kind) = <<"rest">> /\ LotsPlace(kind) = 4 /\ kind \notin WithLots
  BY <1>3
<1> QED BY <1>1, <1>2, <1>3, Lengths

\* Two tables that are alike at a symbol.
Alike2(s, open, later) ==
    (s \in DOMAIN open <=> s \in DOMAIN later) /\ (s \in DOMAIN open => open[s] = later[s])

LEMMA WarnedAlike ==
    ASSUME NEW s, NEW rows, NEW open, NEW later, Alike2(s, open, later)
    PROVE  s \in Reconciliation(rows, open) <=> s \in Reconciliation(rows, later)
<1>1. Difference(rows, open, s) = Difference(rows, later, s)
  BY DEF Difference, Quantity, Alike2
<1>2. IsMaterial(rows, s) => s \in DOMAIN rows
  BY DEF IsMaterial
<1> QED BY <1>1, <1>2 DEF Reconciliation

\* A step of one request.
LEMMA OneStep ==
    ASSUME PInv, NEW t \in Threads, NEW p, InOrder(p), page' = [page EXCEPT ![t] = p],
           UNCHANGED <<moment, lots, beat>>, EntryInOrder'
    PROVE  PInv'
<1>1. Clocks'
  BY DEF PInv, Clocks
<1>2. page'[t] = p /\ \A s \in Threads : s # t => page'[s] = page[s]
  BY DEF PInv, Clocks
<1>3. ASSUME NEW s \in Threads PROVE InOrder(page[s])'
  <2>1. InOrder(page'[s])
    BY <1>2 DEF PInv
  <2> QED BY <2>1 DEF InOrder, InWork
<1> QED BY <1>1, <1>3 DEF PInv

\* A request at a section, with what the invariant says of it.
LEMMA AtFacts ==
    ASSUME PInv, NEW t \in Threads, NEW section, At(t, section)
    PROVE  /\ Request(page[t]) /\ page[t].phase = "build" /\ Shaped(page[t].ctx)
           /\ InWork(page[t].ctx, page[t].kind, page[t].pos)
           /\ page[t].pos \in Nat \ {0} /\ LotsPlace(page[t].kind) \in {2, 4}
           /\ section = "portfolio" => page[t].pos = 1 /\ page[t].kind \in WithLots
           /\ section = "lots" => page[t].pos = LotsPlace(page[t].kind) /\ page[t].kind \in WithLots
           /\ section = "health" => page[t].pos = 2 /\ LotsPlace(page[t].kind) = 4
           /\ section = "exit" => page[t].pos = LotsPlace(page[t].kind) + 1
           /\ section \in Others /\ page[t].kind \in WithLots =>
                page[t].pos \in {3, 6} /\ LotsPlace(page[t].kind) = 4
<1>1. /\ Request(page[t]) /\ page[t].phase = "build" /\ Shaped(page[t].ctx)
      /\ page[t].kind \in Kinds /\ page[t].pos \in Nat \ {0}
      /\ InWork(page[t].ctx, page[t].kind, page[t].pos)
  BY DEF PInv, InOrder, At, Request
<1>2. Len(Sections(page[t].kind)) \in Nat
  BY <1>1, Lengths
<1>3. page[t].pos \in 1..Len(Sections(page[t].kind)) /\ section = Sections(page[t].kind)[page[t].pos]
  BY <1>1, <1>2 DEF At
<1> DEFINE kind == page[t].kind
           pos == page[t].pos
<1>4. kind \in Kinds /\ pos \in 1..Len(Sections(kind)) /\ section = Sections(kind)[pos]
  BY <1>1, <1>3
<1> HIDE DEF kind, pos
<1>5. /\ LotsPlace(kind) \in {2, 4}
      /\ section = "portfolio" => pos = 1 /\ kind \in WithLots
      /\ section = "lots" => pos = LotsPlace(kind) /\ kind \in WithLots
      /\ section = "health" => pos = 2 /\ LotsPlace(kind) = 4
      /\ section = "exit" => pos = LotsPlace(kind) + 1
      /\ section \in Others /\ kind \in WithLots => pos \in {3, 6} /\ LotsPlace(kind) = 4
  BY <1>4, Places
<1> QED BY <1>1, <1>5 DEF kind, pos

\* A section that puts the context c in the place of that of t.
LEMMA MovedStep ==
    ASSUME PInv, NEW t \in Threads, page[t].phase = "build", Request(page[t]), NEW c, Shaped(c),
           NEW n \in Nat \ {0}, InWork(c, page[t].kind, n),
           page' = [page EXCEPT ![t] = [@ EXCEPT !.pos = n, !.ctx = c]],
           UNCHANGED <<moment, lots, beat, entry>>
    PROVE  PInv'
<1> DEFINE p == [page[t] EXCEPT !.pos = n, !.ctx = c]
<1>1. /\ p \in [kind : Kinds, pos : Nat, ctx : {c}, served : Nat,
                phase : {"idle", "cache", "build", "shown"}]
      /\ p.kind = page[t].kind /\ p.pos = n /\ p.ctx = c /\ p.phase = "build"
  BY DEF Request
<1>2. page' = [page EXCEPT ![t] = p]
  OBVIOUS
<1> HIDE DEF p
<1>3. InOrder(p)
  BY <1>1 DEF InOrder, Request
<1>4. EntryInOrder'
  BY DEF PInv, EntryInOrder
<1> QED BY <1>2, <1>3, <1>4, OneStep

LEMMA PortfolioStep == ASSUME NEW t \in Threads PROVE PInv /\ ReadPortfolio(t) => PInv'
<1> SUFFICES ASSUME PInv, ReadPortfolio(t) PROVE PInv'
  OBVIOUS
<1> DEFINE c0 == page[t].ctx
           c == [c0 EXCEPT !.rows = portfolio, !.moved = {}, !.drift = Reconciliation(portfolio, lots)]
<1>1. At(t, "portfolio") /\ UNCHANGED <<moment, lots, beat, entry>>
      /\ page' = [page EXCEPT ![t] = [@ EXCEPT !.pos = page[t].pos + 1, !.ctx = c]]
  BY DEF ReadPortfolio, Moved, tables
<1>2. /\ Request(page[t]) /\ page[t].phase = "build" /\ Shaped(c0)
      /\ InWork(c0, page[t].kind, page[t].pos)
      /\ page[t].kind \in WithLots /\ page[t].pos = 1 /\ LotsPlace(page[t].kind) \in {2, 4}
  BY <1>1, AtFacts
<1>3. /\ Shaped(c) /\ c.begun = c0.begun /\ c.beat = c0.beat /\ c.stale = c0.stale /\ c.kept = c0.kept
      /\ c.rows = portfolio /\ c.drift = Reconciliation(portfolio, lots)
  BY <1>2 DEF Shaped
<1> HIDE DEF c, c0
<1>4. InWork(c, page[t].kind, page[t].pos + 1) /\ page[t].pos + 1 \in Nat \ {0}
  BY <1>2, <1>3 DEF InWork, Alive, Agrees
<1> QED BY <1>1, <1>2, <1>3, <1>4, MovedStep

LEMMA HealthStep == ASSUME NEW t \in Threads PROVE PInv /\ ReadHealth(t) => PInv'
<1> SUFFICES ASSUME PInv, ReadHealth(t) PROVE PInv'
  OBVIOUS
<1> DEFINE c0 == page[t].ctx
           old == moment - beat > HEALTHCHECK_STALE_AFTER
           c == [c0 EXCEPT !.beat = beat, !.stale = old]
<1>1. At(t, "health") /\ UNCHANGED <<moment, lots, beat, entry>>
      /\ page' = [page EXCEPT ![t] = [@ EXCEPT !.pos = page[t].pos + 1, !.ctx = c]]
  BY DEF ReadHealth, Moved, tables
<1>2. /\ Request(page[t]) /\ page[t].phase = "build" /\ Shaped(c0)
      /\ InWork(c0, page[t].kind, page[t].pos)
      /\ page[t].pos = 2 /\ LotsPlace(page[t].kind) = 4
  BY <1>1, AtFacts
<1>3. moment \in Nat /\ beat \in Nat /\ c0.begun \in Nat /\ old \in BOOLEAN
  BY <1>2 DEF PInv, Clocks, Shaped
<1> HIDE DEF old
<1>4. /\ Shaped(c) /\ c.begun = c0.begun /\ c.beat = beat /\ c.kept = c0.kept /\ c.errors = c0.errors
      /\ c.stale = old
      /\ c.rows = c0.rows /\ c.drift = c0.drift /\ c.moved = c0.moved
  BY <1>2, <1>3 DEF Shaped
<1> HIDE DEF c, c0
<1>5. Alive(c)
  <2>1. ~old => moment - beat <= HEALTHCHECK_STALE_AFTER
    BY <1>3 DEF old
  <2> QED BY <1>2, <1>3, <1>4, <2>1 DEF InWork, Alive
<1>6. InWork(c, page[t].kind, page[t].pos + 1) /\ page[t].pos + 1 \in Nat \ {0}
  BY <1>2, <1>3, <1>4, <1>5 DEF InWork, Agrees
<1> QED BY <1>1, <1>2, <1>4, <1>6, MovedStep

LEMMA LotsStep == ASSUME NEW t \in Threads PROVE PInv /\ ReadLots(t) => PInv'
<1> SUFFICES ASSUME PInv, ReadLots(t) PROVE PInv'
  OBVIOUS
<1> DEFINE c0 == page[t].ctx
           c == [c0 EXCEPT !.lots = lots]
<1>1. At(t, "lots") /\ UNCHANGED <<moment, lots, beat, entry>>
      /\ page' = [page EXCEPT ![t] = [@ EXCEPT !.pos = page[t].pos + 1, !.ctx = c]]
  BY DEF ReadLots, Moved, tables
<1>2. /\ Request(page[t]) /\ page[t].phase = "build" /\ Shaped(c0)
      /\ InWork(c0, page[t].kind, page[t].pos) /\ page[t].kind \in WithLots
      /\ page[t].pos = LotsPlace(page[t].kind) /\ LotsPlace(page[t].kind) \in {2, 4}
  BY <1>1, AtFacts
<1>3. /\ Shaped(c) /\ c.begun = c0.begun /\ c.beat = c0.beat /\ c.stale = c0.stale /\ c.kept = c0.kept
      /\ c.errors = c0.errors /\ c.lots = lots
      /\ c.rows = c0.rows /\ c.drift = c0.drift /\ c.moved = c0.moved
  BY <1>2 DEF Shaped
<1> HIDE DEF c, c0
<1>4. Complete(c)
  BY <1>2, <1>3 DEF InWork, Complete, Agrees
<1>5. InWork(c, page[t].kind, page[t].pos + 1)
  BY <1>2, <1>3, <1>4 DEF InWork, Alive
<1>6. page[t].pos + 1 \in Nat \ {0}
  BY <1>2
<1> QED BY <1>1, <1>2, <1>3, <1>5, <1>6, MovedStep

\* A section that changes no more than the decisions that are shown.
LEMMA QuietStep ==
    ASSUME PInv, NEW t \in Threads, NEW section \in Others \cup {"exit"}, At(t, section),
           NEW c, Shaped(c),
           c.begun = page[t].ctx.begun, c.beat = page[t].ctx.beat, c.stale = page[t].ctx.stale,
           c.kept = page[t].ctx.kept, c.errors = page[t].ctx.errors, c.lots = page[t].ctx.lots,
           c.rows = page[t].ctx.rows, c.drift = page[t].ctx.drift, c.moved = page[t].ctx.moved,
           Moved(t, c), UNCHANGED <<moment, lots, beat, entry>>
    PROVE  PInv'
<1>1. /\ Request(page[t]) /\ page[t].phase = "build" /\ page[t].pos \in Nat \ {0}
      /\ InWork(page[t].ctx, page[t].kind, page[t].pos)
      /\ page[t].kind \in WithLots =>
            \/ page[t].pos > LotsPlace(page[t].kind) /\ LotsPlace(page[t].kind) \in {2, 4}
            \/ page[t].pos = 3 /\ LotsPlace(page[t].kind) = 4
  <2>1. CASE section \in Others
    BY <2>1, AtFacts
  <2>2. CASE section = "exit"
    BY <2>2, AtFacts
  <2> QED BY <2>1, <2>2
<1>2. InWork(c, page[t].kind, page[t].pos + 1)
  <2> DEFINE c0 == page[t].ctx
             kind == page[t].kind
             pos == page[t].pos
  <2>1. /\ InWork(c0, kind, pos) /\ pos \in Nat \ {0}
        /\ kind \in WithLots => \/ pos > LotsPlace(kind) /\ LotsPlace(kind) \in {2, 4}
                                \/ pos = 3 /\ LotsPlace(kind) = 4
    BY <1>1
  <2>2. (Alive(c0) => Alive(c)) /\ (Complete(c0) => Complete(c))
        /\ (Agrees(c0, lots) => Agrees(c, lots))
        /\ c.begun = c0.begun /\ c.kept = c0.kept /\ c.errors = c0.errors
    BY DEF Alive, Agrees, Complete
  <2> HIDE DEF c0, kind, pos
  <2>3. InWork(c, kind, pos + 1)
    BY <2>1, <2>2 DEF InWork
  <2> QED BY <2>3 DEF kind, pos
<1>3. page' = [page EXCEPT ![t] = [@ EXCEPT !.pos = page[t].pos + 1, !.ctx = c]]
      /\ page[t].pos + 1 \in Nat \ {0}
  BY <1>1 DEF Moved
<1> QED BY <1>1, <1>2, <1>3, MovedStep

LEMMA EventsStep ==
    ASSUME NEW t \in Threads
    PROVE  PInv /\ (ReadEvents(t) \/ EventsFail(t) \/ ReadOther(t)) => PInv'
<1> SUFFICES ASSUME PInv, ReadEvents(t) \/ EventsFail(t) \/ ReadOther(t) PROVE PInv'
  OBVIOUS
<1>1. CASE ReadEvents(t)
  <2>1. PICK events : Moved(t, IF WantsEvents(page[t].kind)
                               THEN [page[t].ctx EXCEPT !.events = events] ELSE page[t].ctx)
    BY <1>1 DEF ReadEvents
  <2> DEFINE c == IF WantsEvents(page[t].kind)
                  THEN [page[t].ctx EXCEPT !.events = events] ELSE page[t].ctx
  <2>2. At(t, "exit") /\ UNCHANGED <<moment, lots, beat, entry>>
    BY <1>1 DEF ReadEvents, tables
  <2>3. /\ Shaped(c) /\ c.begun = page[t].ctx.begun /\ c.beat = page[t].ctx.beat
        /\ c.stale = page[t].ctx.stale /\ c.kept = page[t].ctx.kept /\ c.errors = page[t].ctx.errors
        /\ c.lots = page[t].ctx.lots /\ c.rows = page[t].ctx.rows /\ c.drift = page[t].ctx.drift
        /\ c.moved = page[t].ctx.moved
    <3>1. Shaped(page[t].ctx)
      BY <2>2, AtFacts
    <3>2. CASE WantsEvents(page[t].kind)
      BY <3>1, <3>2 DEF Shaped
    <3>3. CASE ~WantsEvents(page[t].kind)
      BY <3>1, <3>3 DEF Shaped
    <3> QED BY <3>2, <3>3
  <2>4. Moved(t, c)
    BY <2>1
  <2> HIDE DEF c
  <2> QED BY <2>2, <2>3, <2>4, QuietStep
<1>2. CASE EventsFail(t)
  <2> DEFINE c0 == page[t].ctx
             ok == page[t].kind # "exit"
             c == [c0 EXCEPT !.loaded = ok]
  <2>1. Moved(t, c) /\ At(t, "exit") /\ UNCHANGED <<moment, lots, beat, entry>>
    BY <1>2 DEF EventsFail, tables
  <2>2. Shaped(c0)
    BY <2>1, AtFacts
  <2> HIDE DEF ok
  <2>3. /\ Shaped(c) /\ c.begun = c0.begun /\ c.beat = c0.beat /\ c.stale = c0.stale
        /\ c.kept = c0.kept /\ c.errors = c0.errors /\ c.lots = c0.lots
        /\ c.rows = c0.rows /\ c.drift = c0.drift /\ c.moved = c0.moved
    <3> HIDE DEF c0
    <3> QED BY <2>2 DEF Shaped
  <2> HIDE DEF c
  <2> QED BY <2>1, <2>3, QuietStep
<1>3. CASE ReadOther(t)
  <2>1. PICK section \in Others : At(t, section)
    BY <1>3 DEF ReadOther
  <2>2. Moved(t, page[t].ctx) /\ UNCHANGED <<moment, lots, beat, entry>> /\ Shaped(page[t].ctx)
    BY <1>3, <2>1, AtFacts DEF ReadOther, tables
  <2> QED BY <2>1, <2>2, QuietStep
<1> QED BY <1>1, <1>2, <1>3

\* A failure is named, and what a page with failures says of the rest is not relied upon.
LEMMA FailsStep == ASSUME NEW t \in Threads PROVE PInv /\ SectionFails(t) => PInv'
<1> SUFFICES ASSUME PInv, SectionFails(t) PROVE PInv'
  OBVIOUS
<1>1. PICK section \in Others \cup {"portfolio", "health", "lots"} :
        /\ At(t, section)
        /\ page' = [page EXCEPT ![t] =
              [@ EXCEPT !.pos = IF page[t].kind = "exit" THEN Len(Sections("exit")) + 1
                                                         ELSE page[t].pos + 1,
                        !.ctx = [page[t].ctx EXCEPT !.errors = @ \cup {section}]]]
        /\ UNCHANGED <<moment, writes, tables, entry>>
  BY DEF SectionFails
<1> DEFINE c0 == page[t].ctx
           more == c0.errors \cup {section}
           c == [c0 EXCEPT !.errors = more]
           n == IF page[t].kind = "exit" THEN Len(Sections("exit")) + 1 ELSE page[t].pos + 1
<1>2. Len(Sections("exit")) + 1 = 4
  BY DEF Sections
<1>3. /\ Request(page[t]) /\ page[t].phase = "build" /\ Shaped(c0)
      /\ InWork(c0, page[t].kind, page[t].pos) /\ page[t].pos \in Nat \ {0}
      /\ page[t].kind \in WithLots =>
           /\ section = "portfolio" => page[t].pos = 1
           /\ section = "lots" => page[t].pos = LotsPlace(page[t].kind)
           /\ section = "health" => page[t].pos = 2
           /\ section \in Others => page[t].pos \in {3, 6}
           /\ LotsPlace(page[t].kind) \in {2, 4}
           /\ page[t].kind = "exit" => section \in {"portfolio", "lots"} /\ LotsPlace("exit") = 2
           /\ page[t].kind # "exit" => LotsPlace(page[t].kind) = 4
  <2>1. /\ page[t].kind = "exit" => LotsPlace(page[t].kind) = 2
        /\ page[t].kind # "exit" => LotsPlace(page[t].kind) = 4
        /\ LotsPlace("exit") = 2
    BY DEF LotsPlace
  <2>2. section # "exit"
    BY DEF Others
  <2> QED BY <1>1, <2>1, <2>2, AtFacts
<1>4. /\ Shaped(c) /\ c.begun = c0.begun /\ c.beat = c0.beat /\ c.stale = c0.stale /\ c.kept = c0.kept
      /\ c.errors = c0.errors \cup {section} /\ c.lots = c0.lots
      /\ c.rows = c0.rows /\ c.drift = c0.drift /\ c.moved = c0.moved
  <2> HIDE DEF more
  <2>1. /\ Shaped(c) /\ c.begun = c0.begun /\ c.beat = c0.beat /\ c.stale = c0.stale /\ c.kept = c0.kept
        /\ c.errors = more /\ c.lots = c0.lots
        /\ c.rows = c0.rows /\ c.drift = c0.drift /\ c.moved = c0.moved
    BY <1>3 DEF Shaped
  <2> QED BY <2>1 DEF more
<1>5. n \in Nat \ {0} /\ page' = [page EXCEPT ![t] = [@ EXCEPT !.pos = n, !.ctx = c]]
      /\ UNCHANGED <<moment, lots, beat, entry>>
  <2>1. n \in Nat \ {0}
    BY <1>2, <1>3
  <2>2. page' = [page EXCEPT ![t] = [@ EXCEPT !.pos = n, !.ctx = c]]
    BY <1>1
  <2> QED BY <1>1, <2>1, <2>2 DEF tables
<1>6. page[t].kind \in WithLots /\ page[t].kind # "exit" => n = page[t].pos + 1
  OBVIOUS
<1>7. page[t].kind = "exit" => n = 4
  BY <1>2
<1> HIDE DEF c, c0, n
<1>8. CASE page[t].kind \notin WithLots
  <2>1. InWork(c, page[t].kind, n)
    BY <1>3, <1>4, <1>8 DEF InWork, Alive
  <2> QED BY <1>3, <1>4, <1>5, <2>1, MovedStep
<1>9. CASE page[t].kind \in WithLots
  <2>1. n > LotsPlace(page[t].kind) => Complete(c)
    <3>1. CASE section \in {"portfolio", "lots"}
      BY <1>4, <3>1 DEF Complete
    <3>2. CASE section \notin {"portfolio", "lots"}
      BY <1>3, <1>4, <1>6, <1>9, <3>2 DEF Complete, InWork, Agrees, Others
    <3> QED BY <3>1, <3>2
  <2>2. n \in 2..LotsPlace(page[t].kind) /\ "portfolio" \notin c.errors => Agrees(c, lots)
    BY <1>3, <1>4, <1>6, <1>7, <1>9 DEF InWork, Agrees
  <2>3. InWork(c, page[t].kind, n)
    BY <1>3, <1>4, <2>1, <2>2 DEF InWork, Alive
  <2> QED BY <1>3, <1>4, <1>5, <2>3, MovedStep
<1> QED BY <1>8, <1>9

\* Requests that begin, and the cache.
LEMMA NewInOrder ==
    ASSUME Clocks
    PROVE  /\ Shaped(NewContext) /\ Shaped(Idle.ctx)
           /\ \A kind \in Kinds : InWork(NewContext, kind, 1)
           /\ InOrder(Idle)
<1>1. Shaped(NewContext) /\ NewContext.begun = moment /\ NewContext.beat = NoBeat
      /\ NewContext.kept = DOMAIN lots
  BY DEF Clocks, Shaped, NewContext
<1>2. Shaped(Idle.ctx)
  <2> DEFINE c0 == NewContext
             c == [c0 EXCEPT !.kept = {}, !.begun = 0, !.finished = 0]
  <2>1. Idle.ctx = c
    BY DEF Idle
  <2> HIDE DEF c0
  <2>2. Shaped(c)
    BY <1>1 DEF Shaped, c0
  <2> QED BY <2>1, <2>2
<1>3. ASSUME NEW kind \in Kinds PROVE InWork(NewContext, kind, 1)
  <2>1. LotsPlace(kind) \in {2, 4}
    BY DEF LotsPlace
  <2> HIDE DEF NewContext
  <2> QED BY <1>1, <2>1 DEF InWork, Alive, Clocks
<1>4. InOrder(Idle)
  <2>1. /\ Idle \in [kind : Kinds, pos : Nat, ctx : {Idle.ctx}, served : Nat,
                     phase : {"idle", "cache", "build", "shown"}]
        /\ Idle.phase = "idle"
    BY DEF Idle, Kinds
  <2> QED BY <1>2, <2>1 DEF InOrder, Request
<1> QED BY <1>1, <1>2, <1>3, <1>4

LEMMA AskStep ==
    ASSUME NEW t \in Threads, NEW kind \in Kinds
    PROVE  PInv /\ Ask(t, kind) => PInv'
<1> SUFFICES ASSUME PInv, Ask(t, kind) PROVE PInv'
  OBVIOUS
<1> DEFINE first == IF kind = "analytics" THEN "cache" ELSE "build"
           p == [kind |-> kind, pos |-> 1, ctx |-> NewContext, served |-> 0, phase |-> first]
<1>1. page' = [page EXCEPT ![t] = p] /\ UNCHANGED <<moment, lots, beat, entry>>
  BY DEF Ask, tables
<1>2. Shaped(NewContext) /\ InWork(NewContext, kind, 1)
  BY NewInOrder DEF PInv
<1>3. first \in {"cache", "build"}
  OBVIOUS
<1> HIDE DEF first
<1>4. /\ p \in [kind : Kinds, pos : Nat, ctx : {p.ctx}, served : Nat,
                phase : {"idle", "cache", "build", "shown"}]
      /\ p.kind = kind /\ p.pos = 1 /\ p.ctx = NewContext /\ p.phase = first
  BY <1>3
<1> HIDE DEF p
<1>5. InOrder(p)
  BY <1>2, <1>3, <1>4 DEF InOrder, Request
<1>6. EntryInOrder'
  BY <1>1 DEF PInv, EntryInOrder
<1> QED BY <1>1, <1>5, <1>6, OneStep

LEMMA CacheHitStep == ASSUME NEW t \in Threads PROVE PInv /\ CacheHit(t) => PInv'
<1> SUFFICES ASSUME PInv, CacheHit(t) PROVE PInv'
  OBVIOUS
<1> DEFINE c == entry.context
           p == [page[t] EXCEPT !.phase = "shown", !.ctx = c, !.served = moment]
<1>1. page' = [page EXCEPT ![t] = p] /\ UNCHANGED <<moment, lots, beat, entry>>
  BY DEF CacheHit, tables
<1>2. /\ Request(page[t]) /\ Final(c) /\ entry.stored = c.finished /\ moment \in Nat
      /\ moment < c.finished + ANALYTICS_CACHE_SECONDS /\ c.finished \in Nat
  BY DEF CacheHit, Fresh, PInv, InOrder, EntryInOrder, Clocks, Final, Shaped
<1> HIDE DEF c
<1>3. /\ p \in [kind : Kinds, pos : Nat, ctx : {p.ctx}, served : Nat,
                phase : {"idle", "cache", "build", "shown"}]
      /\ p.ctx = c /\ p.phase = "shown" /\ p.served = moment
  BY <1>2 DEF Request
<1> HIDE DEF p
<1>4. p.served <= p.ctx.finished
          + (IF p.ctx.finished < p.served THEN ANALYTICS_CACHE_SECONDS ELSE 0)
  BY <1>2, <1>3
<1>5. InOrder(p)
  BY <1>2, <1>3, <1>4 DEF InOrder, Request, Final
<1>6. EntryInOrder'
  BY <1>1 DEF PInv, EntryInOrder
<1> QED BY <1>1, <1>5, <1>6, OneStep

LEMMA BuildStep ==
    ASSUME NEW t \in Threads
    PROVE  PInv /\ (CacheMiss(t) \/ CacheUnreadable(t)) => PInv'
<1> SUFFICES ASSUME PInv, CacheMiss(t) \/ CacheUnreadable(t) PROVE PInv'
  OBVIOUS
<1> DEFINE p == [page[t] EXCEPT !.phase = "build", !.ctx = NewContext]
<1>1. /\ page' = [page EXCEPT ![t] = p] /\ UNCHANGED <<moment, lots, beat>>
      /\ entry' \in {entry, NoEntry} /\ page[t].phase = "cache"
  BY DEF CacheMiss, CacheUnreadable, Build, tables
<1>2. /\ Request(page[t]) /\ page[t].pos = 1
      /\ Shaped(NewContext) /\ InWork(NewContext, page[t].kind, 1)
  BY <1>1, NewInOrder DEF PInv, InOrder, Request
<1>3. /\ p \in [kind : Kinds, pos : Nat, ctx : {p.ctx}, served : Nat,
                phase : {"idle", "cache", "build", "shown"}]
      /\ p.kind = page[t].kind /\ p.pos = 1 /\ p.ctx = NewContext /\ p.phase = "build"
  BY <1>2 DEF Request
<1> HIDE DEF p
<1>4. InOrder(p)
  BY <1>2, <1>3 DEF InOrder, Request
<1>5. EntryInOrder'
  BY <1>1 DEF PInv, EntryInOrder
<1> QED BY <1>1, <1>4, <1>5, OneStep

LEMMA FinishStep == ASSUME NEW t \in Threads PROVE PInv /\ Finish(t) => PInv'
<1> SUFFICES ASSUME PInv, Finish(t) PROVE PInv'
  OBVIOUS
<1> DEFINE c0 == page[t].ctx
           done == [c0 EXCEPT !.finished = moment]
           p == [page[t] EXCEPT !.phase = "shown", !.ctx = done, !.served = moment]
<1>1. /\ page' = [page EXCEPT ![t] = p] /\ UNCHANGED <<moment, lots, beat>>
      /\ \/ entry' = entry
         \/ page[t].kind = "analytics" /\ entry' = [context |-> done, stored |-> moment]
      /\ page[t].phase = "build" /\ page[t].pos > Len(Sections(page[t].kind))
  <2>1. page[t].phase = "build" /\ page[t].pos > Len(Sections(page[t].kind))
        /\ UNCHANGED <<moment, lots, beat>> /\ page' = [page EXCEPT ![t] = p]
    BY DEF Finish, tables
  <2>2. entry' = entry \/ (page[t].kind = "analytics" /\ entry' = [context |-> done, stored |-> moment])
    BY DEF Finish
  <2> QED BY <2>1, <2>2
<1>2. /\ Request(page[t]) /\ Shaped(c0) /\ InWork(c0, page[t].kind, page[t].pos)
      /\ moment \in Nat /\ page[t].kind \in Kinds /\ page[t].pos \in Nat
  BY <1>1 DEF PInv, InOrder, Request, Clocks
<1>3. page[t].kind \in WithLots => page[t].pos > LotsPlace(page[t].kind)
  BY <1>1, <1>2, LotsAt
<1>4. /\ Shaped(done) /\ done.begun = c0.begun /\ done.beat = c0.beat /\ done.stale = c0.stale
      /\ done.kept = c0.kept /\ done.errors = c0.errors /\ done.lots = c0.lots
      /\ done.rows = c0.rows /\ done.drift = c0.drift /\ done.moved = c0.moved
      /\ done.finished = moment
  BY <1>2 DEF Shaped
<1> HIDE DEF c0, done
<1>5. Alive(done) /\ (page[t].kind \in WithLots => Complete(done))
  BY <1>2, <1>3, <1>4 DEF InWork, Alive, Complete, Agrees
<1>6. /\ p \in [kind : Kinds, pos : Nat, ctx : {p.ctx}, served : Nat,
                phase : {"idle", "cache", "build", "shown"}]
      /\ p.kind = page[t].kind /\ p.ctx = done /\ p.phase = "shown" /\ p.served = moment
  BY <1>2 DEF Request
<1> HIDE DEF p
<1>7. InOrder(p)
  BY <1>2, <1>4, <1>5, <1>6 DEF InOrder, Request
<1>8. EntryInOrder'
  <2>1. CASE entry' = entry
    BY <2>1 DEF PInv, EntryInOrder
  <2>2. CASE page[t].kind = "analytics" /\ entry' = [context |-> done, stored |-> moment]
    BY <1>2, <1>4, <1>5, <2>2 DEF EntryInOrder, Final, WithLots
  <2> QED BY <1>1, <2>1, <2>2
<1> QED BY <1>1, <1>7, <1>8, OneStep

LEMMA RestartStep == PInv /\ Restart => PInv'
<1> SUFFICES ASSUME PInv, Restart PROVE PInv'
  OBVIOUS
<1>1. page' = [t \in Threads |-> Idle] /\ entry' = NoEntry /\ UNCHANGED <<moment, lots, beat>>
  BY DEF Restart, tables
<1>2. InOrder(Idle)
  BY NewInOrder DEF PInv
<1>3. Clocks'
  BY <1>1 DEF PInv, Clocks
<1>4. EntryInOrder'
  BY <1>1 DEF EntryInOrder
<1>5. ASSUME NEW t \in Threads PROVE InOrder(page[t])'
  <2>1. InOrder(page'[t])
    BY <1>1, <1>2
  <2> QED BY <1>1, <2>1 DEF InOrder, InWork
<1> QED BY <1>3, <1>4, <1>5 DEF PInv

LEMMA InitStep == PageInit => PInv
<1> SUFFICES ASSUME PageInit PROVE PInv
  OBVIOUS
<1>1. Clocks /\ EntryInOrder
  BY DEF PageInit, Clocks, EntryInOrder
<1>2. InOrder(Idle) /\ page = [t \in Threads |-> Idle]
  BY <1>1, NewInOrder DEF PageInit
<1> QED BY <1>1, <1>2 DEF PInv

\* A write of symbol s: what it may have moved between the two reads is noted.
LEMMA WriteStep ==
    ASSUME PInv, NEW s \in Symbols, NEW later, lots' = later,
           \A q : q # s => Alike2(q, lots, later),
           page' = Witnessed(s, DOMAIN later), UNCHANGED <<moment, beat, entry>>
    PROVE  PInv'
<1>1. Clocks'
  BY DEF PInv, Clocks, Witnessed
<1>2. EntryInOrder'
  BY DEF PInv, EntryInOrder
<1>3. ASSUME NEW t \in Threads PROVE InOrder(page[t])'
  <2>1. CASE page[t].phase # "build"
    <3>1. page'[t] = page[t] /\ InOrder(page[t])
      BY <2>1 DEF Witnessed, PInv
    <3> QED BY <2>1, <3>1 DEF InOrder
  <2>2. CASE page[t].phase = "build"
    <3> DEFINE c0 == page[t].ctx
               more == IF Between(t) THEN c0.moved \cup {s} ELSE c0.moved
               less == c0.kept \cap DOMAIN later
               c == [c0 EXCEPT !.moved = more, !.kept = less]
               p == [page[t] EXCEPT !.ctx = c]
    <3>1. page'[t] = p
      BY <2>2 DEF Witnessed
    <3>2. /\ Request(page[t]) /\ Shaped(c0) /\ InWork(c0, page[t].kind, page[t].pos)
          /\ page[t].kind \in Kinds /\ page[t].pos \in Nat /\ page[t].pos > 0
      BY <2>2 DEF PInv, InOrder, Request
    <3>3. page[t].kind \in WithLots /\ page[t].pos \in 2..LotsPlace(page[t].kind) => Between(t)
      <4> SUFFICES ASSUME page[t].kind \in WithLots, page[t].pos \in 2..LotsPlace(page[t].kind)
                   PROVE  Between(t)
        OBVIOUS
      <4>1. /\ Sections(page[t].kind)[1] = "portfolio" /\ 1 \in 1..page[t].pos - 1
            /\ Sections(page[t].kind)[LotsPlace(page[t].kind)] = "lots"
            /\ LotsPlace(page[t].kind) \in page[t].pos..Len(Sections(page[t].kind))
        BY <3>2, LotsAt
      <4> QED BY <2>2, <4>1 DEF Between
    <3>4. page[t].kind \in WithLots /\ page[t].pos > LotsPlace(page[t].kind) => ~Between(t)
      <4> SUFFICES ASSUME page[t].kind \in WithLots, page[t].pos > LotsPlace(page[t].kind),
                          NEW i \in page[t].pos..Len(Sections(page[t].kind)),
                          Sections(page[t].kind)[i] = "lots"
                   PROVE  FALSE
        BY DEF Between
      <4>1. i \in 1..Len(Sections(page[t].kind)) /\ LotsPlace(page[t].kind) \in {2, 4}
        BY <3>2, LotsAt
      <4>2. i = LotsPlace(page[t].kind)
        BY <3>2, <4>1, Places
      <4> QED BY <3>2, <4>1, <4>2
    <3>5. /\ more = c0.moved \/ more = c0.moved \cup {s}
          /\ Between(t) => s \in more
          /\ ~Between(t) => more = c0.moved
          /\ less \subseteq c0.kept /\ less \subseteq DOMAIN later
      OBVIOUS
    <3> HIDE DEF more, less
    <3>6. /\ Shaped(c) /\ c.begun = c0.begun /\ c.beat = c0.beat /\ c.stale = c0.stale
          /\ c.kept = less /\ c.errors = c0.errors /\ c.lots = c0.lots
          /\ c.rows = c0.rows /\ c.drift = c0.drift /\ c.moved = more
      BY <3>2 DEF Shaped
    <3> HIDE DEF c0, c
    <3>7. /\ p \in [kind : Kinds, pos : Nat, ctx : {p.ctx}, served : Nat,
                    phase : {"idle", "cache", "build", "shown"}]
          /\ p.kind = page[t].kind /\ p.pos = page[t].pos /\ p.ctx = c /\ p.phase = "build"
      BY <2>2, <3>2 DEF Request
    <3> HIDE DEF p
    <3>8. Agrees(c0, lots) /\ Between(t) => Agrees(c, later)
      BY <3>5, <3>6, WarnedAlike DEF Agrees
    <3>9. ~Between(t) /\ Complete(c0) => Complete(c)
      BY <3>5, <3>6 DEF Complete, Agrees
    <3>10. /\ p.ctx.begun <= moment' /\ Alive(p.ctx)
           /\ p.kind \in WithLots =>
                /\ p.ctx.kept \subseteq DOMAIN lots'
                /\ p.pos \in 2..LotsPlace(p.kind) /\ "portfolio" \notin p.ctx.errors
                     => Agrees(p.ctx, lots')
                /\ p.pos > LotsPlace(p.kind) => Complete(p.ctx)
      BY <3>2, <3>3, <3>4, <3>5, <3>6, <3>7, <3>8, <3>9 DEF InWork, Alive
    <3> QED BY <3>1, <3>2, <3>6, <3>7, <3>10 DEF InOrder, InWork, Request
  <2> QED BY <2>1, <2>2
<1> QED BY <1>1, <1>2, <1>3 DEF PInv

LEMMA TradesStep ==
    ASSUME NEW s \in Symbols
    PROVE  PInv /\ (Trade(s) \/ Outside(s)) => PInv'
<1> SUFFICES ASSUME PInv, Trade(s) \/ Outside(s) PROVE PInv'
  OBVIOUS
<1>1. CASE Trade(s)
  <2>1. PICK row \in Rows :
          lots' = [q \in (DOMAIN lots \ {s}) \cup {q \in {s} : row.quantity > 0} |->
                     IF q = s THEN row.quantity ELSE lots[q]]
    BY <1>1 DEF Trade
  <2> DEFINE later == [q \in (DOMAIN lots \ {s}) \cup {q \in {s} : row.quantity > 0} |->
                         IF q = s THEN row.quantity ELSE lots[q]]
  <2>2. \A q : q # s => Alike2(q, lots, later)
    BY DEF Alike2
  <2>3. lots' = later
    BY <2>1
  <2>4. page' = Witnessed(s, DOMAIN later) /\ UNCHANGED <<moment, beat, entry>>
    BY <1>1, <2>3 DEF Trade
  <2> HIDE DEF later
  <2> QED BY <2>2, <2>3, <2>4, WriteStep
<1>2. CASE Outside(s)
  <2>1. lots' = lots /\ page' = Witnessed(s, DOMAIN lots) /\ UNCHANGED <<moment, beat, entry>>
    BY <1>2 DEF Outside
  <2> QED BY <2>1, WriteStep DEF Alike2
<1> QED BY <1>1, <1>2

\* The clock, the beat of the bot and its decisions.
LEMMA TimeStep == PInv /\ (Decide \/ Beat \/ Pass) => PInv'
<1> SUFFICES ASSUME PInv, Decide \/ Beat \/ Pass PROVE PInv'
  OBVIOUS
<1>1. /\ UNCHANGED <<lots, page, entry>> /\ moment' \in Nat /\ beat' \in Nat /\ moment <= moment'
      /\ moment \in Nat
  BY DEF Decide, Beat, Pass, PInv, Clocks, tables
<1>2. Clocks' /\ EntryInOrder'
  BY <1>1 DEF PInv, Clocks, EntryInOrder
<1>3. ASSUME NEW t \in Threads PROVE InOrder(page[t])'
  <2>1. InOrder(page[t]) /\ page'[t] = page[t]
    BY <1>1 DEF PInv
  <2>2. page[t].ctx.begun \in Nat
    BY <2>1 DEF InOrder, Request, Shaped
  <2>3. InWork(page[t].ctx, page[t].kind, page[t].pos)
          => InWork(page[t].ctx, page[t].kind, page[t].pos)'
    BY <1>1, <2>1, <2>2 DEF InWork
  <2> QED BY <2>1, <2>3 DEF InOrder
<1> QED BY <1>2, <1>3 DEF PInv

LEMMA NextPInv == PInv /\ [PageNext]_pageVars => PInv'
<1> SUFFICES ASSUME PInv, [PageNext]_pageVars PROVE PInv'
  OBVIOUS
<1>1. CASE UNCHANGED pageVars
  BY <1>1 DEF PInv, Clocks, EntryInOrder, InOrder, InWork, pageVars, tables
<1>2. CASE PageNext
  BY <1>2, InitStep, TradesStep, TimeStep, RestartStep, AskStep, CacheHitStep, BuildStep,
     PortfolioStep, HealthStep, LotsStep, EventsStep, FailsStep, FinishStep DEF PageNext
<1> QED BY <1>1, <1>2
-----------------------------------------------------------------------------
\* The requests stay in order: every context in work is of its tables as they were read, and
\* the cache holds a whole one (dashboard/dashboard_read_model.py:191).
THEOREM PageInvariant == PageSpec => []PInv
BY InitStep, NextPInv, PTL DEF PageSpec

\* A page warns of the drifts there are (dashboard/dashboard_read_model.py:318).
THEOREM ReconciliationTrueHolds == PageSpec => []ReconciliationTrue
<1>1. PInv => ReconciliationTrue
  <2> SUFFICES ASSUME PInv, NEW t \in Threads, Shown(t, {"home", "analytics"}),
                      {"portfolio", "lots"} \cap page[t].ctx.errors = {}
               PROVE  LET ctx == page[t].ctx
                          warned == Reconciliation(ctx.rows, ctx.lots)
                      IN /\ warned \subseteq ctx.drift \cup ctx.moved
                         /\ ctx.drift \subseteq warned \cup ctx.moved
    BY DEF ReconciliationTrue
  <2>1. Complete(page[t].ctx)
    BY DEF PInv, InOrder, Shown, WithLots
  <2> QED BY <2>1 DEF Complete, Agrees
<1> QED BY <1>1, PageInvariant, PTL

\* A symbol with open lots is on the page, or a failure is
\* (dashboard/dashboard_read_model.py:318).
THEOREM NothingHiddenHolds == PageSpec => []NothingHidden
<1>1. PInv => NothingHidden
  <2> SUFFICES ASSUME PInv, NEW t \in Threads, Shown(t, {"home", "analytics", "exit"}),
                      page[t].ctx.errors = {}
               PROVE  LET ctx == page[t].ctx
                          status == ExitStatus(ctx.rows, ctx.lots, ctx.events, ctx.loaded,
                                               WantsEvents(page[t].kind))
                      IN /\ ctx.kept \subseteq DOMAIN status.label
                         /\ ctx.kept \cap ExcludedBalances(ctx.rows, ctx.lots) = {}
    BY DEF NothingHidden
  <2>1. page[t].ctx.kept \subseteq DOMAIN page[t].ctx.lots
    BY DEF PInv, InOrder, Shown, WithLots, Complete
  <2> QED BY <2>1 DEF ExitStatus, ExcludedBalances
<1> QED BY <1>1, PageInvariant, PTL

\* A bot shown as alive was heard lately, from the cache too
\* (dashboard/dashboard_read_model.py:628).
THEOREM HealthyIsRecentHolds == PageSpec => []HealthyIsRecent
<1>1. PInv => HealthyIsRecent
  <2> SUFFICES ASSUME PInv, NEW t \in Threads, Shown(t, {"home", "analytics"}),
                      page[t].ctx.beat # NoBeat, ~page[t].ctx.stale
               PROVE  LET ctx == page[t].ctx  IN
                      page[t].served - ctx.beat <= HEALTHCHECK_STALE_AFTER
                          + (IF ctx.finished < page[t].served THEN ANALYTICS_CACHE_SECONDS ELSE 0)
                          + (ctx.finished - ctx.begun)
    BY DEF HealthyIsRecent
  <2> DEFINE extra == IF page[t].ctx.finished < page[t].served THEN ANALYTICS_CACHE_SECONDS ELSE 0
  <2>1. /\ page[t].ctx.begun - page[t].ctx.beat <= HEALTHCHECK_STALE_AFTER
        /\ page[t].served <= page[t].ctx.finished + extra
    BY DEF PInv, InOrder, Shown, Alive
  <2>2. /\ page[t].ctx.begun \in Nat /\ page[t].ctx.finished \in Nat
        /\ page[t].ctx.beat \in Nat /\ page[t].served \in Nat /\ extra \in Nat
    BY DEF PInv, InOrder, Request, Shaped
  <2> HIDE DEF extra
  <2>3. page[t].served - page[t].ctx.beat <= HEALTHCHECK_STALE_AFTER + extra
            + (page[t].ctx.finished - page[t].ctx.begun)
    BY <2>1, <2>2
  <2> QED BY <2>3 DEF extra
<1> QED BY <1>1, PageInvariant, PTL
=============================================================================
