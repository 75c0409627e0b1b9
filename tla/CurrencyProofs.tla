-------------------------- MODULE CurrencyProofs --------------------------
(* The converter: a call of update_rates that answers leaves no rate stale, and *)
(* rates go back only where calls overlap; what a browser shows offline comes   *)
(* from the version in control. Proofs for any number of calls, any clock and   *)
(* staleness, any pages and versions, any order in which copies are stored.     *)
EXTENDS ExchangeRates, ServiceWorker, TLAPS

\* The place of a key in the loop, and the keys that one answer of a source is for.
PlaceOf(k) == IF k = "ARS_UVA" THEN 1 ELSE IF k = "USD_OFFICIAL" THEN 2 ELSE 3
Wanted(k) == IF k \in Dollars THEN Dollars ELSE {k}

\* A request is done with a key that its loop has passed, or of the answer in work that
\* is no longer to be saved.
DoneWith(r, k) ==
    \/ PlaceOf(k) < call[r].pos
    \/ call[r].phase = "save" /\ k \in Wanted(Keys[call[r].pos]) /\ k \notin call[r].todo

\* A request fetches and saves inside its loop, and answers after it.
PlacesOk ==
    \A r \in Requests :
        /\ call[r].phase \in {"fetch", "save"} => call[r].pos <= 3
        /\ call[r].phase = "answered" => call[r].pos > 3

\* Nothing is of the future.
NotOfTheFuture ==
    /\ \A k \in Key : rate[k].quote <= clock /\ rate[k].last_update <= clock
    /\ \A r \in Requests : call[r].now <= clock /\ call[r].quote <= clock

\* What others have not saved meanwhile is not newer than what the request may save.
NotNewer ==
    \A r \in Requests, k \in Key :
        call[r].phase # "idle" /\ k \notin overtaken[r] =>
            /\ rate[k].last_update <= call[r].now
            /\ call[r].phase = "save" => rate[k].quote <= call[r].quote

\* What others have not saved meanwhile is not stale once the request is done with it.
DoneIsFresh ==
    \A r \in Requests, k \in Key :
        /\ call[r].phase # "idle" /\ DoneWith(r, k) /\ Single(k) /\ k \notin overtaken[r]
        => ~Stale(k, call[r].now)

EInv == RatesTypeOK /\ PlacesOk /\ NotOfTheFuture /\ NotNewer /\ DoneIsFresh

USE RatesAssumption
-----------------------------------------------------------------------------
LEMMA KeyPlaces ==
    /\ \A i \in 1..3 : Keys[i] \in Key /\ PlaceOf(Keys[i]) = i
    /\ \A k \in Key : PlaceOf(k) \in 1..3 /\ Keys[PlaceOf(k)] = k /\ k \in Wanted(k)
BY DEF Keys, Key, Dollars, PlaceOf, Wanted

LEMMA NoCallType == NoCall \in Call /\ NoCall.phase = "idle" /\ NoCall.pos = 1
                    /\ NoCall.now = 0 /\ NoCall.quote = 0
BY DEF NoCall, Call, Time

\* How one request changes.
LEMMA CallUpdate ==
    ASSUME RatesTypeOK, NEW r \in Requests, NEW c \in Call, call' = [call EXCEPT ![r] = c]
    PROVE  /\ call' \in [Requests -> Call] /\ call'[r] = c
           /\ \A q \in Requests : q # r => call'[q] = call[q]
BY DEF RatesTypeOK

\* A call that may become that of r, the rows being as they are.
InPlace(r, c) ==
    /\ c \in Call /\ c.phase # "idle" /\ (c.phase \in {"fetch", "save"} => c.pos <= 3)
    /\ c.phase = "answered" => c.pos > 3
    /\ c.now <= clock /\ c.quote <= clock
    /\ \A k \in Key \ overtaken[r] :
         /\ rate[k].last_update <= c.now
         /\ c.phase = "save" => rate[k].quote <= c.quote
    /\ \A k \in Key \ overtaken[r] :
         /\ \/ PlaceOf(k) < c.pos
            \/ c.phase = "save" /\ k \in Wanted(Keys[c.pos]) /\ k \notin c.todo
         /\ Single(k)
         => ~Stale(k, c.now)

\* A step that changes the call of one request and at most the count of failures keeps
\* the invariant, if the new call is in place.
LEMMA OneCallStep ==
    ASSUME EInv, NEW r \in Requests, NEW c, InPlace(r, c), call' = [call EXCEPT ![r] = c],
           UNCHANGED <<clock, rate, aliased, overtaken>>, failures' \in 0..MaxFailures
    PROVE  EInv'
<1>1. /\ call' \in [Requests -> Call] /\ call'[r] = c
      /\ \A q \in Requests : q # r => call'[q] = call[q]
  BY CallUpdate DEF EInv, InPlace
<1>2. RatesTypeOK'
  BY <1>1 DEF EInv, RatesTypeOK
<1>3. PlacesOk'
  BY <1>1 DEF EInv, PlacesOk, InPlace
<1>4. NotOfTheFuture'
  BY <1>1 DEF EInv, NotOfTheFuture, InPlace
<1>5. NotNewer'
  <2> SUFFICES ASSUME NEW q \in Requests, NEW k \in Key,
                      (call[q].phase # "idle" /\ k \notin overtaken[q])'
               PROVE  (/\ rate[k].last_update <= call[q].now
                       /\ call[q].phase = "save" => rate[k].quote <= call[q].quote)'
    BY DEF NotNewer
  <2>1. CASE q = r
    BY <2>1, <1>1 DEF InPlace
  <2>2. CASE q # r
    BY <2>2, <1>1 DEF EInv, NotNewer
  <2> QED BY <2>1, <2>2
<1>6. DoneIsFresh'
  <2> SUFFICES ASSUME NEW q \in Requests, NEW k \in Key,
                      (call[q].phase # "idle" /\ DoneWith(q, k) /\ Single(k)
                       /\ k \notin overtaken[q])'
               PROVE  ~Stale(k, call[q].now)'
    BY DEF DoneIsFresh
  <2>1. CASE q = r
    BY <2>1, <1>1 DEF DoneWith, Single, Stale, InPlace
  <2>2. CASE q # r
    <3>1. call'[q] = call[q]
      BY <1>1, <2>2
    <3>2. ~Stale(k, call[q].now)
      BY <3>1 DEF EInv, DoneIsFresh, DoneWith, Single
    <3> QED BY <3>1, <3>2 DEF Stale
  <2> QED BY <2>1, <2>2
<1> QED BY <1>2, <1>3, <1>4, <1>5, <1>6 DEF EInv
-----------------------------------------------------------------------------
LEMMA InitEInv == RatesInit => EInv
<1> SUFFICES ASSUME RatesInit PROVE EInv
  OBVIOUS
<1>1. /\ clock = 0 /\ failures = 0 /\ aliased = {}
      /\ \A k \in Key : rate[k].quote = 0 /\ rate[k].last_update = 0
      /\ \A r \in Requests : call[r] = NoCall /\ overtaken[r] = {}
  BY DEF RatesInit
<1>2. RatesTypeOK
  <2>1. [quote |-> 0, last_update |-> 0] \in Row
    BY DEF Row, Time
  <2>2. rate \in [Key -> Row]
    BY <2>1 DEF RatesInit
  <2>3. call \in [Requests -> Call]
    BY NoCallType DEF RatesInit
  <2>4. overtaken \in [Requests -> SUBSET Key]
    BY DEF RatesInit
  <2> QED BY <1>1, <2>2, <2>3, <2>4 DEF RatesTypeOK, Time
<1>3. \A r \in Requests : call[r].phase = "idle" /\ call[r].pos = 1
                          /\ call[r].now = 0 /\ call[r].quote = 0
  BY <1>1, NoCallType
<1> QED BY <1>1, <1>2, <1>3 DEF EInv, PlacesOk, NotOfTheFuture, NotNewer, DoneIsFresh

LEMMA TickStep == EInv /\ Tick => EInv'
<1> SUFFICES ASSUME EInv, Tick PROVE EInv'
  OBVIOUS
<1>1. clock \in Nat /\ clock' = clock + 1 /\ clock' \in Time
      /\ UNCHANGED <<rate, aliased, call, failures, overtaken>>
  BY DEF Tick, EInv, RatesTypeOK, Time
<1>2. RatesTypeOK'
  BY <1>1 DEF EInv, RatesTypeOK
<1>3. NotOfTheFuture'
  <2>1. \A k \in Key : rate[k].quote \in Nat /\ rate[k].last_update \in Nat
    BY DEF EInv, RatesTypeOK, Row, Time
  <2>2. \A r \in Requests : call[r].now \in Nat /\ call[r].quote \in Nat
    BY DEF EInv, RatesTypeOK, Call, Time
  <2> QED BY <1>1, <2>1, <2>2 DEF EInv, NotOfTheFuture
<1> QED BY <1>1, <1>2, <1>3 DEF EInv, PlacesOk, NotNewer, DoneIsFresh, DoneWith, Single, Stale

LEMMA AliasStep == ASSUME NEW k \in Aliasable PROVE EInv /\ AddAlias(k) => EInv'
<1> SUFFICES ASSUME EInv, AddAlias(k) PROVE EInv'
  OBVIOUS
<1>1. k \in Key /\ aliased' = aliased \cup {k} /\ UNCHANGED <<clock, rate, call, failures, overtaken>>
  BY DEF AddAlias
<1>2. RatesTypeOK'
  BY <1>1 DEF EInv, RatesTypeOK
<1> QED BY <1>1, <1>2 DEF EInv, PlacesOk, NotOfTheFuture, NotNewer, DoneIsFresh, DoneWith, Single, Stale

\* What the invariant says of one request and of the rows, with types.
LEMMA Facts ==
    ASSUME EInv, NEW r \in Requests
    PROVE  /\ call[r] \in Call /\ call[r].now \in Nat /\ call[r].quote \in Nat /\ call[r].pos \in 1..4
           /\ call[r].now <= clock /\ call[r].quote <= clock /\ clock \in Time /\ clock \in Nat
           /\ failures \in 0..MaxFailures
           /\ \A k \in Key : /\ rate[k].quote \in Nat /\ rate[k].last_update \in Nat
                             /\ rate[k].quote <= clock /\ rate[k].last_update <= clock
BY DEF EInv, RatesTypeOK, NotOfTheFuture, Call, Row, Time

\* The same for a request in work, with the keys that the loop has passed.
LEMMA WorkFacts ==
    ASSUME EInv, NEW r \in Requests, call[r].phase # "idle"
    PROVE  /\ \A k \in Key \ overtaken[r] :
                /\ rate[k].last_update <= call[r].now
                /\ call[r].phase = "save" => rate[k].quote <= call[r].quote
           /\ \A k \in Key \ overtaken[r] :
                DoneWith(r, k) /\ Single(k) => ~Stale(k, call[r].now)
           /\ call[r].phase \in {"fetch", "save"} => call[r].pos \in 1..3
BY DEF EInv, RatesTypeOK, NotNewer, DoneIsFresh, PlacesOk, Call

LEMMA BeginStep == ASSUME NEW r \in Requests PROVE EInv /\ Begin(r) => EInv'
<1> SUFFICES ASSUME EInv, Begin(r) PROVE EInv'
  OBVIOUS
<1> DEFINE c == [NoCall EXCEPT !.phase = "look", !.now = clock]
<1>1. /\ c \in Call /\ c.phase = "look" /\ c.now = clock /\ c.pos = 1 /\ c.quote = 0
  BY NoCallType, Facts DEF Call, Time
<1>2. /\ call' = [call EXCEPT ![r] = c] /\ UNCHANGED <<clock, rate, aliased, failures, overtaken>>
      /\ failures' \in 0..MaxFailures
  BY Facts DEF Begin
<1> HIDE DEF c
<1>3. InPlace(r, c)
  <2>1. \A k \in Key : ~(PlaceOf(k) < 1)
    BY KeyPlaces
  <2>2. clock \in Nat /\ \A k \in Key : rate[k].last_update <= clock
    BY Facts
  <2> QED BY <1>1, <2>1, <2>2 DEF InPlace
<1> QED BY <1>2, <1>3, OneCallStep

LEMMA LookStep == ASSUME NEW r \in Requests PROVE EInv /\ Look(r) => EInv'
<1> SUFFICES ASSUME EInv, Look(r) PROVE EInv'
  OBVIOUS
<1> DEFINE k0 == Keys[call[r].pos]
           fetching == [call[r] EXCEPT !.phase = "fetch"]
           next == [call[r] EXCEPT !.pos = @ + 1]
<1>1. /\ call[r].phase = "look" /\ call[r].pos \in 1..3 /\ call[r] \in Call
      /\ call[r].now <= clock /\ call[r].quote <= clock
  BY Facts DEF Look
<1>2. k0 \in Key /\ PlaceOf(k0) = call[r].pos
  BY <1>1, KeyPlaces
<1>3. /\ call' = [call EXCEPT ![r] = IF Single(k0) /\ Stale(k0, call[r].now) THEN fetching ELSE next]
      /\ UNCHANGED <<clock, rate, aliased, failures, overtaken>> /\ failures' \in 0..MaxFailures
  BY Facts DEF Look, EInv, RatesTypeOK
<1>4. fetching \in Call /\ fetching.phase = "fetch" /\ fetching.now = call[r].now
      /\ fetching.pos = call[r].pos /\ fetching.quote = call[r].quote
  BY <1>1 DEF Call
<1>5. next \in Call /\ next.phase = "look" /\ next.now = call[r].now
      /\ next.pos = call[r].pos + 1 /\ next.quote = call[r].quote
  BY <1>1 DEF Call
<1>6. /\ \A k \in Key \ overtaken[r] : rate[k].last_update <= call[r].now
      /\ \A k \in Key \ overtaken[r] :
            PlaceOf(k) < call[r].pos /\ Single(k) => ~Stale(k, call[r].now)
  BY <1>1, WorkFacts DEF DoneWith
<1> HIDE DEF k0, fetching, next
<1>7. InPlace(r, fetching)
  BY <1>1, <1>4, <1>6 DEF InPlace
<1>8. CASE Single(k0) /\ Stale(k0, call[r].now)
  BY <1>3, <1>7, <1>8, OneCallStep
<1>9. CASE ~(Single(k0) /\ Stale(k0, call[r].now))
  <2>1. ASSUME NEW k \in Key \ overtaken[r], PlaceOf(k) < next.pos, Single(k)
        PROVE  ~Stale(k, next.now)
    <3>1. PlaceOf(k) < call[r].pos \/ k = k0
      BY <1>1, <1>5, <2>1, KeyPlaces DEF k0
    <3> QED BY <3>1, <2>1, <1>5, <1>6, <1>9
  <2>2. InPlace(r, next)
    BY <1>1, <1>5, <1>6, <2>1 DEF InPlace
  <2> QED BY <1>3, <1>9, <2>2, OneCallStep
<1> QED BY <1>8, <1>9

\* The steps that only change the phase of a request, to one outside "save".
LEMMA PhaseStep ==
    ASSUME EInv, NEW r \in Requests, NEW p \in {"answered", "failed"},
           call[r].phase # "idle", p = "answered" => call[r].pos > 3,
           call' = [call EXCEPT ![r].phase = p],
           UNCHANGED <<clock, rate, aliased, overtaken>>, failures' \in 0..MaxFailures
    PROVE  EInv'
<1> DEFINE c == [call[r] EXCEPT !.phase = p]
<1>1. /\ c \in Call /\ c.phase = p /\ c.now = call[r].now /\ c.pos = call[r].pos
      /\ c.quote = call[r].quote
  BY Facts DEF Call
<1>2. call' = [call EXCEPT ![r] = c]
  BY DEF EInv, RatesTypeOK
<1> HIDE DEF c
<1>3. InPlace(r, c)
  <2>1. call[r].now <= clock /\ call[r].quote <= clock
    BY Facts
  <2>2. \A k \in Key \ overtaken[r] :
           /\ rate[k].last_update <= call[r].now
           /\ PlaceOf(k) < call[r].pos /\ Single(k) => ~Stale(k, call[r].now)
    BY WorkFacts DEF DoneWith
  <2> QED BY <1>1, <2>1, <2>2 DEF InPlace
<1> QED BY <1>2, <1>3, OneCallStep

LEMMA AnswerStep == ASSUME NEW r \in Requests PROVE EInv /\ Answer(r) => EInv'
BY PhaseStep, Facts DEF Answer

LEMMA FetchFailsStep == ASSUME NEW r \in Requests PROVE EInv /\ FetchFails(r) => EInv'
<1> SUFFICES ASSUME EInv, FetchFails(r) PROVE EInv'
  OBVIOUS
<1>1. failures' \in 0..MaxFailures
  BY Facts DEF FetchFails
<1> QED BY <1>1, PhaseStep DEF FetchFails

LEMMA FetchStep == ASSUME NEW r \in Requests PROVE EInv /\ Fetch(r) => EInv'
<1> SUFFICES ASSUME EInv, Fetch(r) PROVE EInv'
  OBVIOUS
<1> DEFINE k0 == Keys[call[r].pos]
<1>1. /\ call[r].phase = "fetch" /\ call[r].pos \in 1..3 /\ call[r] \in Call
      /\ call[r].now <= clock /\ clock \in Time
  BY Facts, WorkFacts DEF Fetch
<1>2. PICK houses \in IF k0 \in Dollars THEN SUBSET Dollars ELSE {{k0}} :
         /\ failures' = IF houses = Wanted(k0) THEN failures ELSE failures + 1
         /\ failures' <= MaxFailures
         /\ call' = [call EXCEPT ![r] = [@ EXCEPT !.phase = "save", !.houses = houses,
                                                  !.todo = Wanted(k0), !.quote = clock]]
  BY DEF Fetch, Wanted
<1> DEFINE c == [call[r] EXCEPT !.phase = "save", !.houses = houses, !.todo = Wanted(k0), !.quote = clock]
<1>3. k0 \in Key /\ houses \in SUBSET Key /\ Wanted(k0) \in SUBSET Key
  BY <1>1, KeyPlaces DEF Wanted, Key
<1>4. call' = [call EXCEPT ![r] = c]
  BY <1>2 DEF EInv, RatesTypeOK
<1>5. UNCHANGED <<clock, rate, aliased, overtaken>> /\ failures' \in 0..MaxFailures
  <2>1. failures \in 0..MaxFailures
    BY Facts
  <2> QED BY <1>2, <2>1 DEF Fetch
<1>6. c \in Call /\ c.phase = "save" /\ c.now = call[r].now /\ c.pos = call[r].pos
      /\ c.quote = clock /\ c.todo = Wanted(k0)
  BY <1>1, <1>3 DEF Call
<1>7. Keys[c.pos] = k0
  BY <1>6
<1> HIDE DEF c, k0
<1>8. InPlace(r, c)
  <2>1. clock <= clock /\ \A k \in Key : rate[k].quote <= clock
    BY Facts
  <2>2. \A k \in Key \ overtaken[r] :
           /\ rate[k].last_update <= call[r].now
           /\ PlaceOf(k) < call[r].pos /\ Single(k) => ~Stale(k, call[r].now)
    BY <1>1, WorkFacts DEF DoneWith
  <2> QED BY <1>1, <1>6, <1>7, <2>1, <2>2 DEF InPlace
<1> QED BY <1>4, <1>5, <1>8, OneCallStep

\* What a request in work may save is now fresh and so is what it is done with.
LEMMA SavedStep == ASSUME NEW r \in Requests PROVE EInv /\ Saved(r) => EInv'
<1> SUFFICES ASSUME EInv, Saved(r) PROVE EInv'
  OBVIOUS
<1> DEFINE k0 == Keys[call[r].pos]
           c == [call[r] EXCEPT !.phase = "look", !.pos = call[r].pos + 1]
<1>1. /\ call[r].phase = "save" /\ call[r].pos \in 1..3 /\ call[r] \in Call
      /\ call[r].now <= clock /\ call[r].quote <= clock /\ call[r].todo = {}
  BY Facts, WorkFacts DEF Saved
<1>2. /\ call' = [call EXCEPT ![r] = c] /\ UNCHANGED <<clock, rate, aliased, failures, overtaken>>
      /\ failures' \in 0..MaxFailures
  BY Facts DEF Saved
<1>3. /\ c \in Call /\ c.phase = "look" /\ c.pos = call[r].pos + 1 /\ c.now = call[r].now
      /\ c.quote = call[r].quote
  <2>1. "look" \in {"idle", "look", "fetch", "save", "answered", "failed"}
        /\ call[r].pos + 1 \in 1..4
    BY <1>1
  <2>2. /\ c.phase = "look" /\ c.pos = call[r].pos + 1 /\ c.now = call[r].now
        /\ c.quote = call[r].quote
    BY <1>1 DEF Call
  <2>3. c \in Call
    BY <1>1, <2>1 DEF Call
  <2> QED BY <2>2, <2>3
<1>4. k0 \in Key /\ PlaceOf(k0) = call[r].pos /\ k0 \in Wanted(k0)
  BY <1>1, KeyPlaces
<1>5. /\ \A k \in Key \ overtaken[r] : rate[k].last_update <= call[r].now
      /\ \A k \in Key \ overtaken[r] :
            (PlaceOf(k) < call[r].pos \/ k = k0) /\ Single(k) => ~Stale(k, call[r].now)
  BY <1>1, <1>4, WorkFacts DEF DoneWith
<1>6. \A k \in Key : PlaceOf(k) < call[r].pos + 1 => PlaceOf(k) < call[r].pos \/ k = k0
  BY <1>1, KeyPlaces
<1> HIDE DEF k0, c
<1>7. InPlace(r, c)
  BY <1>1, <1>3, <1>5, <1>6 DEF InPlace
<1> QED BY <1>2, <1>7, OneCallStep

LEMMA SkipOrRaiseStep ==
    ASSUME NEW r \in Requests, NEW k0 \in Key PROVE EInv /\ SkipOrRaise(r, k0) => EInv'
<1> SUFFICES ASSUME EInv, SkipOrRaise(r, k0) PROVE EInv'
  OBVIOUS
<1>1. /\ call[r].phase = "save" /\ call[r].pos \in 1..3 /\ call[r] \in Call
      /\ call[r].now <= clock /\ call[r].quote <= clock
      /\ UNCHANGED <<clock, rate, aliased, failures, overtaken>> /\ failures' \in 0..MaxFailures
  BY Facts, WorkFacts DEF SkipOrRaise
<1>2. CASE Found(k0)
  <2>1. call' = [call EXCEPT ![r].phase = "failed"]
    BY <1>2 DEF SkipOrRaise
  <2> QED BY <1>1, <2>1, PhaseStep
<1>3. CASE ~Found(k0)
  <2> DEFINE c == [call[r] EXCEPT !.todo = call[r].todo \ {k0}]
  <2>1. call' = [call EXCEPT ![r] = c]
    BY <1>3 DEF SkipOrRaise
  <2>2. /\ c \in Call /\ c.phase = "save" /\ c.pos = call[r].pos /\ c.now = call[r].now
        /\ c.quote = call[r].quote /\ c.todo = call[r].todo \ {k0}
    BY <1>1 DEF Call
  <2> HIDE DEF c
  <2>3. ~Single(k0)
    BY <1>3 DEF Found
  <2>4. /\ \A k \in Key \ overtaken[r] :
              rate[k].last_update <= call[r].now /\ rate[k].quote <= call[r].quote
        /\ \A k \in Key \ overtaken[r] :
              /\ \/ PlaceOf(k) < call[r].pos
                 \/ k \in Wanted(Keys[call[r].pos]) /\ k \notin call[r].todo
              /\ Single(k)
              => ~Stale(k, call[r].now)
    BY <1>1, WorkFacts DEF DoneWith
  <2>5. InPlace(r, c)
    BY <1>1, <2>2, <2>3, <2>4 DEF InPlace
  <2> QED BY <1>1, <2>1, <2>5, OneCallStep
<1> QED BY <1>2, <1>3

\* A saved row is as fresh as the request, and the others know that it was saved.
LEMMA SaveStep ==
    ASSUME NEW r \in Requests, NEW k0 \in Key PROVE EInv /\ Save(r, k0) => EInv'
<1> SUFFICES ASSUME EInv, Save(r, k0) PROVE EInv'
  OBVIOUS
<1> DEFINE c == [call[r] EXCEPT !.todo = call[r].todo \ {k0}]
           row == [quote |-> call[r].quote, last_update |-> call[r].now]
<1>1. /\ call[r].phase = "save" /\ call[r].pos \in 1..3 /\ call[r] \in Call
      /\ call[r].now <= clock /\ call[r].quote <= clock
      /\ call[r].now \in Nat /\ call[r].quote \in Nat /\ k0 \in call[r].todo
  BY Facts, WorkFacts DEF Save
<1>2. UNCHANGED <<clock, aliased, failures>>
  BY DEF Save
<1>3. /\ c \in Call /\ c.phase = "save" /\ c.pos = call[r].pos /\ c.now = call[r].now
      /\ c.quote = call[r].quote /\ c.todo = call[r].todo \ {k0}
  BY <1>1 DEF Call
<1>4. row \in Row /\ row.quote = call[r].quote /\ row.last_update = call[r].now
  BY <1>1 DEF Row, Call
<1>5. call' = [call EXCEPT ![r] = c] /\ rate' = [rate EXCEPT ![k0] = row]
  BY DEF Save
<1> HIDE DEF c, row
<1>6. /\ call' \in [Requests -> Call] /\ call'[r] = c
      /\ \A q \in Requests : q # r => call'[q] = call[q]
  BY <1>3, <1>5, CallUpdate DEF EInv
<1>7. /\ rate' \in [Key -> Row] /\ rate'[k0] = row
      /\ \A k \in Key : k # k0 => rate'[k] = rate[k]
  BY <1>4, <1>5 DEF EInv, RatesTypeOK
<1>8. /\ overtaken' \in [Requests -> SUBSET Key] /\ overtaken'[r] = overtaken[r]
      /\ \A q \in Requests : q # r /\ call[q].phase # "idle"
                                => overtaken'[q] = overtaken[q] \cup {k0}
  BY DEF Save, EInv, RatesTypeOK
<1>9. RatesTypeOK'
  BY <1>2, <1>6, <1>7, <1>8 DEF EInv, RatesTypeOK
<1>10. PlacesOk'
  BY <1>1, <1>3, <1>6 DEF EInv, PlacesOk
<1>11. NotOfTheFuture'
  BY <1>1, <1>2, <1>3, <1>4, <1>6, <1>7 DEF EInv, NotOfTheFuture
<1>12. NotNewer'
  <2> SUFFICES ASSUME NEW q \in Requests, NEW k \in Key,
                      (call[q].phase # "idle" /\ k \notin overtaken[q])'
               PROVE  (/\ rate[k].last_update <= call[q].now
                       /\ call[q].phase = "save" => rate[k].quote <= call[q].quote)'
    BY DEF NotNewer
  <2>1. CASE q = r
    BY <2>1, <1>1, <1>3, <1>4, <1>6, <1>7, <1>8, WorkFacts
  <2>2. CASE q # r
    <3>1. call'[q] = call[q] /\ k # k0 /\ k \notin overtaken[q] /\ rate'[k] = rate[k]
      BY <2>2, <1>6, <1>7, <1>8
    <3> QED BY <3>1 DEF EInv, NotNewer
  <2> QED BY <2>1, <2>2
<1>13. DoneIsFresh'
  <2> SUFFICES ASSUME NEW q \in Requests, NEW k \in Key,
                      (call[q].phase # "idle" /\ DoneWith(q, k) /\ Single(k)
                       /\ k \notin overtaken[q])'
               PROVE  ~Stale(k, call[q].now)'
    BY DEF DoneIsFresh
  <2>1. CASE q # r
    <3>1. call'[q] = call[q] /\ k # k0 /\ k \notin overtaken[q] /\ rate'[k] = rate[k]
      BY <2>1, <1>6, <1>7, <1>8
    <3>2. ~Stale(k, call[q].now)
      BY <3>1, <1>2 DEF EInv, DoneIsFresh, DoneWith, Single
    <3> QED BY <3>1, <3>2 DEF Stale
  <2>2. CASE q = r /\ k = k0
    <3>1. rate'[k].last_update = call'[q].now /\ call'[q].now \in Nat
      BY <2>2, <1>1, <1>3, <1>4, <1>6, <1>7
    <3> QED BY <3>1 DEF Stale
  <2>3. CASE q = r /\ k # k0
    <3>1. call[r].phase # "idle" /\ DoneWith(r, k) /\ Single(k) /\ k \notin overtaken[r]
      BY <2>3, <1>1, <1>2, <1>3, <1>6, <1>8 DEF DoneWith, Single
    <3>2. ~Stale(k, call[r].now) /\ rate'[k] = rate[k] /\ call'[q].now = call[r].now
      BY <2>3, <3>1, <1>3, <1>6, <1>7 DEF EInv, DoneIsFresh
    <3> QED BY <3>2 DEF Stale
  <2> QED BY <2>1, <2>2, <2>3
<1> QED BY <1>9, <1>10, <1>11, <1>12, <1>13 DEF EInv

LEMMA NextEInv == EInv /\ [RatesNext]_ratesVars => EInv'
<1> SUFFICES ASSUME EInv, [RatesNext]_ratesVars PROVE EInv'
  OBVIOUS
<1>1. CASE Tick
  BY <1>1, TickStep
<1>2. ASSUME NEW k \in Aliasable, AddAlias(k) PROVE EInv'
  BY <1>2, AliasStep
<1>3. ASSUME NEW r \in Requests,
             Begin(r) \/ Look(r) \/ Answer(r) \/ Fetch(r) \/ FetchFails(r) \/ Saved(r)
      PROVE  EInv'
  BY <1>3, BeginStep, LookStep, AnswerStep, FetchStep, FetchFailsStep, SavedStep
<1>4. ASSUME NEW r \in Requests, NEW k \in Key, Save(r, k) \/ SkipOrRaise(r, k) PROVE EInv'
  BY <1>4, SaveStep, SkipOrRaiseStep
<1>5. CASE UNCHANGED ratesVars
  BY <1>5 DEF ratesVars, EInv, RatesTypeOK, PlacesOk, NotOfTheFuture, NotNewer, DoneIsFresh,
              DoneWith, Single, Stale
<1> QED BY <1>1, <1>2, <1>3, <1>4, <1>5 DEF RatesNext
-----------------------------------------------------------------------------
\* The variables keep their types, and with them what the proofs below rest on: nothing
\* is of the future, what a request has passed is fresh (update_rates).
THEOREM RatesInvariant == RatesSpec => []EInv
<1> QED BY InitEInv, NextEInv, PTL DEF RatesSpec

\* However many requests overlap and however sources fail, a request that answers leaves
\* no rate stale that only it looked after (currencyconverter/views.py:269).
THEOREM FreshAfterAnswerHolds == RatesSpec => []FreshAfterAnswer
<1>1. EInv => FreshAfterAnswer
  <2> SUFFICES ASSUME EInv, NEW r \in Requests, NEW k \in Key,
                      call[r].phase = "answered", Single(k), k \notin overtaken[r]
               PROVE  ~Stale(k, call[r].now)
    BY DEF FreshAfterAnswer
  <2>1. call[r].pos > 3 /\ call[r].pos \in 1..4
    BY Facts DEF EInv, PlacesOk
  <2>2. DoneWith(r, k)
    BY <2>1, KeyPlaces DEF DoneWith
  <2> QED BY <2>2 DEF EInv, DoneIsFresh
<1> QED BY <1>1, RatesInvariant, PTL

\* A rate goes back in time only where the request that saves it overlapped the one that
\* had saved the newer (currencyconverter/views.py:241 and 286).
THEOREM BackOnlyByOverlapHolds == RatesSpec => BackOnlyByOverlap
<1> DEFINE Back(k) == rate'[k].quote < rate[k].quote \/ rate'[k].last_update < rate[k].last_update
           By(k) == \E r \in Requests : call'[r] # call[r] /\ k \in overtaken[r]
<1>1. ASSUME EInv, [RatesNext]_ratesVars, NEW k \in Key, Back(k) PROVE By(k)
  <2>1. rate[k].quote \in Nat /\ rate[k].last_update \in Nat
    BY <1>1 DEF EInv, RatesTypeOK, Row, Time
  <2>2. rate' # rate
    BY <1>1, <2>1
  <2>3. PICK r \in Requests, k0 \in Key : Save(r, k0)
    BY <1>1, <2>2 DEF RatesNext, ratesVars, Tick, AddAlias, Begin, Look, Answer, Fetch,
                      FetchFails, Saved, SkipOrRaise
  <2>4. rate'[k0].quote = call[r].quote /\ rate'[k0].last_update = call[r].now
        /\ (k # k0 => rate'[k] = rate[k])
    BY <2>3, <1>1 DEF Save, EInv, RatesTypeOK
  <2>5. k = k0
    BY <1>1, <2>1, <2>4
  <2>6. k \in overtaken[r]
    <3>1. call[r].phase = "save" /\ call[r].now \in Nat /\ call[r].quote \in Nat
      BY <2>3, <1>1, Facts DEF Save
    <3> QED BY <1>1, <2>1, <2>4, <2>5, <3>1 DEF EInv, NotNewer
  <2>7. call'[r] # call[r]
    BY <2>3, <1>1 DEF Save, EInv, RatesTypeOK, Call
  <2> QED BY <2>6, <2>7
<1>2. EInv /\ [RatesNext]_ratesVars => [\A k \in Key : Back(k) => By(k)]_ratesVars
  BY <1>1
<1> QED BY <1>2, RatesInvariant, PTL DEF RatesSpec, BackOnlyByOverlap
-----------------------------------------------------------------------------
-----------------------------------------------------------------------------
\* Of each version there is one cache; that of the version in control is the first, and
\* that of the version being installed is there.
OneOfEach ==
    \A i \in 1..Len(caches), j \in 1..Len(caches) : caches[i].name = caches[j].name => i = j
ActiveFirst == active # 0 => Len(caches) >= 1 /\ caches[1].name = active
InstallingOpen == installing # 0 => \E i \in 1..Len(caches) : caches[i].name = installing

WInv == WorkerTypeOK /\ OneOfEach /\ ActiveFirst /\ InstallingOpen

USE WorkerAssumption
-----------------------------------------------------------------------------
\* Good is what the invariant says of the caches; it is kept by the two operations on them.
Good(cs) ==
    /\ cs \in Seq(Cache)
    /\ \A i \in 1..Len(cs), j \in 1..Len(cs) : cs[i].name = cs[j].name => i = j

\* cs is ds with caches added behind, and with other pages.
Extends(cs, ds) == Len(ds) <= Len(cs) /\ \A i \in 1..Len(ds) : cs[i].name = ds[i].name

LEMMA OpenedGood ==
    ASSUME NEW cs, Good(cs), NEW v \in Version
    PROVE  /\ Good(Opened(cs, v)) /\ Extends(Opened(cs, v), cs)
           /\ \E i \in 1..Len(Opened(cs, v)) : Opened(cs, v)[i].name = v
<1>1. CASE \E i \in 1..Len(cs) : cs[i].name = v
  BY <1>1 DEF Opened, Good, Extends
<1>2. CASE ~\E i \in 1..Len(cs) : cs[i].name = v
  <2> DEFINE new == [name |-> v, pages |-> [p \in Pages |-> 0]]
             ds == Append(cs, new)
  <2>1. new \in Cache /\ new.name = v
    BY DEF Cache
  <2>2. Opened(cs, v) = ds
    BY <1>2 DEF Opened
  <2> HIDE DEF new
  <2>3. /\ ds \in Seq(Cache) /\ Len(ds) = Len(cs) + 1 /\ Len(cs) \in Nat
        /\ ds[Len(cs) + 1] = new /\ \A i \in 1..Len(cs) : ds[i] = cs[i]
    BY <2>1 DEF Good
  <2> HIDE DEF ds
  <2>4. Good(ds)
    <3> SUFFICES ASSUME NEW i \in 1..Len(ds), NEW j \in 1..Len(ds), ds[i].name = ds[j].name
                 PROVE  i = j
      BY <2>3 DEF Good
    <3>1. CASE i \in 1..Len(cs) /\ j \in 1..Len(cs)
      BY <3>1, <2>3 DEF Good
    <3>2. CASE i \in 1..Len(cs) /\ j = Len(cs) + 1
      BY <3>2, <2>1, <2>3, <1>2
    <3>3. CASE i = Len(cs) + 1 /\ j \in 1..Len(cs)
      BY <3>3, <2>1, <2>3, <1>2
    <3> QED BY <3>1, <3>2, <3>3, <2>3
  <2> QED BY <2>1, <2>2, <2>3, <2>4 DEF Extends
<1> QED BY <1>1, <1>2

LEMMA PutGood ==
    ASSUME NEW cs, Good(cs), NEW v \in Version, NEW p \in Pages, NEW c \in Content
    PROVE  Good(Put(cs, v, p, c)) /\ Extends(Put(cs, v, p, c), cs)
<1> DEFINE os == Opened(cs, v)
           At(i) == IF os[i].name = v THEN [os[i] EXCEPT !.pages[p] = c] ELSE os[i]
           ps == [i \in 1..Len(os) |-> At(i)]
<1>1. Good(os) /\ Extends(os, cs)
  BY OpenedGood
<1>2. Put(cs, v, p, c) = ps
  BY DEF Put
<1> HIDE DEF os
<1>3. \A i \in 1..Len(os) : At(i) \in Cache /\ At(i).name = os[i].name
  <2> SUFFICES ASSUME NEW i \in 1..Len(os) PROVE At(i) \in Cache /\ At(i).name = os[i].name
    OBVIOUS
  <2>1. os[i] \in Cache
    BY <1>1 DEF Good
  <2>2. [os[i] EXCEPT !.pages[p] = c] \in Cache
    <3>1. c \in 0..MaxContent
      BY DEF Content
    <3> QED BY <2>1, <3>1 DEF Cache
  <2>3. [os[i] EXCEPT !.pages[p] = c].name = os[i].name
    BY <2>1 DEF Cache
  <2> QED BY <2>1, <2>2, <2>3
<1> HIDE DEF At
<1>4. ps \in Seq(Cache) /\ Len(ps) = Len(os)
  BY <1>1, <1>3 DEF Good
<1>5. \A i \in 1..Len(os) : ps[i].name = os[i].name
  BY <1>3
<1> HIDE DEF ps
<1>6. Good(ps) /\ Extends(ps, cs)
  BY <1>1, <1>4, <1>5 DEF Good, Extends
<1> QED BY <1>2, <1>6

\* A step that leaves the versions alone and extends the caches keeps the invariant.
LEMMA ExtendingStep ==
    ASSUME WInv, Good(caches'), Extends(caches', caches), UNCHANGED <<active, installing>>,
           deployed' \in Version, content' \in Content, left' \in SUBSET PUBLIC_PAGES,
           pending' \in SUBSET Copy
    PROVE  WInv'
<1>1. WorkerTypeOK' /\ OneOfEach'
  BY DEF WInv, WorkerTypeOK, Good, OneOfEach
<1>2. Len(caches) \in Nat /\ Len(caches') \in Nat
  BY DEF WInv, WorkerTypeOK, Good
<1>3. ActiveFirst'
  BY <1>2 DEF WInv, ActiveFirst, Extends
<1>4. InstallingOpen'
  BY <1>2 DEF WInv, InstallingOpen, Extends
<1> QED BY <1>1, <1>3, <1>4 DEF WInv

LEMMA CachesGood == WInv => Good(caches) /\ Extends(caches, caches)
BY DEF WInv, WorkerTypeOK, OneOfEach, Good, Extends

LEMMA InitWInv == WorkerInit => WInv
BY DEF WorkerInit, WInv, WorkerTypeOK, OneOfEach, ActiveFirst, InstallingOpen, Version, Content

LEMMA InstallStep == WInv /\ Install => WInv'
<1> SUFFICES ASSUME WInv, Install PROVE WInv'
  OBVIOUS
<1>1. deployed \in Version /\ caches' = Opened(caches, deployed) /\ installing' = deployed
  BY DEF Install, WInv, WorkerTypeOK
<1>2. /\ Good(caches') /\ Extends(caches', caches)
      /\ \E i \in 1..Len(caches') : caches'[i].name = deployed
  BY <1>1, CachesGood, OpenedGood
<1>3. WorkerTypeOK' /\ OneOfEach' /\ InstallingOpen'
  BY <1>1, <1>2 DEF Install, WInv, WorkerTypeOK, Good, OneOfEach, InstallingOpen, Version
<1>4. Len(caches) \in Nat /\ Len(caches') \in Nat
  BY <1>2 DEF WInv, WorkerTypeOK, Good
<1>5. ActiveFirst'
  BY <1>2, <1>4 DEF Install, WInv, ActiveFirst, Extends
<1> QED BY <1>3, <1>5 DEF WInv

LEMMA PrecacheStep == ASSUME NEW p \in Pages PROVE WInv /\ Precache(p) => WInv'
<1> SUFFICES ASSUME WInv, Precache(p) PROVE WInv'
  OBVIOUS
<1>1. /\ installing \in Version /\ content \in Content /\ deployed \in Version
      /\ left' \in SUBSET PUBLIC_PAGES /\ pending \in SUBSET Copy
  BY DEF Precache, WInv, WorkerTypeOK, Version
<1>2. Good(caches') /\ Extends(caches', caches)
  BY <1>1, CachesGood, PutGood DEF Precache
<1> QED BY <1>1, <1>2, ExtendingStep DEF Precache

LEMMA StoreStep == ASSUME NEW x \in pending PROVE WInv /\ Store(x) => WInv'
<1> SUFFICES ASSUME WInv, Store(x) PROVE WInv'
  OBVIOUS
<1>1. /\ x.cache \in Version /\ x.page \in Pages /\ x.content \in Content
      /\ content \in Content /\ deployed \in Version /\ left \in SUBSET PUBLIC_PAGES
      /\ pending' \in SUBSET Copy
  BY DEF Store, WInv, WorkerTypeOK, Copy
<1>2. Good(caches') /\ Extends(caches', caches)
  BY <1>1, CachesGood, PutGood DEF Store
<1> QED BY <1>1, <1>2, ExtendingStep DEF Store

LEMMA FetchPageStep == ASSUME NEW p \in Pages PROVE WInv /\ FetchPage(p) => WInv'
<1> SUFFICES ASSUME WInv, FetchPage(p) PROVE WInv'
  OBVIOUS
<1>1. active \in Version /\ content \in Content
  BY DEF FetchPage, WInv, WorkerTypeOK, Version
<1>2. pending' \in SUBSET Copy
  BY <1>1 DEF FetchPage, WInv, WorkerTypeOK, Copy
<1>3. /\ UNCHANGED <<deployed, content, active, installing, left, caches>>
  BY DEF FetchPage
<1>4. deployed \in Version /\ left \in SUBSET PUBLIC_PAGES /\ Good(caches) /\ Extends(caches, caches)
  BY CachesGood DEF WInv, WorkerTypeOK
<1> QED BY <1>1, <1>2, <1>3, <1>4, ExtendingStep

LEMMA InstallFailsStep == WInv /\ InstallFails => WInv'
<1> SUFFICES ASSUME WInv, InstallFails PROVE WInv'
  OBVIOUS
<1>1. installing \in Version /\ content \in Content
  BY DEF InstallFails, WInv, WorkerTypeOK, Version
<1>2. PICK late \in SUBSET left :
         pending' = pending \cup
              {[cache |-> installing, page |-> p, content |-> content] : p \in late}
  BY DEF InstallFails
<1>3. pending' \in SUBSET Copy
  <2>1. \A p \in late : p \in Pages
    BY DEF WInv, WorkerTypeOK
  <2> QED BY <1>1, <1>2, <2>1 DEF WInv, WorkerTypeOK, Copy
<1>4. WorkerTypeOK'
  BY <1>3 DEF InstallFails, WInv, WorkerTypeOK
<1> QED BY <1>4 DEF InstallFails, WInv, OneOfEach, ActiveFirst, InstallingOpen

LEMMA ActivateStep == WInv /\ Activate => WInv'
<1> SUFFICES ASSUME WInv, Activate PROVE WInv'
  OBVIOUS
<1>1. PICK i \in 1..Len(caches) : caches[i].name = installing /\ caches' = <<caches[i]>>
  BY DEF Activate
<1>2. caches[i] \in Cache
  BY DEF WInv, WorkerTypeOK
<1>3. /\ caches' \in Seq(Cache) /\ Len(caches') = 1 /\ caches'[1] = caches[i]
  BY <1>1, <1>2
<1>4. WorkerTypeOK'
  BY <1>3 DEF Activate, WInv, WorkerTypeOK
<1>5. OneOfEach'
  BY <1>3 DEF OneOfEach
<1>6. ActiveFirst' /\ InstallingOpen'
  BY <1>1, <1>3 DEF Activate, ActiveFirst, InstallingOpen
<1> QED BY <1>4, <1>5, <1>6 DEF WInv

LEMMA SiteStep == WInv /\ (Publish \/ \E v \in Version : Deploy(v)) => WInv'
<1> SUFFICES ASSUME WInv, Publish \/ \E v \in Version : Deploy(v) PROVE WInv'
  OBVIOUS
<1>1. /\ UNCHANGED <<active, installing, left, caches, pending>>
      /\ deployed' \in Version /\ content' \in Content
  BY DEF Publish, Deploy, WInv, WorkerTypeOK, Content
<1>2. left \in SUBSET PUBLIC_PAGES /\ pending \in SUBSET Copy
  BY DEF WInv, WorkerTypeOK
<1> QED BY <1>1, <1>2, CachesGood, ExtendingStep

LEMMA NextWInv == WInv /\ [WorkerNext]_workerVars => WInv'
<1> SUFFICES ASSUME WInv, [WorkerNext]_workerVars PROVE WInv'
  OBVIOUS
<1>1. CASE Publish \/ \E v \in Version : Deploy(v)
  BY <1>1, SiteStep
<1>2. CASE Install \/ InstallFails \/ Activate
  BY <1>2, InstallStep, InstallFailsStep, ActivateStep
<1>3. ASSUME NEW p \in Pages, Precache(p) \/ FetchPage(p) PROVE WInv'
  BY <1>3, PrecacheStep, FetchPageStep
<1>4. ASSUME NEW x \in pending, Store(x) PROVE WInv'
  BY <1>4, StoreStep
<1>5. CASE UNCHANGED workerVars
  BY <1>5 DEF workerVars, WInv, WorkerTypeOK, OneOfEach, ActiveFirst, InstallingOpen
<1> QED BY <1>1, <1>2, <1>3, <1>4, <1>5 DEF WorkerNext
-----------------------------------------------------------------------------
\* The variables keep their types, each version has one cache, and that of the version in
\* control is the first (the install and activate handlers).
THEOREM WorkerInvariant == WorkerSpec => []WInv
<1> QED BY InitWInv, NextWInv, PTL DEF WorkerSpec

\* Whatever installs fail and whenever copies are stored, a page that the version in
\* control holds is shown from it (currencyconverter/views.py:58 and 80).
THEOREM OfflineFromActiveHolds == WorkerSpec => []OfflineFromActive
<1>1. WInv => OfflineFromActive
  <2> SUFFICES ASSUME WInv, NEW i \in 1..Len(caches), NEW j \in 1..Len(caches), NEW p \in Pages,
                      Answers(i, p), caches[j].name = active, caches[j].pages[p] # 0
               PROVE  i = j
    BY DEF OfflineFromActive
  <2>1. Len(caches) \in Nat /\ caches[j] \in Cache
    BY DEF WInv, WorkerTypeOK
  <2>2. active # 0
    BY <2>1 DEF Cache, Version
  <2>3. Len(caches) >= 1 /\ caches[1].name = active
    BY <2>2 DEF WInv, ActiveFirst
  <2>4. j = 1
    BY <2>1, <2>3 DEF WInv, OneOfEach
  <2> QED BY <2>4 DEF Answers
<1> QED BY <1>1, WorkerInvariant, PTL
=============================================================================
