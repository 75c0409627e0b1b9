----------------------------- MODULE DustSignals -----------------------------
(***************************************************************************)
(* Dust and drift signals (dashboard/dust_read_model.py, dashboard/        *)
(* views.py).  The bot appends detections run by run; operators review     *)
(* groups of them and ask for corrections of single ones, which the bot    *)
(* applies; the homepage reads all of it query by query, with no           *)
(* transaction around, and keeps the most urgent in lists with limits.     *)
(***************************************************************************)
EXTENDS Integers, Sequences, FiniteSets

CONSTANTS
    Groups,         \* symbol, asset, severity, event type and reason
    SeverityOf,     \* [Groups -> Severities]
    SymbolOf,       \* [Groups -> Nat], their order by symbol
    ValuesOf,       \* [Groups -> SUBSET Nat], the values estimated for them
    SentStatuses,   \* that requests ask reviews to have
    Operators,
    HOMEPAGE_GROUP_CANDIDATE_LIMIT, HOMEPAGE_GROUP_LIMIT,
    ACTIVE_OPERATIONAL_ISSUES_LIMIT,
    MaxRuns, MaxDetections, MaxCorrections, MaxReviews  \* bounds of the model

Severities == {"critical", "warning", "info", "other"}
HANDLED_REVIEW_STATUSES == {"reviewed", "ignored", "external_or_earn"}
Statuses == HANDLED_REVIEW_STATUSES \cup {"pending", "review_later", "needs_manual_correction"}
Limits == {HOMEPAGE_GROUP_CANDIDATE_LIMIT, HOMEPAGE_GROUP_LIMIT,
           ACTIVE_OPERATIONAL_ISSUES_LIMIT}

ASSUME DustAssumption ==
    /\ IsFiniteSet(Groups)
    /\ SeverityOf \in [Groups -> Severities]
    /\ SymbolOf \in [Groups -> Nat]
    /\ ValuesOf \in [Groups -> SUBSET Nat]
    /\ Limits \subseteq Nat
    /\ {MaxRuns, MaxDetections, MaxCorrections, MaxReviews} \subseteq Nat

VARIABLES
    detections,     \* bot.dust_detections by id, which grows with detected_at
    reviews,        \* status of each group's review; no row is "pending"
    corrections,    \* bot.manual_corrections, in the order they are saved
    page,           \* what each operator has open on the way to a correction
    view,           \* a reading of the overview, and what it has found
    handled,        \* history: groups handled at some and at every moment ...
    blocked,        \* ... detections blocked at some and at every moment of it
    reviewed        \* reviews so far

vars == <<detections, reviews, corrections, page, view, handled, blocked, reviewed>>
-----------------------------------------------------------------------------
Ids == 1 .. MaxDetections
Detection == [run : 1 .. MaxRuns, group : Groups, value : Nat]
\* seen: corrections there were when the page that led to it was opened; none
\* if it could not read them.
Correction == [detection : 0 .. MaxDetections, seen : 0 .. MaxCorrections,
               status : {"PENDING", "APPLIED", "REJECTED", "FAILED"}]
Page == [stage : {"none", "detail", "shown", "form"}, source : 0 .. MaxDetections,
         seen : 0 .. MaxCorrections]
NoPage == [stage |-> "none", source |-> 0, seen |-> 0]
\* A row of a list: a group, its latest detection as aggregated, and the
\* latest one as looked up after that, with its value.
GroupRow == [group : Groups, at : Ids, id : 0 .. MaxDetections, value : Nat]
View == [pc : {"idle", "groups", "latest", "reviews", "corrections", "summary", "done"},
         run : 0 .. MaxRuns, found : SUBSET Groups, rows : SUBSET GroupRow,
         active : SUBSET GroupRow, latest : 0 .. MaxDetections,
         error : BOOLEAN, unreviewed : BOOLEAN, uncorrected : BOOLEAN]
Moments(S) == [ever : SUBSET S, always : SUBSET S]
Now(S) == [ever |-> S, always |-> S]

NoView == [pc |-> "idle", run |-> 0, found |-> {}, rows |-> {}, active |-> {}, latest |-> 0,
           error |-> FALSE, unreviewed |-> FALSE, uncorrected |-> FALSE]

TypeOK ==
    /\ detections \in Seq(Detection) /\ Len(detections) <= MaxDetections
    /\ reviews \in [Groups -> Statuses]
    /\ corrections \in Seq(Correction) /\ Len(corrections) <= MaxCorrections
    /\ page \in [Operators -> Page]
    /\ view \in View
    /\ handled \in Moments(Groups)
    /\ blocked \in Moments(Ids)
    /\ reviewed \in 0 .. MaxReviews

Init ==
    /\ detections = <<>>
    /\ reviews = [g \in Groups |-> "pending"]
    /\ corrections = <<>>
    /\ page = [o \in Operators |-> NoPage]
    /\ view = NoView
    /\ handled = Now({})
    /\ blocked = Now({})
    /\ reviewed = 0
-----------------------------------------------------------------------------
Handled == {g \in Groups : reviews[g] \in HANDLED_REVIEW_STATUSES}

\* PENDING and APPLIED corrections block their detection.
Open(c) == c.status \in {"PENDING", "APPLIED"}
Blocked == {d \in Ids : \E i \in DOMAIN corrections :
                            corrections[i].detection = d /\ Open(corrections[i])}

\* The writes between the queries of a reading.
Observe ==
    IF view.pc \in {"idle", "done"} THEN UNCHANGED <<handled, blocked>>
    ELSE /\ handled' = [ever |-> handled.ever \cup Handled', always |-> handled.always \cap Handled']
         /\ blocked' = [ever |-> blocked.ever \cup Blocked', always |-> blocked.always \cap Blocked']

LastRun == IF detections = <<>> THEN 0 ELSE detections[Len(detections)].run

\* The bot, of which only this is known here: it appends to the last run or
\* begins one, and decides what becomes of a pending correction.
Detect(g, v) ==
    /\ Len(detections) < MaxDetections
    /\ \E run \in {LastRun, LastRun + 1} \ {0, MaxRuns + 1} :
          detections' = Append(detections, [run |-> run, group |-> g, value |-> v])
    /\ UNCHANGED <<reviews, corrections, page, view, handled, blocked, reviewed>>

Settle(i, status) ==
    /\ corrections[i].status = "PENDING"
    /\ corrections' = [corrections EXCEPT ![i].status = status]
    /\ UNCHANGED <<detections, reviews, page, view, reviewed>>
    /\ Observe

\* update_dust_signal_review: a row is made if there is none, and saved.
\* Mutant: with the status as it was sent.
ReviewAsSent(g, status) ==
    /\ reviewed < MaxReviews
    /\ reviewed' = reviewed + 1
    /\ reviews' = [reviews EXCEPT ![g] = status]
    /\ UNCHANGED <<detections, corrections, page, view>>
    /\ Observe
Review(g, status) ==
    /\ reviewed < MaxReviews
    /\ reviewed' = reviewed + 1
    /\ reviews' = [reviews EXCEPT ![g] = IF status \in Statuses THEN status ELSE "pending"]
    /\ UNCHANGED <<detections, corrections, page, view>>
    /\ Observe
-----------------------------------------------------------------------------
(***************************************************************************)
(* A request of a correction: the page of a group shows its latest         *)
(* detection, in any run, and a link if that is not blocked; the link's    *)
(* form looks the latest detection up again; the form is saved as it is.   *)
(***************************************************************************)
OfGroup(g) == {d \in DOMAIN detections : detections[d].group = g}
OfRun(run) == {d \in DOMAIN detections : detections[d].run = run}
Latest(S) == CHOOSE d \in S : \A e \in S : e <= d

OpenDetail(o, g) ==
    /\ OfGroup(g) # {}
    /\ page' = [page EXCEPT ![o] = [stage |-> "detail", source |-> Latest(OfGroup(g)),
                                    seen |-> Len(corrections)]]
    /\ UNCHANGED <<detections, reviews, corrections, view, handled, blocked, reviewed>>

\* Mutant: only what is pending disables the button.
ShowDetailPending(o) ==
    /\ page[o].stage = "detail"
    /\ IF \E i \in DOMAIN corrections : /\ corrections[i].detection = page[o].source
                                        /\ corrections[i].status = "PENDING"
       THEN page' = [page EXCEPT ![o] = NoPage]
       ELSE page' = [page EXCEPT ![o].stage = "shown"]
    /\ UNCHANGED <<detections, reviews, corrections, view, handled, blocked, reviewed>>
\* The corrections of the detection; if they cannot be read it has none.
ShowDetail(o) ==
    /\ page[o].stage = "detail"
    /\ \/ /\ page[o].source \in Blocked
          /\ page' = [page EXCEPT ![o] = NoPage]
       \/ /\ page[o].source \notin Blocked
          /\ page' = [page EXCEPT ![o].stage = "shown"]
       \/ page' = [page EXCEPT ![o].stage = "shown", ![o].seen = 0]
    /\ UNCHANGED <<detections, reviews, corrections, view, handled, blocked, reviewed>>

\* The form, prefilled or, when nothing can be read, empty.
OpenForm(o) ==
    /\ page[o].stage = "shown"
    /\ \E source \in {Latest(OfGroup(detections[page[o].source].group)), 0} :
          page' = [page EXCEPT ![o].stage = "form", ![o].source = source]
    /\ UNCHANGED <<detections, reviews, corrections, view, handled, blocked, reviewed>>

\* The request is saved; if it cannot be, the form is shown again.
Submit(o) ==
    /\ page[o].stage = "form"
    /\ Len(corrections) < MaxCorrections
    /\ corrections' = Append(corrections,
                             [detection |-> page[o].source, status |-> "PENDING",
                              seen |-> page[o].seen])
    /\ page' = [page EXCEPT ![o] = NoPage]
    /\ UNCHANGED <<detections, reviews, view, reviewed>>
    /\ Observe
-----------------------------------------------------------------------------
(***************************************************************************)
(* The lists: the first n of a set of rows in the order of a key, which is *)
(* a tuple of four numbers.                                                *)
(***************************************************************************)
Less(a, b) ==
    \/ a[1] < b[1]
    \/ a[1] = b[1] /\ a[2] < b[2]
    \/ a[1] = b[1] /\ a[2] = b[2] /\ a[3] < b[3]
    \/ a[1] = b[1] /\ a[2] = b[2] /\ a[3] = b[3] /\ a[4] < b[4]

First(S, n, key) == {x \in S : Cardinality({y \in S : Less(key[y], key[x])}) < n}

Priority(g) == CASE SeverityOf[g] = "critical" -> 0
                 [] SeverityOf[g] = "warning" -> 1
                 [] SeverityOf[g] = "info" -> 2
                 [] OTHER -> 3

\* The query orders the groups by severity, time and symbol ...
CandidateKey(S) == [r \in S |-> <<Priority(r.group), 0 - r.at, SymbolOf[r.group], 0>>]
\* ... the list by severity, value, time and symbol ...
\* Mutant: by value before severity.
GroupKeyValue(S) == [r \in S |-> <<0 - r.value, Priority(r.group), 0 - r.at, SymbolOf[r.group]>>]
GroupKey(S) == [r \in S |-> <<Priority(r.group), 0 - r.value, 0 - r.at, SymbolOf[r.group]>>]
\* ... and the active issues are ordered as in the query.
ActiveKey(S) == CandidateKey(S)

(***************************************************************************)
(* get_dust_overview_context: six queries, one after the other.            *)
(***************************************************************************)
At(pc) == view.pc = pc

OverviewRun ==
    /\ At("idle")
    /\ view' = [view EXCEPT !.pc = "groups", !.run = LastRun]
    /\ handled' = Now(Handled)
    /\ blocked' = Now(Blocked)
    /\ UNCHANGED <<detections, reviews, corrections, page, reviewed>>

\* The groups of the run with the time of their latest detection.
Candidates ==
    {[group |-> g, at |-> Latest(OfRun(view.run) \cap OfGroup(g)), id |-> 0, value |-> 0] :
        g \in {h \in Groups : OfRun(view.run) \cap OfGroup(h) # {}}}

OverviewGroups ==
    /\ At("groups")
    /\ view' = [view EXCEPT !.pc = "latest",
                            !.found = {r.group : r \in Candidates},
                            !.rows = First(Candidates, HOMEPAGE_GROUP_CANDIDATE_LIMIT,
                                           CandidateKey(Candidates))]
    /\ UNCHANGED <<detections, reviews, corrections, page, handled, blocked, reviewed>>

\* Mutant: the latest detection of the group in any run.
LatestOfAny(r) == Latest(OfGroup(r.group))
LatestOf(r) == Latest(OfRun(view.run) \cap OfGroup(r.group))
WithLatest == {[r EXCEPT !.id = LatestOf(r), !.value = detections[LatestOf(r)].value] :
                  r \in view.rows}

OverviewLatest ==
    /\ At("latest")
    /\ view' = [view EXCEPT !.pc = "reviews",
                            !.rows = First(WithLatest, HOMEPAGE_GROUP_LIMIT, GroupKey(WithLatest))]
    /\ UNCHANGED <<detections, reviews, corrections, page, handled, blocked, reviewed>>

\* The first unresolved critical and warning rows, as far as reviews tell.
Unreviewed(done) ==
    {r \in view.rows : r.group \notin done /\ SeverityOf[r.group] \in {"critical", "warning"}}

OverviewReviews ==
    /\ At("reviews")
    /\ \E fails \in {view.rows # {}, FALSE} :
          LET rows == Unreviewed(IF fails THEN {} ELSE Handled)  IN
          view' = [view EXCEPT !.pc = "corrections", !.unreviewed = fails,
                               !.active = First(rows, ACTIVE_OPERATIONAL_ISSUES_LIMIT, ActiveKey(rows))]
    /\ UNCHANGED <<detections, reviews, corrections, page, handled, blocked, reviewed>>

\* Mutant: the rows are marked, and not selected again.
OverviewCorrectionsMarked ==
    /\ At("corrections")
    /\ view' = [view EXCEPT !.pc = "summary"]
    /\ UNCHANGED <<detections, reviews, corrections, page, handled, blocked, reviewed>>
\* Those without a correction that is pending or applied.
OverviewCorrections ==
    /\ At("corrections")
    /\ \E fails \in {view.active # {}, FALSE} :
          view' = [view EXCEPT !.pc = "summary", !.uncorrected = fails,
                               !.active = {r \in @ : fails \/ r.id \notin Blocked}]
    /\ UNCHANGED <<detections, reviews, corrections, page, handled, blocked, reviewed>>

OverviewSummary ==
    /\ At("summary")
    /\ view' = [view EXCEPT !.pc = "done",
                            !.latest = IF OfRun(view.run) = {} THEN 0 ELSE Latest(OfRun(view.run))]
    /\ UNCHANGED <<detections, reviews, corrections, page, handled, blocked, reviewed>>

\* A failure of the other queries ends the reading; what it has found stays.
OverviewFails ==
    /\ view.pc \in {"idle", "groups", "latest", "summary"}
    /\ view' = [view EXCEPT !.pc = "done", !.error = TRUE]
    /\ UNCHANGED <<detections, reviews, corrections, page, handled, blocked, reviewed>>

Overview == \/ OverviewRun \/ OverviewGroups \/ OverviewLatest \/ OverviewReviews
            \/ OverviewCorrections \/ OverviewSummary \/ OverviewFails

Next == \/ \E g \in Groups : \E v \in ValuesOf[g] : Detect(g, v)
        \/ \E i \in DOMAIN corrections, status \in {"APPLIED", "REJECTED", "FAILED"} :
              Settle(i, status)
        \/ \E g \in Groups, status \in SentStatuses : Review(g, status)
        \/ \E o \in Operators : \/ \E g \in Groups : OpenDetail(o, g)
                                 \/ ShowDetail(o) \/ OpenForm(o) \/ Submit(o)
        \/ Overview

Spec == Init /\ [][Next]_vars
-----------------------------------------------------------------------------
(***************************************************************************)
(* "It shows unresolved critical/warning signals only, excludes reviewed,  *)
(* ignored, external-or-Earn and blocking-correction groups when that      *)
(* state is available": nothing is listed that was handled, or whose       *)
(* latest detection was blocked, all the while the overview was read.      *)
(***************************************************************************)
ActiveWasUnresolved ==
    At("done") => \A r \in view.active :
        /\ SeverityOf[r.group] \in {"critical", "warning"}
        /\ ~view.unreviewed => r.group \notin handled.always
        /\ ~view.uncorrected => r.id \notin blocked.always

(***************************************************************************)
(* What is shown together belongs together: rows and summary are of the    *)
(* run that was the last one when the reading began, however many runs the *)
(* bot has begun since.                                                    *)
(***************************************************************************)
OneRunShown ==
    At("done") /\ ~view.error =>
        \A d \in {r.id : r \in view.rows} \cup ({view.latest} \ {0}) :
            detections[d].run = view.run /\ d <= view.latest

(***************************************************************************)
(* The limits never hide a critical issue behind a warning: when a warning *)
(* is listed, each critical group of the run was listed too, or was        *)
(* handled or blocked at some moment of the reading.                       *)
(***************************************************************************)
CriticalFirst ==
    At("done") /\ (\E r \in view.active : SeverityOf[r.group] # "critical") =>
        \A g \in view.found : SeverityOf[g] = "critical" =>
            \/ \E r \in view.active : r.group = g
            \/ g \in handled.ever
            \/ \E r \in view.rows : r.group = g /\ r.id \in blocked.ever

(***************************************************************************)
(* "The dashboard uses linked PENDING and APPLIED rows only to prevent     *)
(* obvious duplicate clicks": a detection with an open correction gets     *)
(* another only from a page that was opened before the first was saved, or *)
(* that could not read the corrections: not because it was applied in the  *)
(* meantime, nor because the form looks the latest detection up again.     *)
(***************************************************************************)
DuplicateOnlyByRace ==
    \A i, j \in DOMAIN corrections :
        i < j /\ Open(corrections[i])
        /\ corrections[i].detection = corrections[j].detection /\ corrections[i].detection # 0
        => i > corrections[j].seen

(***************************************************************************)
(* "No active operational dust issues found": when the overview is empty   *)
(* and had no failures, no critical or warning group of the run was        *)
(* unresolved all the while.                                               *)
(***************************************************************************)
NoneFoundMeansNone ==
    At("done") /\ ~view.error /\ ~view.unreviewed /\ ~view.uncorrected /\ view.active = {} =>
        \A g \in view.found : SeverityOf[g] \in {"critical", "warning"} =>
            g \in handled.ever \/ OfGroup(g) \cap blocked.ever # {}
=============================================================================
