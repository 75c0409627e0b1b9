-------------------------- MODULE DustSignalsProofs --------------------------
(***************************************************************************)
(* What the overview shows, however detections, reviews and corrections    *)
(* are written between its queries, and when a detection may get a second  *)
(* correction: proofs for any groups, operators and limits.                *)
(***************************************************************************)
EXTENDS DustSignals, FunctionTheorems, FiniteSetTheorems, SequenceTheorems, WellFoundedInduction, TLAPS

Reading == view.pc \notin {"idle", "done"}
Selected == view.pc \in {"corrections", "summary", "done"}

\* The history of a reading includes the present.
Observed == Reading => /\ Handled \subseteq handled.ever /\ handled.always \subseteq Handled
                       /\ Blocked \subseteq blocked.ever /\ blocked.always \subseteq Blocked

\* Of the groups there are, critical ones are among the rows before others.
CriticalRows ==
    view.pc \in {"latest", "reviews", "corrections", "summary"} =>
        \A r \in view.rows : SeverityOf[r.group] # "critical" =>
            \A g \in view.found : SeverityOf[g] = "critical" => \E s \in view.rows : s.group = g

RowsOfRun ==
    /\ IsFiniteSet(view.rows) /\ view.active \subseteq view.rows
    /\ view.pc \in {"idle", "groups"} => view.rows = {}
    /\ view.pc \in {"idle", "groups", "latest", "reviews"} => view.active = {}
    /\ view.pc = "latest" =>
          \A r \in view.rows : OfRun(view.run) \cap OfGroup(r.group) # {}
    /\ view.pc \in {"reviews", "corrections", "summary"} \/ (At("done") /\ ~view.error) =>
          \A r \in view.rows : r.id \in OfRun(view.run)
    /\ At("done") /\ ~view.error =>
          /\ view.latest \in {0} \cup OfRun(view.run)
          /\ \A r \in view.rows : r.id <= view.latest

\* As ActiveWasUnresolved, from the query on that makes it so.
ActiveSoFar ==
    Selected => \A r \in view.active :
        /\ SeverityOf[r.group] \in {"critical", "warning"}
        /\ ~view.unreviewed => r.group \notin handled.always
        /\ ~view.uncorrected /\ view.pc # "corrections" => r.id \notin blocked.always

\* As CriticalFirst, from the query on that makes it so.
CriticalSoFar ==
    Selected => \A r \in view.active : SeverityOf[r.group] # "critical" =>
        \A g \in view.found : SeverityOf[g] = "critical" =>
            \/ \E s \in view.active : s.group = g
            \/ g \in handled.ever
            \/ \E s \in view.rows : s.group = g /\ s.id \in blocked.ever

OInv == TypeOK /\ Observed /\ CriticalRows /\ RowsOfRun /\ ActiveSoFar /\ CriticalSoFar

\* Of the corrections a page's query could see, the open ones are of other
\* groups or of detections older than what the form will look up.
GroupOf(d) == detections[d].group
Older(i, d) ==
    corrections[i].detection # 0 /\ GroupOf(corrections[i].detection) = GroupOf(d)
        => corrections[i].detection < d

PagesAhead ==
    /\ \A i \in DOMAIN corrections : corrections[i].detection \in {0} \cup DOMAIN detections
    /\ \A o \in Operators : page[o].source \in {0} \cup DOMAIN detections
    /\ \A o \in Operators : page[o].seen <= Len(corrections)
    /\ \A o \in Operators : page[o].stage \in {"detail", "shown"} => page[o].source # 0
    /\ \A o \in Operators : page[o].stage = "detail" =>
          \A i \in 1 .. page[o].seen :
              Older(i, page[o].source) \/ corrections[i].detection = page[o].source
    /\ \A o \in Operators : page[o].stage = "shown" =>
          \A i \in 1 .. page[o].seen : Open(corrections[i]) => Older(i, page[o].source)
    /\ \A o \in Operators : page[o].stage = "form" /\ page[o].source # 0 =>
          \A i \in 1 .. page[o].seen :
              Open(corrections[i]) => corrections[i].detection # page[o].source

PInv == TypeOK /\ PagesAhead /\ DuplicateOnlyByRace

USE DustAssumption DEF Limits
-----------------------------------------------------------------------------
LEMMA LatestExists ==
    ASSUME NEW S, NEW n \in Nat, S \subseteq 1 .. n, S # {}
    PROVE  Latest(S) \in S /\ \A e \in S : e <= Latest(S)
<1> DEFINE T == {n - d : d \in S}
<1>1. T \subseteq Nat /\ T # {}
  <2>1. \A d \in S : n - d \in Nat
    OBVIOUS
  <2>2. PICK d \in S : TRUE
    OBVIOUS
  <2>3. n - d \in T
    OBVIOUS
  <2> QED BY <2>1, <2>3
<1>2. PICK t \in T : \A u \in T : ~(<<u, t>> \in OpToRel(<, Nat))
  BY <1>1, NatLessThanWellFounded, WFMin
<1>3. \A u \in T : t <= u
  <2> TAKE u \in T
  <2>1. t \in Nat /\ u \in Nat
    BY <1>1
  <2>2. ~(u < t)
    BY <1>2, <2>1 DEF OpToRel
  <2> QED BY <2>1, <2>2
<1>4. PICK d \in S : t = n - d
  OBVIOUS
<1>5. \A e \in S : e <= d
  <2> TAKE e \in S
  <2>1. t <= n - e
    BY <1>3
  <2> QED BY <2>1, <1>4
<1> QED BY <1>5 DEF Latest

Key == Int \X Int \X Int \X Int

LEMMA LessTransitive ==
    ASSUME NEW a \in Key, NEW b \in Key, NEW c \in Key, Less(a, b), Less(b, c)
    PROVE  Less(a, c)
BY DEF Less, Key

\* The first of a set are closed under what comes before them.
LEMMA FirstClosed ==
    ASSUME NEW S, IsFiniteSet(S), NEW n \in Nat, NEW key \in [S -> Key],
           NEW x \in S, NEW y \in First(S, n, key), Less(key[x], key[y])
    PROVE  x \in First(S, n, key)
<1> DEFINE Before(z) == {w \in S : Less(key[w], key[z])}
<1>1. y \in S /\ Cardinality(Before(y)) < n
  BY DEF First
<1>2. Before(x) \subseteq Before(y)
  BY <1>1, LessTransitive
<1>3. IsFiniteSet(Before(y)) /\ IsFiniteSet(Before(x))
  BY FS_Subset
<1>4. Cardinality(Before(x)) <= Cardinality(Before(y))
  BY <1>2, <1>3, FS_Subset
<1>5. Cardinality(Before(x)) \in Nat /\ Cardinality(Before(y)) \in Nat
  BY <1>3, FS_CardinalityType
<1>6. Cardinality(Before(x)) < n
  BY <1>1, <1>4, <1>5
<1> QED BY <1>6 DEF First

LEMMA FirstFinite ==
    ASSUME NEW S, IsFiniteSet(S), NEW n, NEW key
    PROVE  First(S, n, key) \subseteq S /\ IsFiniteSet(First(S, n, key))
<1>1. First(S, n, key) \subseteq S
  BY DEF First
<1> QED BY <1>1, FS_Subset

LEMMA PriorityOrder ==
    ASSUME NEW g \in Groups
    PROVE  /\ Priority(g) \in 0 .. 3
           /\ SeverityOf[g] = "critical" <=> Priority(g) = 0
BY DEF Priority, Severities

\* Sets of rows, of which the critical ones come first in each of the keys.
LEMMA KeysOrder ==
    ASSUME NEW S \in SUBSET GroupRow
    PROVE  /\ CandidateKey(S) \in [S -> Key] /\ GroupKey(S) \in [S -> Key]
           /\ \A r, s \in S : SeverityOf[r.group] = "critical" /\ SeverityOf[s.group] # "critical" =>
                 /\ Less(CandidateKey(S)[r], CandidateKey(S)[s])
                 /\ Less(GroupKey(S)[r], GroupKey(S)[s])
<1>1. \A r \in S : /\ Priority(r.group) \in 0 .. 3 /\ SymbolOf[r.group] \in Int
                   /\ (0 - r.at) \in Int /\ (0 - r.value) \in Int
                   /\ SeverityOf[r.group] = "critical" <=> Priority(r.group) = 0
  BY PriorityOrder DEF GroupRow, Ids
<1>2. CandidateKey(S) \in [S -> Key] /\ GroupKey(S) \in [S -> Key]
  BY <1>1 DEF CandidateKey, GroupKey, Key
<1>3. \A r \in S : CandidateKey(S)[r][1] = Priority(r.group) /\ GroupKey(S)[r][1] = Priority(r.group)
  BY DEF CandidateKey, GroupKey
<1>4. \A r, s \in S : SeverityOf[r.group] = "critical" /\ SeverityOf[s.group] # "critical" =>
          Priority(r.group) < Priority(s.group)
  BY <1>1
<1> QED BY <1>2, <1>3, <1>4 DEF Less
-----------------------------------------------------------------------------
\* The ids of detections.
LEMMA DetectionTypes ==
    ASSUME TypeOK
    PROVE  /\ Len(detections) \in Nat /\ DOMAIN detections = 1 .. Len(detections)
           /\ DOMAIN detections \subseteq Ids
           /\ \A d \in DOMAIN detections :
                 /\ detections[d] \in Detection /\ detections[d].run \in 1 .. MaxRuns
                 /\ detections[d].group \in Groups /\ detections[d].value \in Nat
<1>1. detections \in Seq(Detection) /\ Len(detections) <= MaxDetections
  BY DEF TypeOK
<1>2. Len(detections) \in Nat /\ DOMAIN detections = 1 .. Len(detections)
  BY <1>1, LenProperties
<1>3. DOMAIN detections \subseteq Ids
  BY <1>1, <1>2 DEF Ids, DustAssumption
<1>4. \A d \in DOMAIN detections : detections[d] \in Detection
  BY <1>1, <1>2, ElementOfSeq
<1> QED BY <1>2, <1>3, <1>4 DEF Detection

LEMMA LatestType ==
    ASSUME TypeOK, NEW S, S \subseteq DOMAIN detections, S # {}
    PROVE  /\ Latest(S) \in S /\ Latest(S) \in Ids
           /\ \A e \in S : e <= Latest(S)
BY DetectionTypes, LatestExists

LEMMA LastRunType == TypeOK => LastRun \in 0 .. MaxRuns
<1> SUFFICES ASSUME TypeOK PROVE LastRun \in 0 .. MaxRuns
  OBVIOUS
<1>1. CASE detections = <<>>
  BY <1>1 DEF LastRun, DustAssumption
<1>2. CASE detections # <<>>
  <2>1. Len(detections) \in DOMAIN detections
    BY <1>2, DetectionTypes, EmptySeq DEF TypeOK
  <2> QED BY <1>2, <2>1, DetectionTypes DEF LastRun, DustAssumption
<1> QED BY <1>1, <1>2

\* What a detection leaves as it was.
LEMMA DetectKeeps ==
    ASSUME TypeOK, NEW g \in Groups, NEW v \in ValuesOf[g], Detect(g, v)
    PROVE  /\ detections' \in Seq(Detection) /\ Len(detections') <= MaxDetections
           /\ DOMAIN detections' = DOMAIN detections \cup {Len(detections) + 1}
           /\ Len(detections) + 1 \in Ids /\ Len(detections) + 1 \notin DOMAIN detections
           /\ \A d \in DOMAIN detections : detections'[d] = detections[d]
           /\ detections' # <<>>
<1>1. PICK run \in {LastRun, LastRun + 1} \ {0, MaxRuns + 1} :
          detections' = Append(detections, [run |-> run, group |-> g, value |-> v])
  BY DEF Detect
<1> DEFINE d == [run |-> run, group |-> g, value |-> v]
<1>2. run \in 1 .. MaxRuns
  BY LastRunType DEF DustAssumption
<1>3. v \in Nat
  BY DEF DustAssumption
<1>4. d \in Detection
  BY <1>2, <1>3 DEF Detection
<1>5. detections \in Seq(Detection) /\ Len(detections) < MaxDetections
  BY DEF TypeOK, Detect
<1>6. detections' = Append(detections, d)
  BY <1>1
<1> HIDE DEF d
<1>7. /\ detections' \in Seq(Detection) /\ Len(detections') = Len(detections) + 1
      /\ \A i \in 1 .. Len(detections) : detections'[i] = detections[i]
  BY <1>4, <1>5, <1>6, AppendProperties
<1>8. DOMAIN detections' = 1 .. Len(detections')
  BY <1>7, LenProperties
<1> QED BY <1>5, <1>7, <1>8, DetectionTypes, EmptySeq DEF Ids, DustAssumption

\* What Init and each action say of the types.
LEMMA NoViewType == NoView \in View
BY DEF NoView, View, DustAssumption

LEMMA InitTypeOK == Init => TypeOK
<1> SUFFICES ASSUME Init PROVE TypeOK
  OBVIOUS
<1>1. detections \in Seq(Detection) /\ Len(detections) <= MaxDetections
  BY EmptySeq DEF Init, DustAssumption
<1>2. corrections \in Seq(Correction) /\ Len(corrections) <= MaxCorrections
  BY EmptySeq DEF Init, DustAssumption
<1>3. page \in [Operators -> Page]
  BY DEF Init, Page, NoPage, DustAssumption
<1>4. reviews \in [Groups -> Statuses] /\ reviewed \in 0 .. MaxReviews
  BY DEF Init, Statuses, DustAssumption
<1>5. handled \in Moments(Groups) /\ blocked \in Moments(Ids)
  BY DEF Init, Moments, Now
<1>6. view \in View
  BY NoViewType DEF Init
<1> QED BY <1>1, <1>2, <1>3, <1>4, <1>5, <1>6 DEF TypeOK

\* Observe keeps the types and takes what is and what will be into account.
LEMMA ObserveKeeps ==
    ASSUME TypeOK, view' = view, Observe
    PROVE  /\ handled' \in Moments(Groups) /\ blocked' \in Moments(Ids)
           /\ handled.ever \subseteq handled'.ever /\ handled'.always \subseteq handled.always
           /\ blocked.ever \subseteq blocked'.ever /\ blocked'.always \subseteq blocked.always
           /\ Observed'
<1>1. handled \in Moments(Groups) /\ blocked \in Moments(Ids)
  BY DEF TypeOK
<1>2. Handled' \subseteq Groups /\ Blocked' \subseteq Ids
  BY DEF Handled, Blocked
<1>3. CASE Reading
  <2>1. /\ handled' = [ever |-> handled.ever \cup Handled', always |-> handled.always \cap Handled']
        /\ blocked' = [ever |-> blocked.ever \cup Blocked', always |-> blocked.always \cap Blocked']
    BY <1>3 DEF Observe, Reading
  <2> HIDE DEF Observe
  <2> QED BY <1>1, <1>2, <2>1 DEF Moments, Observed
<1>4. CASE ~Reading
  <2>1. handled' = handled /\ blocked' = blocked /\ ~Reading'
    BY <1>4 DEF Observe, Reading
  <2> QED BY <1>1, <2>1 DEF Observed
<1> QED BY <1>3, <1>4

LEMMA CorrectionTypes ==
    ASSUME TypeOK
    PROVE  /\ Len(corrections) \in Nat /\ DOMAIN corrections = 1 .. Len(corrections)
           /\ \A i \in DOMAIN corrections : corrections[i] \in Correction
BY LenProperties, ElementOfSeq DEF TypeOK

LEMMA SettleKeeps ==
    ASSUME TypeOK, NEW i \in DOMAIN corrections,
           NEW status \in {"APPLIED", "REJECTED", "FAILED"}, Settle(i, status)
    PROVE  /\ corrections' \in Seq(Correction) /\ Len(corrections') = Len(corrections)
           /\ DOMAIN corrections' = DOMAIN corrections
           /\ \A j \in DOMAIN corrections :
                 /\ corrections'[j].detection = corrections[j].detection
                 /\ corrections'[j].seen = corrections[j].seen
                 /\ Open(corrections'[j]) => Open(corrections[j])
<1> DEFINE c == [corrections[i] EXCEPT !.status = status]
<1>1. corrections[i] \in Correction /\ corrections[i].status = "PENDING"
  BY CorrectionTypes DEF Settle
<1>2. c \in Correction /\ c.detection = corrections[i].detection /\ c.seen = corrections[i].seen
  BY <1>1 DEF Correction
<1>3. corrections' = [corrections EXCEPT ![i] = c]
  BY DEF Settle
<1> HIDE DEF c
<1>4. /\ corrections' \in Seq(Correction) /\ Len(corrections') = Len(corrections)
      /\ DOMAIN corrections' = DOMAIN corrections
      /\ \A j \in DOMAIN corrections : corrections'[j] = IF j = i THEN c ELSE corrections[j]
  BY <1>2, <1>3, CorrectionTypes, ExceptSeq DEF TypeOK
<1> QED BY <1>1, <1>2, <1>4 DEF Open

\* The candidates: rows, one for each group of the run.
LEMMA CandidatesType ==
    ASSUME TypeOK
    PROVE  /\ Candidates \subseteq GroupRow /\ IsFiniteSet(Candidates)
           /\ {r.group : r \in Candidates} \subseteq Groups
           /\ \A g \in {r.group : r \in Candidates} : \E r \in Candidates : r.group = g
           /\ \A r \in Candidates : OfRun(view.run) \cap OfGroup(r.group) # {}
<1> DEFINE G == {h \in Groups : OfRun(view.run) \cap OfGroup(h) # {}}
           Row(g) == [group |-> g, at |-> Latest(OfRun(view.run) \cap OfGroup(g)),
                      id |-> 0, value |-> 0]
<1>1. Candidates = {Row(g) : g \in G}
  BY DEF Candidates
<1>2. \A g \in G : Row(g) \in GroupRow
  <2> TAKE g \in G
  <2>1. OfRun(view.run) \cap OfGroup(g) \subseteq DOMAIN detections
    BY DEF OfRun
  <2>2. Latest(OfRun(view.run) \cap OfGroup(g)) \in Ids
    BY <2>1, LatestType
  <2> QED BY <2>2 DEF GroupRow, DustAssumption
<1>3. IsFiniteSet(G)
  BY FS_Subset DEF DustAssumption
<1> DEFINE f == [g \in G |-> Row(g)]
<1>4. f \in Surjection(G, Candidates)
  <2>1. f \in [G -> Candidates]
    BY <1>1
  <2>2. \A r \in Candidates : \E g \in G : f[g] = r
    BY <1>1
  <2> QED BY <2>1, <2>2, Fun_IsSurj
<1>5. IsFiniteSet(Candidates)
  BY <1>3, <1>4, FS_Surjection
<1>6. \A r \in Candidates : r.group \in G
  <2>1. \A g \in G : Row(g).group = g
    OBVIOUS
  <2> HIDE DEF Row
  <2> QED BY <1>1, <2>1
<1> QED BY <1>1, <1>2, <1>5, <1>6

LEMMA WithLatestType ==
    ASSUME TypeOK, RowsOfRun, view.pc = "latest"
    PROVE  /\ WithLatest \subseteq GroupRow /\ IsFiniteSet(WithLatest)
           /\ \A s \in WithLatest : s.id \in OfRun(view.run)
           /\ \A r \in view.rows : \E s \in WithLatest : s.group = r.group
           /\ \A s \in WithLatest : \E r \in view.rows : s.group = r.group
<1> DEFINE Row(r) == [r EXCEPT !.id = LatestOf(r), !.value = detections[LatestOf(r)].value]
<1>1. \A r \in view.rows : r \in GroupRow
  BY DEF TypeOK, View
<1>2. \A r \in view.rows : LatestOf(r) \in OfRun(view.run) /\ LatestOf(r) \in Ids
  <2> TAKE r \in view.rows
  <2>1. OfRun(view.run) \cap OfGroup(r.group) # {}
    BY DEF RowsOfRun
  <2>2. OfRun(view.run) \cap OfGroup(r.group) \subseteq DOMAIN detections
    BY DEF OfRun
  <2> QED BY <2>1, <2>2, LatestType DEF LatestOf
<1>3. \A r \in view.rows : /\ Row(r) \in GroupRow /\ Row(r).group = r.group
                           /\ Row(r).id \in OfRun(view.run)
  <2> TAKE r \in view.rows
  <2>1. detections[LatestOf(r)].value \in Nat
    BY <1>2, DetectionTypes DEF OfRun
  <2> DEFINE id == LatestOf(r)
             v == detections[LatestOf(r)].value
  <2>2. r \in GroupRow /\ id \in OfRun(view.run) /\ id \in 0 .. MaxDetections /\ v \in Nat
    BY <1>1, <1>2, <2>1 DEF Ids, DustAssumption
  <2>3. Row(r) = [r EXCEPT !.id = id, !.value = v]
    OBVIOUS
  <2> HIDE DEF id, v
  <2>4. [r EXCEPT !.id = id, !.value = v] \in GroupRow
    BY <2>2 DEF GroupRow
  <2>5. /\ [r EXCEPT !.id = id, !.value = v].group = r.group
        /\ [r EXCEPT !.id = id, !.value = v].id = id
    BY <2>2 DEF GroupRow
  <2> QED BY <2>2, <2>3, <2>4, <2>5
<1>4. WithLatest = {Row(r) : r \in view.rows}
  BY DEF WithLatest
<1> DEFINE f == [r \in view.rows |-> Row(r)]
<1>5. f \in Surjection(view.rows, WithLatest)
  <2>1. f \in [view.rows -> WithLatest]
    BY <1>4
  <2>2. \A s \in WithLatest : \E r \in view.rows : f[r] = s
    BY <1>4
  <2> QED BY <2>1, <2>2, Fun_IsSurj
<1>6. IsFiniteSet(WithLatest)
  BY <1>5, FS_Surjection DEF RowsOfRun
<1> HIDE DEF Row
<1> QED BY <1>3, <1>4, <1>6

\* What a list with critical rows before others is cut down to has them, too.
LEMMA CutKeepsCritical ==
    ASSUME NEW S \in SUBSET GroupRow, IsFiniteSet(S), NEW n \in Nat,
           NEW key \in {CandidateKey(S), GroupKey(S)},
           NEW r \in First(S, n, key), SeverityOf[r.group] # "critical",
           NEW s \in S, SeverityOf[s.group] = "critical"
    PROVE  s \in First(S, n, key)
<1>1. r \in S
  BY DEF First
<1>2. key \in [S -> Key] /\ Less(key[s], key[r])
  BY <1>1, KeysOrder
<1> QED BY <1>2, FirstClosed
-----------------------------------------------------------------------------
\* The steps of the reading, one by one: the view each makes, and why its
\* parts are of their types.
LEMMA OverviewTypes ==
    ASSUME TypeOK, RowsOfRun, Overview
    PROVE  view' \in View
<1>1. view \in View
  BY DEF TypeOK
<1>2. CASE OverviewRun
  BY <1>1, <1>2, LastRunType DEF OverviewRun, View
<1>3. CASE OverviewGroups
  <2> DEFINE found == {r.group : r \in Candidates}
             rows == First(Candidates, HOMEPAGE_GROUP_CANDIDATE_LIMIT, CandidateKey(Candidates))
  <2>1. found \in SUBSET Groups /\ rows \in SUBSET GroupRow
    BY CandidatesType DEF First
  <2>2. view' = [view EXCEPT !.pc = "latest", !.found = found, !.rows = rows]
    BY <1>3 DEF OverviewGroups
  <2> HIDE DEF found, rows
  <2> QED BY <1>1, <2>1, <2>2 DEF View
<1>4. CASE OverviewLatest
  <2> DEFINE rows == First(WithLatest, HOMEPAGE_GROUP_LIMIT, GroupKey(WithLatest))
  <2>1. rows \in SUBSET GroupRow
    BY <1>4, WithLatestType DEF First, OverviewLatest, At
  <2>2. view' = [view EXCEPT !.pc = "reviews", !.rows = rows]
    BY <1>4 DEF OverviewLatest
  <2> HIDE DEF rows
  <2> QED BY <1>1, <2>1, <2>2 DEF View
<1>5. CASE OverviewReviews
  <2>1. PICK fails \in {view.rows # {}, FALSE} :
          LET rows == Unreviewed(IF fails THEN {} ELSE Handled)  IN
          view' = [view EXCEPT !.pc = "corrections", !.unreviewed = fails,
                               !.active = First(rows, ACTIVE_OPERATIONAL_ISSUES_LIMIT, ActiveKey(rows))]
    BY <1>5 DEF OverviewReviews
  <2> DEFINE rows == Unreviewed(IF fails THEN {} ELSE Handled)
             active == First(rows, ACTIVE_OPERATIONAL_ISSUES_LIMIT, ActiveKey(rows))
  <2>2. view.rows \in SUBSET GroupRow
    BY <1>1 DEF View
  <2>3. active \in SUBSET GroupRow
    BY <2>2 DEF First, Unreviewed
  <2>4. fails \in BOOLEAN
    OBVIOUS
  <2>5. view' = [view EXCEPT !.pc = "corrections", !.unreviewed = fails, !.active = active]
    BY <2>1
  <2> HIDE DEF rows, active
  <2> QED BY <1>1, <2>3, <2>4, <2>5 DEF View
<1>6. CASE OverviewCorrections
  <2>1. PICK fails \in {view.active # {}, FALSE} :
          view' = [view EXCEPT !.pc = "summary", !.uncorrected = fails,
                               !.active = {r \in view.active : fails \/ r.id \notin Blocked}]
    BY <1>6 DEF OverviewCorrections
  <2> DEFINE active == {r \in view.active : fails \/ r.id \notin Blocked}
  <2>2. view.active \in SUBSET GroupRow
    BY <1>1 DEF View
  <2>3. active \in SUBSET GroupRow /\ fails \in BOOLEAN
    BY <2>2
  <2>4. view' = [view EXCEPT !.pc = "summary", !.uncorrected = fails, !.active = active]
    BY <2>1
  <2> HIDE DEF active
  <2> QED BY <1>1, <2>3, <2>4 DEF View
<1>7. CASE OverviewSummary
  <2> DEFINE latest == IF OfRun(view.run) = {} THEN 0 ELSE Latest(OfRun(view.run))
  <2>1. OfRun(view.run) \subseteq DOMAIN detections
    BY DEF OfRun
  <2>2. latest \in 0 .. MaxDetections
    BY <2>1, LatestType DEF Ids, DustAssumption
  <2>3. view' = [view EXCEPT !.pc = "done", !.latest = latest]
    BY <1>7 DEF OverviewSummary
  <2> HIDE DEF latest
  <2> QED BY <1>1, <2>2, <2>3 DEF View
<1>8. CASE OverviewFails
  BY <1>1, <1>8 DEF OverviewFails, View
<1> QED BY <1>2, <1>3, <1>4, <1>5, <1>6, <1>7, <1>8 DEF Overview

\* The fields a step of the reading leaves alone.
LEMMA PageUpdate ==
    ASSUME TypeOK, NEW o \in Operators, NEW c \in Page, page' = [page EXCEPT ![o] = c]
    PROVE  /\ page' \in [Operators -> Page] /\ page'[o] = c
           /\ \A p \in Operators : p # o => page'[p] = page[p]
BY DEF TypeOK

LEMMA NoPageType == NoPage \in Page
BY DEF NoPage, Page, DustAssumption

\* What each of the operator's steps makes of the page.
LEMMA OpenDetailPage ==
    ASSUME TypeOK, NEW o \in Operators, NEW g \in Groups, OpenDetail(o, g)
    PROVE  \E c \in Page : /\ page' = [page EXCEPT ![o] = c]
                           /\ c.stage = "detail" /\ c.seen = Len(corrections)
                           /\ c.source \in OfGroup(g) /\ \A e \in OfGroup(g) : e <= c.source
<1> DEFINE source == Latest(OfGroup(g))
           c == [stage |-> "detail", source |-> source, seen |-> Len(corrections)]
<1>1. OfGroup(g) # {} /\ OfGroup(g) \subseteq DOMAIN detections
  BY DEF OpenDetail, OfGroup
<1>2. source \in OfGroup(g) /\ source \in Ids /\ \A e \in OfGroup(g) : e <= source
  BY <1>1, LatestType
<1>3. page' = [page EXCEPT ![o] = c]
  BY DEF OpenDetail
<1> HIDE DEF source
<1>4. Len(corrections) \in 0 .. MaxCorrections
  BY CorrectionTypes DEF TypeOK, DustAssumption
<1>5. c \in Page
  BY <1>2, <1>4 DEF Page, Ids, DustAssumption
<1> QED BY <1>2, <1>3, <1>5

LEMMA ShowDetailPage ==
    ASSUME TypeOK, NEW o \in Operators, ShowDetail(o)
    PROVE  \E c \in Page : /\ page' = [page EXCEPT ![o] = c]
                           /\ \/ c = NoPage
                              \/ c.stage = "shown" /\ c.source = page[o].source
                                 /\ page[o].source \notin Blocked /\ c.seen = page[o].seen
                              \/ c.stage = "shown" /\ c.source = page[o].source /\ c.seen = 0
<1>1. page[o] \in Page
  BY DEF TypeOK
<1>2. CASE page' = [page EXCEPT ![o] = NoPage]
  BY <1>2, NoPageType
<1>3. CASE page[o].source \notin Blocked /\ page' = [page EXCEPT ![o].stage = "shown"]
  <2> DEFINE c == [page[o] EXCEPT !.stage = "shown"]
  <2>1. c \in Page /\ c.stage = "shown" /\ c.source = page[o].source /\ c.seen = page[o].seen
    BY <1>1 DEF Page
  <2>2. page' = [page EXCEPT ![o] = c]
    BY <1>3 DEF TypeOK
  <2> QED BY <1>3, <2>1, <2>2
<1>4. CASE page' = [page EXCEPT ![o].stage = "shown", ![o].seen = 0]
  <2> DEFINE c == [page[o] EXCEPT !.stage = "shown", !.seen = 0]
  <2>0. 0 \in 0 .. MaxCorrections
    BY DEF DustAssumption
  <2>1. c \in Page /\ c.stage = "shown" /\ c.source = page[o].source /\ c.seen = 0
    BY <1>1, <2>0 DEF Page
  <2>2. page' = [page EXCEPT ![o] = c]
    BY <1>4 DEF TypeOK
  <2> QED BY <2>1, <2>2
<1> QED BY <1>2, <1>3, <1>4 DEF ShowDetail

LEMMA OpenFormPage ==
    ASSUME TypeOK, PagesAhead, NEW o \in Operators, OpenForm(o)
    PROVE  \E c \in Page : /\ page' = [page EXCEPT ![o] = c]
                           /\ c.stage = "form" /\ c.seen = page[o].seen
                           /\ \/ c.source = 0
                              \/ /\ c.source \in DOMAIN detections /\ page[o].source <= c.source
                                 /\ GroupOf(c.source) = GroupOf(page[o].source)
<1>1. page[o] \in Page /\ page[o].stage = "shown"
  BY DEF TypeOK, OpenForm
<1>2. page[o].source \in DOMAIN detections
  BY <1>1 DEF PagesAhead
<1> DEFINE g == detections[page[o].source].group
<1>3. page[o].source \in OfGroup(g) /\ OfGroup(g) \subseteq DOMAIN detections
  BY <1>2 DEF OfGroup
<1>4. Latest(OfGroup(g)) \in OfGroup(g) /\ page[o].source <= Latest(OfGroup(g))
  BY <1>3, LatestType
<1>5. PICK source \in {Latest(OfGroup(g)), 0} :
          page' = [page EXCEPT ![o].stage = "form", ![o].source = source]
  BY DEF OpenForm
<1> DEFINE c == [page[o] EXCEPT !.stage = "form", !.source = source]
<1>6. source \in 0 .. MaxDetections
  BY <1>3, <1>4, DetectionTypes DEF Ids, DustAssumption
<1>7. c \in Page /\ c.stage = "form" /\ c.source = source /\ c.seen = page[o].seen
  BY <1>1, <1>6 DEF Page
<1>8. page' = [page EXCEPT ![o] = c]
  BY <1>5 DEF TypeOK
<1>9. source = 0 \/ (source \in OfGroup(g) /\ page[o].source <= source)
  BY <1>4
<1> HIDE DEF c
<1> QED BY <1>7, <1>8, <1>9 DEF OfGroup, GroupOf

LEMMA SubmitKeeps ==
    ASSUME TypeOK, NEW o \in Operators, Submit(o)
    PROVE  \E c \in Correction :
              /\ c.detection = page[o].source /\ c.status = "PENDING" /\ c.seen = page[o].seen
              /\ corrections' \in Seq(Correction) /\ Len(corrections') = Len(corrections) + 1
              /\ Len(corrections') <= MaxCorrections
              /\ DOMAIN corrections' = 1 .. Len(corrections) + 1
              /\ \A i \in DOMAIN corrections : corrections'[i] = corrections[i]
              /\ corrections'[Len(corrections) + 1] = c
<1> DEFINE c == [detection |-> page[o].source, status |-> "PENDING", seen |-> page[o].seen]
<1>1. page[o] \in Page
  BY DEF TypeOK
<1>2. c \in Correction
  BY <1>1 DEF Page, Correction
<1>3. corrections \in Seq(Correction) /\ Len(corrections) < MaxCorrections
  BY DEF TypeOK, Submit
<1>4. corrections' = Append(corrections, c)
  BY DEF Submit
<1>5. c.detection = page[o].source /\ c.status = "PENDING" /\ c.seen = page[o].seen
  OBVIOUS
<1> HIDE DEF c
<1>6. /\ corrections' \in Seq(Correction) /\ Len(corrections') = Len(corrections) + 1
      /\ \A i \in 1 .. Len(corrections) : corrections'[i] = corrections[i]
      /\ corrections'[Len(corrections) + 1] = c
  BY <1>2, <1>3, <1>4, AppendProperties
<1>7. DOMAIN corrections' = 1 .. Len(corrections')
  BY <1>6, LenProperties
<1> QED BY <1>2, <1>3, <1>5, <1>6, <1>7, CorrectionTypes DEF DustAssumption
-----------------------------------------------------------------------------
LEMMA StepTypeOK ==
    ASSUME TypeOK, RowsOfRun, PagesAhead, Next
    PROVE  TypeOK'
<1>1. ASSUME NEW g \in Groups, NEW v \in ValuesOf[g], Detect(g, v) PROVE TypeOK'
  BY <1>1, DetectKeeps DEF TypeOK, Detect
<1>2. ASSUME NEW i \in DOMAIN corrections,
             NEW status \in {"APPLIED", "REJECTED", "FAILED"}, Settle(i, status)
      PROVE  TypeOK'
  <2>1. /\ corrections' \in Seq(Correction) /\ Len(corrections') = Len(corrections)
        /\ view' = view /\ Observe
    BY <1>2, SettleKeeps DEF Settle
  <2>2. handled' \in Moments(Groups) /\ blocked' \in Moments(Ids)
    BY <2>1, ObserveKeeps
  <2> QED BY <1>2, <2>1, <2>2 DEF TypeOK, Settle
<1>3. ASSUME NEW g \in Groups, NEW status \in SentStatuses, Review(g, status) PROVE TypeOK'
  <2>1. view' = view /\ Observe
    BY <1>3 DEF Review
  <2>2. handled' \in Moments(Groups) /\ blocked' \in Moments(Ids)
    BY <2>1, ObserveKeeps
  <2>3. reviewed' \in 0 .. MaxReviews
    BY <1>3 DEF Review, TypeOK, DustAssumption
  <2> DEFINE s == IF status \in Statuses THEN status ELSE "pending"
  <2>4. s \in Statuses
    BY DEF Statuses
  <2>5. reviews' = [reviews EXCEPT ![g] = s]
    BY <1>3 DEF Review
  <2> HIDE DEF s
  <2>6. reviews' \in [Groups -> Statuses]
    BY <2>4, <2>5 DEF TypeOK
  <2> QED BY <1>3, <2>2, <2>3, <2>6 DEF TypeOK, Review
<1>4. ASSUME NEW o \in Operators, NEW g \in Groups, OpenDetail(o, g) PROVE TypeOK'
  BY <1>4, OpenDetailPage, PageUpdate DEF TypeOK, OpenDetail
<1>5. ASSUME NEW o \in Operators, ShowDetail(o) PROVE TypeOK'
  BY <1>5, ShowDetailPage, PageUpdate DEF TypeOK, ShowDetail
<1>6. ASSUME NEW o \in Operators, OpenForm(o) PROVE TypeOK'
  BY <1>6, OpenFormPage, PageUpdate DEF TypeOK, OpenForm
<1>7. ASSUME NEW o \in Operators, Submit(o) PROVE TypeOK'
  <2>1. view' = view /\ Observe /\ page' = [page EXCEPT ![o] = NoPage]
    BY <1>7 DEF Submit
  <2>2. handled' \in Moments(Groups) /\ blocked' \in Moments(Ids)
    BY <2>1, ObserveKeeps
  <2>3. page' \in [Operators -> Page]
    BY <2>1, NoPageType, PageUpdate
  <2>4. corrections' \in Seq(Correction) /\ Len(corrections') <= MaxCorrections
    BY <1>7, SubmitKeeps
  <2> QED BY <1>7, <2>2, <2>3, <2>4 DEF TypeOK, Submit
<1>8. ASSUME Overview PROVE TypeOK'
  <2>1. view' \in View
    BY <1>8, OverviewTypes
  <2>2. UNCHANGED <<detections, reviews, corrections, page, reviewed>>
    BY <1>8 DEF Overview, OverviewRun, OverviewGroups, OverviewLatest, OverviewReviews,
                OverviewCorrections, OverviewSummary, OverviewFails
  <2>3. CASE OverviewRun
    BY <2>1, <2>2, <2>3 DEF OverviewRun, TypeOK, Moments, Now, Handled, Blocked
  <2>4. CASE UNCHANGED <<handled, blocked>>
    BY <2>1, <2>2, <2>4 DEF TypeOK
  <2> QED BY <1>8, <2>3, <2>4 DEF Overview, OverviewGroups, OverviewLatest, OverviewReviews,
                OverviewCorrections, OverviewSummary, OverviewFails
<1> QED BY <1>1, <1>2, <1>3, <1>4, <1>5, <1>6, <1>7, <1>8 DEF Next
-----------------------------------------------------------------------------
\* A page that becomes c keeps PagesAhead if c satisfies it.
LEMMA PageStepAhead ==
    ASSUME TypeOK, PagesAhead, NEW o \in Operators, NEW c \in Page,
           page' = [page EXCEPT ![o] = c], UNCHANGED <<detections, corrections>>,
           c.source \in {0} \cup DOMAIN detections, c.seen <= Len(corrections),
           c.stage \in {"detail", "shown"} => c.source # 0,
           c.stage = "detail" => \A i \in 1 .. c.seen :
              Older(i, c.source) \/ corrections[i].detection = c.source,
           c.stage = "shown" => \A i \in 1 .. c.seen :
              Open(corrections[i]) => Older(i, c.source),
           c.stage = "form" /\ c.source # 0 => \A i \in 1 .. c.seen :
              Open(corrections[i]) => corrections[i].detection # c.source
    PROVE  PagesAhead'
<1>1. page'[o] = c /\ \A p \in Operators : p # o => page'[p] = page[p]
  BY PageUpdate
<1>2. /\ \A i \in DOMAIN corrections : corrections[i].detection \in {0} \cup DOMAIN detections
      /\ \A p \in Operators : page'[p].source \in {0} \cup DOMAIN detections
      /\ \A p \in Operators : page'[p].seen <= Len(corrections)
      /\ \A p \in Operators : page'[p].stage \in {"detail", "shown"} => page'[p].source # 0
  BY <1>1 DEF PagesAhead
<1>3. \A p \in Operators : page'[p].stage = "detail" => \A i \in 1 .. page'[p].seen :
          Older(i, page'[p].source) \/ corrections[i].detection = page'[p].source
  BY <1>1 DEF PagesAhead
<1>4. \A p \in Operators : page'[p].stage = "shown" => \A i \in 1 .. page'[p].seen :
          Open(corrections[i]) => Older(i, page'[p].source)
  BY <1>1 DEF PagesAhead
<1>5. \A p \in Operators : page'[p].stage = "form" /\ page'[p].source # 0 =>
          \A i \in 1 .. page'[p].seen :
              Open(corrections[i]) => corrections[i].detection # page'[p].source
  BY <1>1 DEF PagesAhead
<1> QED BY <1>2, <1>3, <1>4, <1>5 DEF PagesAhead, Older, GroupOf

LEMMA DetectAhead ==
    ASSUME PInv, NEW g \in Groups, NEW v \in ValuesOf[g], Detect(g, v)
    PROVE  PagesAhead' /\ DuplicateOnlyByRace'
<1>1. /\ DOMAIN detections \subseteq DOMAIN detections'
      /\ \A d \in DOMAIN detections : detections'[d] = detections[d]
  BY DetectKeeps DEF PInv
<1>2. UNCHANGED <<corrections, page>>
  BY DEF Detect
<1>3. \A i, d : i \in DOMAIN corrections /\ d \in DOMAIN detections /\ Older(i, d) => Older(i, d)'
  BY <1>1, <1>2 DEF Older, GroupOf, PInv, PagesAhead
<1>4. \A o \in Operators : \A i \in 1 .. page[o].seen : i \in DOMAIN corrections
  <2> TAKE o \in Operators
  <2>1. page[o].seen <= Len(corrections) /\ page[o].seen \in Int
    BY DEF PInv, PagesAhead, TypeOK, Page
  <2> QED BY <2>1, CorrectionTypes DEF PInv
<1>5. \A o \in Operators : page[o].stage = "detail" => \A i \in 1 .. page[o].seen :
          Older(i, page[o].source)' \/ corrections[i].detection = page[o].source
  BY <1>2, <1>3, <1>4 DEF PInv, PagesAhead
<1>6. \A o \in Operators : page[o].stage = "shown" => \A i \in 1 .. page[o].seen :
          Open(corrections[i]) => Older(i, page[o].source)'
  BY <1>2, <1>3, <1>4 DEF PInv, PagesAhead
<1>7. PagesAhead'
  BY <1>1, <1>2, <1>5, <1>6 DEF PInv, PagesAhead
<1>8. DuplicateOnlyByRace'
  BY <1>2 DEF PInv, DuplicateOnlyByRace
<1> QED BY <1>7, <1>8

LEMMA SettleAhead ==
    ASSUME PInv, NEW k \in DOMAIN corrections,
           NEW status \in {"APPLIED", "REJECTED", "FAILED"}, Settle(k, status)
    PROVE  PagesAhead' /\ DuplicateOnlyByRace'
<1>1. /\ DOMAIN corrections' = DOMAIN corrections /\ Len(corrections') = Len(corrections)
      /\ \A j \in DOMAIN corrections :
            /\ corrections'[j].detection = corrections[j].detection
            /\ corrections'[j].seen = corrections[j].seen
            /\ Open(corrections'[j]) => Open(corrections[j])
  BY SettleKeeps DEF PInv
<1>2. UNCHANGED <<detections, page>>
  BY DEF Settle
<1>4. \A o \in Operators : \A i \in 1 .. page[o].seen : i \in DOMAIN corrections
  <2> TAKE o \in Operators
  <2>1. page[o].seen <= Len(corrections) /\ page[o].seen \in Int
    BY DEF PInv, PagesAhead, TypeOK, Page
  <2> QED BY <2>1, CorrectionTypes DEF PInv
<1>5. \A o \in Operators : page[o].stage = "detail" => \A i \in 1 .. page[o].seen :
          Older(i, page[o].source)' \/ corrections'[i].detection = page[o].source
  BY <1>1, <1>2, <1>4 DEF PInv, PagesAhead, Older, GroupOf
<1>9. \A o \in Operators : page[o].stage = "shown" => \A i \in 1 .. page[o].seen :
          Open(corrections'[i]) => Older(i, page[o].source)'
  BY <1>1, <1>2, <1>4 DEF PInv, PagesAhead, Older, GroupOf
<1>6. \A o \in Operators : page[o].stage = "form" /\ page[o].source # 0 =>
          \A i \in 1 .. page[o].seen :
              Open(corrections'[i]) => corrections'[i].detection # page[o].source
  BY <1>1, <1>4 DEF PInv, PagesAhead
<1>7. PagesAhead'
  BY <1>1, <1>2, <1>5, <1>6, <1>9 DEF PInv, PagesAhead
<1>8. DuplicateOnlyByRace'
  BY <1>1 DEF PInv, DuplicateOnlyByRace
<1> QED BY <1>7, <1>8

LEMMA PagesStepAhead ==
    ASSUME PInv, NEW o \in Operators,
           ShowDetail(o) \/ OpenForm(o) \/ \E g \in Groups : OpenDetail(o, g)
    PROVE  PagesAhead'
<1>0. /\ TypeOK /\ PagesAhead /\ page[o] \in Page
      /\ page[o].seen <= Len(corrections) /\ page[o].seen \in Nat
  <2>1. TypeOK /\ PagesAhead
    BY DEF PInv
  <2>2. page[o] \in Page
    BY <2>1 DEF TypeOK
  <2>3. page[o].seen \in Nat
    BY <2>2 DEF Page, DustAssumption
  <2> QED BY <2>1, <2>2, <2>3 DEF PagesAhead
<1>1. UNCHANGED <<detections, corrections>>
  BY DEF ShowDetail, OpenForm, OpenDetail
<1>2. ASSUME NEW g \in Groups, OpenDetail(o, g) PROVE PagesAhead'
  <2>1. PICK c \in Page : /\ page' = [page EXCEPT ![o] = c]
                          /\ c.stage = "detail" /\ c.seen = Len(corrections)
                          /\ c.source \in OfGroup(g) /\ \A e \in OfGroup(g) : e <= c.source
    BY <1>0, <1>2, OpenDetailPage
  <2>2. c.source \in DOMAIN detections /\ GroupOf(c.source) = g
    BY <2>1 DEF OfGroup, GroupOf
  <2>3. c.source # 0 /\ c.source \in Int /\ c.seen <= Len(corrections)
    BY <1>0, <2>1, <2>2, DetectionTypes, CorrectionTypes DEF Ids
  <2>4. ASSUME NEW i \in 1 .. c.seen
        PROVE  Older(i, c.source) \/ corrections[i].detection = c.source
    <3>1. corrections[i].detection \in {0} \cup DOMAIN detections
      BY <1>0, <2>1, CorrectionTypes DEF PagesAhead
    <3>2. corrections[i].detection # 0 /\ GroupOf(corrections[i].detection) = g
              => corrections[i].detection \in OfGroup(g) /\ corrections[i].detection \in Int
      BY <1>0, <3>1, DetectionTypes DEF OfGroup, GroupOf
    <3> QED BY <2>1, <2>2, <2>3, <3>2 DEF Older
  <2> QED BY <1>0, <1>1, <2>1, <2>2, <2>3, <2>4, PageStepAhead
<1>3. ASSUME ShowDetail(o) PROVE PagesAhead'
  <2>1. PICK c \in Page : /\ page' = [page EXCEPT ![o] = c]
                          /\ \/ c = NoPage
                             \/ c.stage = "shown" /\ c.source = page[o].source
                                /\ page[o].source \notin Blocked /\ c.seen = page[o].seen
                             \/ c.stage = "shown" /\ c.source = page[o].source /\ c.seen = 0
    BY <1>0, <1>3, ShowDetailPage
  <2>2. page[o].stage = "detail" /\ page[o].source \in DOMAIN detections /\ page[o].source # 0
    BY <1>0, <1>3 DEF ShowDetail, PagesAhead
  <2>3. CASE c = NoPage
    <3>1. c.stage = "none" /\ c.source = 0 /\ c.seen = 0 /\ c.seen <= Len(corrections)
      BY <1>0, <2>3, CorrectionTypes DEF NoPage
    <3>2. page' = [page EXCEPT ![o] = c]
      BY <2>1
    <3> QED BY <1>0, <1>1, <3>1, <3>2, PageStepAhead
  <2>4. CASE c.stage = "shown" /\ c.source = page[o].source /\ c.seen = 0
    <3>1. c.seen <= Len(corrections) /\ \A i : i \notin 1 .. c.seen
      BY <1>0, <2>4, CorrectionTypes
    <3>2. page' = [page EXCEPT ![o] = c]
      BY <2>1
    <3> HIDE DEF Older
    <3> QED BY <1>0, <1>1, <2>2, <2>4, <3>1, <3>2, PageStepAhead
  <2>5. CASE c.stage = "shown" /\ c.source = page[o].source
             /\ page[o].source \notin Blocked /\ c.seen = page[o].seen
    <3>1. ASSUME NEW i \in 1 .. c.seen, Open(corrections[i]) PROVE Older(i, c.source)
      <4>1. Older(i, c.source) \/ corrections[i].detection = c.source
        BY <1>0, <2>2, <2>5 DEF PagesAhead
      <4>2. i \in DOMAIN corrections /\ c.source \in Ids
        BY <1>0, <2>2, <2>5, CorrectionTypes, DetectionTypes
      <4>3. corrections[i].detection # c.source
        BY <2>5, <3>1, <4>2 DEF Blocked
      <4> QED BY <4>1, <4>3
    <3> QED BY <1>0, <1>1, <2>1, <2>2, <2>5, <3>1, PageStepAhead
  <2> QED BY <2>1, <2>3, <2>4, <2>5
<1>4. ASSUME OpenForm(o) PROVE PagesAhead'
  <2>1. PICK c \in Page : /\ page' = [page EXCEPT ![o] = c]
                          /\ c.stage = "form" /\ c.seen = page[o].seen
                          /\ \/ c.source = 0
                             \/ /\ c.source \in DOMAIN detections /\ page[o].source <= c.source
                                /\ GroupOf(c.source) = GroupOf(page[o].source)
    BY <1>0, <1>4, OpenFormPage
  <2>2. page[o].stage = "shown" /\ page[o].source \in DOMAIN detections
    BY <1>0, <1>4 DEF OpenForm, PagesAhead
  <2>3. ASSUME NEW i \in 1 .. c.seen, Open(corrections[i]), c.source # 0
        PROVE  corrections[i].detection # c.source
    <3>1. Older(i, page[o].source)
      BY <1>0, <2>1, <2>2, <2>3 DEF PagesAhead
    <3>2. c.source \in Int /\ page[o].source \in Int /\ page[o].source <= c.source
      BY <1>0, <2>1, <2>2, <2>3, DetectionTypes
    <3> QED BY <2>1, <2>3, <3>1, <3>2 DEF Older
  <2> QED BY <1>0, <1>1, <2>1, <2>3, PageStepAhead
<1> QED BY <1>2, <1>3, <1>4

LEMMA SubmitAhead ==
    ASSUME PInv, NEW o \in Operators, Submit(o)
    PROVE  PagesAhead' /\ DuplicateOnlyByRace'
<1>0. TypeOK /\ PagesAhead /\ DuplicateOnlyByRace
  BY DEF PInv
<1>1. PICK c \in Correction :
              /\ c.detection = page[o].source /\ c.status = "PENDING" /\ c.seen = page[o].seen
              /\ corrections' \in Seq(Correction) /\ Len(corrections') = Len(corrections) + 1
              /\ Len(corrections') <= MaxCorrections
              /\ DOMAIN corrections' = 1 .. Len(corrections) + 1
              /\ \A i \in DOMAIN corrections : corrections'[i] = corrections[i]
              /\ corrections'[Len(corrections) + 1] = c
  BY <1>0, SubmitKeeps
<1>2. /\ page'[o] = NoPage /\ \A p \in Operators : p # o => page'[p] = page[p]
      /\ UNCHANGED detections
  BY <1>0, NoPageType, PageUpdate DEF Submit
<1>3. \A p \in Operators : /\ page[p].seen <= Len(corrections) /\ page[p].seen \in Int
                           /\ \A i \in 1 .. page[p].seen : i \in DOMAIN corrections
  <2> TAKE p \in Operators
  <2>1. page[p].seen <= Len(corrections) /\ page[p].seen \in Int
    BY <1>0 DEF PagesAhead, TypeOK, Page
  <2> QED BY <1>0, <2>1, CorrectionTypes
<1>5. NoPage.stage = "none" /\ NoPage.source = 0 /\ NoPage.seen = 0
  BY DEF NoPage
<1>6. /\ \A i \in DOMAIN corrections' : corrections'[i].detection \in {0} \cup DOMAIN detections
      /\ \A p \in Operators : page'[p].source \in {0} \cup DOMAIN detections
  <2>1. c.detection \in {0} \cup DOMAIN detections
    BY <1>0, <1>1 DEF PagesAhead
  <2>2. \A i \in DOMAIN corrections' : i \in DOMAIN corrections \/ corrections'[i] = c
    BY <1>0, <1>1, CorrectionTypes
  <2> QED BY <1>0, <1>1, <1>2, <1>5, <2>1, <2>2 DEF PagesAhead
<1>7. /\ \A p \in Operators : page'[p].seen <= Len(corrections')
      /\ \A p \in Operators : page'[p].stage \in {"detail", "shown"} => page'[p].source # 0
  <2>1. Len(corrections) \in Nat
    BY <1>0, CorrectionTypes
  <2>2. \A p \in Operators : page'[p].seen <= Len(corrections) + 1
    BY <1>2, <1>3, <1>5, <2>1
  <2>3. \A p \in Operators : page'[p].stage \in {"detail", "shown"} => page'[p].source # 0
    BY <1>0, <1>2, <1>5 DEF PagesAhead
  <2> QED BY <1>1, <2>2, <2>3
<1>8. \A p \in Operators : page'[p].stage = "detail" => \A i \in 1 .. page'[p].seen :
          Older(i, page[p].source)' \/ corrections'[i].detection = page'[p].source
  <2> SUFFICES ASSUME NEW p \in Operators, page'[p].stage = "detail", NEW i \in 1 .. page'[p].seen
               PROVE  Older(i, page[p].source)' \/ corrections'[i].detection = page'[p].source
    OBVIOUS
  <2>1. p # o /\ page'[p] = page[p]
    BY <1>2, <1>5
  <2>2. i \in DOMAIN corrections /\ corrections'[i] = corrections[i]
    BY <1>1, <1>3, <2>1
  <2>3. Older(i, page[p].source) \/ corrections[i].detection = page[p].source
    BY <1>0, <2>1 DEF PagesAhead
  <2> QED BY <1>2, <2>1, <2>2, <2>3 DEF Older, GroupOf
<1>9. \A p \in Operators : page'[p].stage = "shown" => \A i \in 1 .. page'[p].seen :
          Open(corrections'[i]) => Older(i, page[p].source)'
  BY <1>0, <1>1, <1>2, <1>3, <1>5 DEF PagesAhead, Older, GroupOf
<1>10. \A p \in Operators : page'[p].stage = "form" /\ page'[p].source # 0 =>
          \A i \in 1 .. page'[p].seen :
              Open(corrections'[i]) => corrections'[i].detection # page'[p].source
  BY <1>0, <1>1, <1>2, <1>3, <1>5 DEF PagesAhead
<1>11. PagesAhead'
  BY <1>2, <1>6, <1>7, <1>8, <1>9, <1>10 DEF PagesAhead
<1>12. DuplicateOnlyByRace'
  <2> SUFFICES ASSUME NEW i \in DOMAIN corrections', NEW j \in DOMAIN corrections',
                      i < j, Open(corrections'[i]),
                      corrections'[i].detection = corrections'[j].detection,
                      corrections'[i].detection # 0
               PROVE  i > corrections'[j].seen
    BY DEF DuplicateOnlyByRace
  <2>1. i \in DOMAIN corrections /\ corrections'[i] = corrections[i]
    BY <1>0, <1>1, CorrectionTypes
  <2>2. CASE j \in DOMAIN corrections
    BY <1>0, <1>1, <2>1, <2>2 DEF DuplicateOnlyByRace
  <2>3. CASE j = Len(corrections) + 1
    <3>1. page[o].stage = "form"
      BY DEF Submit
    <3>2. corrections[i].detection = page[o].source /\ page[o].source # 0
      BY <1>1, <2>1, <2>3
    <3>3. i \notin 1 .. page[o].seen
      BY <1>0, <2>1, <3>1, <3>2 DEF PagesAhead
    <3>4. i \in Nat \ {0}
      BY <1>0, <2>1, CorrectionTypes
    <3> QED BY <1>1, <1>3, <2>3, <3>3, <3>4
  <2> QED BY <1>0, <1>1, <2>2, <2>3, CorrectionTypes
<1> QED BY <1>11, <1>12
-----------------------------------------------------------------------------
LEMMA OneRun ==
    ASSUME TypeOK, RowsOfRun
    PROVE  OneRunShown
<1> SUFFICES ASSUME At("done"), ~view.error,
                    NEW d \in {r.id : r \in view.rows} \cup ({view.latest} \ {0})
             PROVE  detections[d].run = view.run /\ d <= view.latest
  BY DEF OneRunShown
<1>1. view.latest \in Int
  BY DEF TypeOK, View
<1>2. d \in OfRun(view.run) /\ d <= view.latest
  BY <1>1 DEF RowsOfRun
<1> QED BY <1>2 DEF OfRun

\* The steps that leave the reading where it is.
LEMMA WritersObserved ==
    ASSUME OInv, UNCHANGED <<detections, view>>, Observe
    PROVE  Observed' /\ CriticalRows' /\ RowsOfRun' /\ ActiveSoFar' /\ CriticalSoFar'
<1>1. /\ handled.ever \subseteq handled'.ever /\ handled'.always \subseteq handled.always
      /\ blocked.ever \subseteq blocked'.ever /\ blocked'.always \subseteq blocked.always
      /\ Observed'
  BY ObserveKeeps DEF OInv
<1>2. CriticalRows'
  BY DEF OInv, CriticalRows
<1>3. RowsOfRun'
  BY DEF OInv, RowsOfRun, OfRun, OfGroup, At
<1>4. ActiveSoFar'
  BY <1>1 DEF OInv, ActiveSoFar, Selected
<1>5. CriticalSoFar'
  BY <1>1 DEF OInv, CriticalSoFar, Selected
<1> QED BY <1>1, <1>2, <1>3, <1>4, <1>5

LEMMA PagesObserved ==
    ASSUME OInv, UNCHANGED <<detections, reviews, corrections, view, handled, blocked>>
    PROVE  Observed' /\ CriticalRows' /\ RowsOfRun' /\ ActiveSoFar' /\ CriticalSoFar'
<1>1. Observed'
  BY DEF OInv, Observed, Reading, Handled, Blocked
<1>2. CriticalRows'
  BY DEF OInv, CriticalRows
<1>3. RowsOfRun'
  BY DEF OInv, RowsOfRun, OfRun, OfGroup, At
<1>4. ActiveSoFar' /\ CriticalSoFar'
  BY DEF OInv, ActiveSoFar, CriticalSoFar, Selected
<1> QED BY <1>1, <1>2, <1>3, <1>4

LEMMA DetectObserved ==
    ASSUME OInv, NEW g \in Groups, NEW v \in ValuesOf[g], Detect(g, v)
    PROVE  Observed' /\ CriticalRows' /\ RowsOfRun' /\ ActiveSoFar' /\ CriticalSoFar'
<1>1. UNCHANGED <<reviews, corrections, page, view, handled, blocked, reviewed>>
  BY DEF Detect
<1>2. /\ DOMAIN detections \subseteq DOMAIN detections'
      /\ \A d \in DOMAIN detections : detections'[d] = detections[d]
  BY DetectKeeps DEF OInv
<1>4. Observed'
  BY <1>1 DEF OInv, Observed, Reading, Handled, Blocked
<1>5. CriticalRows'
  BY <1>1 DEF OInv, CriticalRows
<1>6. RowsOfRun'
  <2>1. ASSUME view.pc = "latest", NEW r \in view.rows
        PROVE  (OfRun(view.run) \cap OfGroup(r.group))' # {}
    <3>1. PICK d \in OfRun(view.run) : d \in OfGroup(r.group)
      BY <2>1 DEF OInv, RowsOfRun
    <3>2. d \in OfRun(view.run)' /\ d \in OfGroup(r.group)'
      BY <1>1, <1>2, <3>1 DEF OfRun, OfGroup
    <3> QED BY <3>2
  <2>2. \A d : d \in OfRun(view.run) => d \in OfRun(view.run)'
    BY <1>1, <1>2 DEF OfRun
  <2>3. RowsOfRun
    BY DEF OInv
  <2> HIDE DEF OfRun
  <2> QED BY <1>1, <2>1, <2>2, <2>3 DEF RowsOfRun, At
<1>7. ActiveSoFar' /\ CriticalSoFar'
  BY <1>1 DEF OInv, ActiveSoFar, CriticalSoFar, Selected
<1> QED BY <1>4, <1>5, <1>6, <1>7
-----------------------------------------------------------------------------
\* The steps of the reading.
Kept == Observed /\ CriticalRows /\ RowsOfRun /\ ActiveSoFar /\ CriticalSoFar

LEMMA RunObserved ==
    ASSUME OInv, OverviewRun
    PROVE  Kept'
<1>1. view \in View /\ TypeOK /\ RowsOfRun /\ view.pc = "idle"
  BY DEF OInv, TypeOK, OverviewRun, At
<1>2. /\ view'.pc = "groups" /\ view'.rows = {} /\ view'.active = {}
      /\ view.rows = {} /\ view.active = {}
  BY <1>1 DEF OverviewRun, View, RowsOfRun
<1>3. Observed'
  <2>1. UNCHANGED <<reviews, corrections>> /\ handled' = Now(Handled) /\ blocked' = Now(Blocked)
    BY DEF OverviewRun
  <2> QED BY <2>1 DEF Observed, Now, Handled, Blocked
<1>4. RowsOfRun'
  BY <1>2, FS_EmptySet DEF RowsOfRun, At
<1> QED BY <1>2, <1>3, <1>4 DEF Kept, CriticalRows, ActiveSoFar, CriticalSoFar, Selected

LEMMA GroupsObserved ==
    ASSUME OInv, OverviewGroups
    PROVE  Kept'
<1> DEFINE C == Candidates
           found == {r.group : r \in C}
           rows == First(C, HOMEPAGE_GROUP_CANDIDATE_LIMIT, CandidateKey(C))
<1>1. view \in View /\ TypeOK /\ RowsOfRun /\ view.pc = "groups"
  BY DEF OInv, TypeOK, OverviewGroups, At
<1>2. view' = [view EXCEPT !.pc = "latest", !.found = found, !.rows = rows]
  BY DEF OverviewGroups
<1>3. /\ C \in SUBSET GroupRow /\ IsFiniteSet(C)
      /\ \A g \in found : \E r \in C : r.group = g
      /\ \A r \in C : OfRun(view.run) \cap OfGroup(r.group) # {}
  BY <1>1, CandidatesType
<1>4. rows \subseteq C /\ IsFiniteSet(rows)
  BY <1>3, FirstFinite
<1>5. ASSUME NEW r \in rows, SeverityOf[r.group] # "critical",
             NEW g \in found, SeverityOf[g] = "critical"
      PROVE  \E s \in rows : s.group = g
  <2>1. PICK s \in C : s.group = g
    BY <1>3
  <2>2. s \in rows
    BY <1>3, <1>5, <2>1, CutKeepsCritical DEF DustAssumption
  <2> QED BY <2>1, <2>2
<1>6. UNCHANGED <<detections, reviews, corrections, page, handled, blocked, reviewed>>
  BY DEF OverviewGroups
<1> HIDE DEF C, found, rows
<1>7. /\ view'.pc = "latest" /\ view'.found = found /\ view'.rows = rows
      /\ view'.active = view.active /\ view'.run = view.run
  BY <1>1, <1>2 DEF View
<1>8. CriticalRows'
  BY <1>5, <1>7 DEF CriticalRows
<1>9. Observed'
  BY <1>1, <1>6, <1>7 DEF OInv, Observed, Reading, Handled, Blocked
<1>10. RowsOfRun'
  <2>1. view.active = {}
    BY <1>1 DEF RowsOfRun
  <2>2. \A r \in rows : (OfRun(view.run) \cap OfGroup(r.group))' # {}
    BY <1>3, <1>4, <1>6, <1>7 DEF OfRun, OfGroup
  <2> QED BY <1>4, <1>7, <2>1, <2>2 DEF RowsOfRun, At
<1> QED BY <1>7, <1>8, <1>9, <1>10 DEF Kept, ActiveSoFar, CriticalSoFar, Selected

LEMMA LatestObserved ==
    ASSUME OInv, OverviewLatest
    PROVE  Kept'
<1> DEFINE W == WithLatest
           rows == First(W, HOMEPAGE_GROUP_LIMIT, GroupKey(W))
<1>1. view \in View /\ TypeOK /\ RowsOfRun /\ CriticalRows /\ view.pc = "latest"
  BY DEF OInv, TypeOK, OverviewLatest, At
<1>2. view' = [view EXCEPT !.pc = "reviews", !.rows = rows]
  BY DEF OverviewLatest
<1>3. /\ W \in SUBSET GroupRow /\ IsFiniteSet(W)
      /\ \A s \in W : s.id \in OfRun(view.run)
      /\ \A r \in view.rows : \E s \in W : s.group = r.group
      /\ \A s \in W : \E r \in view.rows : s.group = r.group
  BY <1>1, WithLatestType
<1>4. rows \subseteq W /\ IsFiniteSet(rows)
  BY <1>3, FirstFinite
<1>5. ASSUME NEW r \in rows, SeverityOf[r.group] # "critical",
             NEW g \in view.found, SeverityOf[g] = "critical"
      PROVE  \E s \in rows : s.group = g
  <2>1. PICK q \in view.rows : q.group = r.group
    BY <1>3, <1>4
  <2>2. PICK p \in view.rows : p.group = g
    BY <1>1, <1>5, <2>1 DEF CriticalRows
  <2>3. PICK s \in W : s.group = g
    BY <1>3, <2>2
  <2>4. s \in rows
    BY <1>3, <1>5, <2>3, CutKeepsCritical DEF DustAssumption
  <2> QED BY <2>3, <2>4
<1>6. UNCHANGED <<detections, reviews, corrections, page, handled, blocked, reviewed>>
  BY DEF OverviewLatest
<1> HIDE DEF W, rows
<1>7. /\ view'.pc = "reviews" /\ view'.found = view.found /\ view'.rows = rows
      /\ view'.active = view.active /\ view'.run = view.run
  BY <1>1, <1>2 DEF View
<1>8. CriticalRows'
  BY <1>5, <1>7 DEF CriticalRows
<1>9. Observed'
  BY <1>1, <1>6, <1>7 DEF OInv, Observed, Reading, Handled, Blocked
<1>10. RowsOfRun'
  <2>1. view.active = {}
    BY <1>1 DEF RowsOfRun
  <2>2. \A r \in rows : r.id \in OfRun(view.run)'
    BY <1>3, <1>4, <1>6, <1>7 DEF OfRun
  <2> HIDE DEF OfRun
  <2> QED BY <1>4, <1>7, <2>1, <2>2 DEF RowsOfRun, At
<1> QED BY <1>7, <1>8, <1>9, <1>10 DEF Kept, ActiveSoFar, CriticalSoFar, Selected

LEMMA ReviewsObserved ==
    ASSUME OInv, OverviewReviews
    PROVE  Kept'
<1>1. view \in View /\ TypeOK /\ RowsOfRun /\ CriticalRows /\ Observed /\ view.pc = "reviews"
  BY DEF OInv, TypeOK, OverviewReviews, At
<1>2. PICK fails \in {view.rows # {}, FALSE} :
          LET rows == Unreviewed(IF fails THEN {} ELSE Handled)  IN
          view' = [view EXCEPT !.pc = "corrections", !.unreviewed = fails,
                               !.active = First(rows, ACTIVE_OPERATIONAL_ISSUES_LIMIT, ActiveKey(rows))]
  BY DEF OverviewReviews
<1> DEFINE done == IF fails THEN {} ELSE Handled
           U == Unreviewed(done)
           active == First(U, ACTIVE_OPERATIONAL_ISSUES_LIMIT, ActiveKey(U))
<1>3. view' = [view EXCEPT !.pc = "corrections", !.unreviewed = fails, !.active = active]
  BY <1>2
<1>4. U \subseteq view.rows /\ IsFiniteSet(U) /\ U \in SUBSET GroupRow
  BY <1>1, FS_Subset DEF Unreviewed, RowsOfRun, View
<1>5. active \subseteq U
  BY DEF First
<1>6. \A r \in active : /\ SeverityOf[r.group] \in {"critical", "warning"}
                        /\ r.group \notin done
  BY <1>5 DEF Unreviewed
<1>7. ASSUME NEW r \in active, SeverityOf[r.group] # "critical",
             NEW g \in view.found, SeverityOf[g] = "critical"
      PROVE  (\E s \in active : s.group = g) \/ g \in done
  <2>1. r \in view.rows
    BY <1>4, <1>5
  <2>2. PICK s \in view.rows : s.group = g
    BY <1>1, <1>7, <2>1 DEF CriticalRows
  <2>3. CASE s \in U
    <3>1. s \in active
      BY <1>4, <1>7, <2>2, <2>3, CutKeepsCritical DEF ActiveKey, DustAssumption
    <3> QED BY <2>2, <3>1
  <2>4. CASE s \notin U
    BY <1>7, <2>2, <2>4 DEF Unreviewed
  <2> QED BY <2>3, <2>4
<1>8. UNCHANGED <<detections, reviews, corrections, page, handled, blocked, reviewed>>
  BY DEF OverviewReviews
<1>9. done \subseteq handled.ever /\ (~fails => handled.always \subseteq done)
  BY <1>1 DEF Observed, Reading
<1> HIDE DEF done, U, active
<1>10. /\ view'.pc = "corrections" /\ view'.unreviewed = fails /\ view'.active = active
       /\ view'.found = view.found /\ view'.rows = view.rows /\ view'.run = view.run
  BY <1>1, <1>3 DEF View
<1>11. CriticalRows'
  BY <1>1, <1>10 DEF CriticalRows
<1>12. Observed'
  BY <1>1, <1>8, <1>10 DEF Observed, Reading, Handled, Blocked
<1>13. RowsOfRun'
  <2>1. active \subseteq view.rows
    BY <1>4, <1>5
  <2>2. \A r \in view.rows : r.id \in OfRun(view.run)'
    BY <1>1, <1>8, <1>10 DEF RowsOfRun, OfRun
  <2> HIDE DEF OfRun
  <2> QED BY <1>1, <1>10, <2>1, <2>2 DEF RowsOfRun, At
<1>14. ActiveSoFar'
  BY <1>6, <1>8, <1>9, <1>10 DEF ActiveSoFar
<1>15. CriticalSoFar'
  BY <1>7, <1>8, <1>9, <1>10 DEF CriticalSoFar
<1> QED BY <1>11, <1>12, <1>13, <1>14, <1>15 DEF Kept

LEMMA CorrectionsObserved ==
    ASSUME OInv, OverviewCorrections
    PROVE  Kept'
<1>1. /\ view \in View /\ TypeOK /\ RowsOfRun /\ CriticalRows /\ Observed
      /\ ActiveSoFar /\ CriticalSoFar /\ view.pc = "corrections"
  BY DEF OInv, TypeOK, OverviewCorrections, At
<1>2. PICK fails \in {view.active # {}, FALSE} :
          view' = [view EXCEPT !.pc = "summary", !.uncorrected = fails,
                               !.active = {r \in view.active : fails \/ r.id \notin Blocked}]
  BY DEF OverviewCorrections
<1> DEFINE active == {r \in view.active : fails \/ r.id \notin Blocked}
<1>3. view' = [view EXCEPT !.pc = "summary", !.uncorrected = fails, !.active = active]
  BY <1>2
<1>4. active \subseteq view.active /\ (~fails => \A r \in active : r.id \notin Blocked)
  OBVIOUS
<1>5. \A r \in view.active : r \in active \/ r.id \in Blocked
  OBVIOUS
<1>6. UNCHANGED <<detections, reviews, corrections, page, handled, blocked, reviewed>>
  BY DEF OverviewCorrections
<1>7. Blocked \subseteq blocked.ever /\ blocked.always \subseteq Blocked
  BY <1>1 DEF Observed, Reading
<1> HIDE DEF active
<1>8. /\ view'.pc = "summary" /\ view'.uncorrected = fails /\ view'.active = active
      /\ view'.unreviewed = view.unreviewed
      /\ view'.found = view.found /\ view'.rows = view.rows /\ view'.run = view.run
  BY <1>1, <1>3 DEF View
<1>9. CriticalRows'
  BY <1>1, <1>8 DEF CriticalRows
<1>10. Observed'
  BY <1>1, <1>6, <1>8 DEF Observed, Reading, Handled, Blocked
<1>11. RowsOfRun'
  <2>1. active \subseteq view.rows
    BY <1>1, <1>4 DEF RowsOfRun
  <2>2. \A r \in view.rows : r.id \in OfRun(view.run)'
    BY <1>1, <1>6, <1>8 DEF RowsOfRun, OfRun
  <2> HIDE DEF OfRun
  <2> QED BY <1>1, <1>8, <2>1, <2>2 DEF RowsOfRun, At
<1>12. ActiveSoFar'
  BY <1>1, <1>4, <1>6, <1>7, <1>8 DEF ActiveSoFar, Selected
<1>13. CriticalSoFar'
  <2> SUFFICES ASSUME NEW r \in active, SeverityOf[r.group] # "critical",
                      NEW g \in view.found, SeverityOf[g] = "critical"
               PROVE  \/ \E s \in active : s.group = g
                      \/ g \in handled.ever
                      \/ \E s \in view.rows : s.group = g /\ s.id \in blocked.ever
    BY <1>6, <1>8 DEF CriticalSoFar
  <2>1. \/ \E s \in view.active : s.group = g
        \/ g \in handled.ever
        \/ \E s \in view.rows : s.group = g /\ s.id \in blocked.ever
    BY <1>1, <1>4 DEF CriticalSoFar, Selected
  <2>2. view.active \subseteq view.rows
    BY <1>1 DEF RowsOfRun
  <2> QED BY <1>5, <1>7, <2>1, <2>2
<1> QED BY <1>9, <1>10, <1>11, <1>12, <1>13 DEF Kept

LEMMA DoneObserved ==
    ASSUME OInv, OverviewSummary \/ OverviewFails
    PROVE  Kept'
<1>1. /\ view \in View /\ TypeOK /\ RowsOfRun /\ ActiveSoFar /\ CriticalSoFar
      /\ view.pc \in {"idle", "groups", "latest", "summary"}
  BY DEF OInv, TypeOK, OverviewSummary, OverviewFails, At
<1>2. /\ view'.pc = "done" /\ view'.active = view.active /\ view'.rows = view.rows
      /\ view'.found = view.found /\ view'.run = view.run
      /\ view'.unreviewed = view.unreviewed /\ view'.uncorrected = view.uncorrected
  BY <1>1 DEF OverviewSummary, OverviewFails, View
<1>3. UNCHANGED <<detections, reviews, corrections, page, handled, blocked, reviewed>>
  BY DEF OverviewSummary, OverviewFails
<1>4. view.pc # "summary" => view.active = {}
  BY <1>1 DEF RowsOfRun
<1>5. CriticalRows' /\ Observed'
  BY <1>2 DEF CriticalRows, Observed, Reading
<1>6. ActiveSoFar' /\ CriticalSoFar'
  BY <1>1, <1>2, <1>3, <1>4 DEF ActiveSoFar, CriticalSoFar, Selected
<1>7. CASE OverviewFails
  <2>1. view'.error = TRUE
    BY <1>1, <1>7 DEF OverviewFails, View
  <2>2. RowsOfRun'
    BY <1>1, <1>2, <2>1 DEF RowsOfRun, At
  <2> QED BY <1>5, <1>6, <2>2 DEF Kept
<1>8. CASE OverviewSummary
  <2> DEFINE latest == IF OfRun(view.run) = {} THEN 0 ELSE Latest(OfRun(view.run))
  <2>1. view.pc = "summary" /\ view'.latest = latest
    BY <1>1, <1>8 DEF OverviewSummary, View, At
  <2>2. OfRun(view.run) \subseteq DOMAIN detections
    BY DEF OfRun
  <2>3. latest \in {0} \cup OfRun(view.run) /\ \A d \in OfRun(view.run) : d <= latest
    BY <1>1, <2>2, LatestType
  <2>4. \A r \in view.rows : r.id \in OfRun(view.run) /\ r.id <= latest
    BY <1>1, <2>1, <2>3 DEF RowsOfRun
  <2>5. OfRun(view.run)' = OfRun(view.run)
    BY <1>2, <1>3 DEF OfRun
  <2> HIDE DEF latest, OfRun
  <2>6. RowsOfRun'
    BY <1>1, <1>2, <2>1, <2>3, <2>4, <2>5 DEF RowsOfRun, At
  <2> QED BY <1>5, <1>6, <2>6 DEF Kept
<1> QED BY <1>7, <1>8
-----------------------------------------------------------------------------
DInv == OInv /\ PInv

LEMMA InitDInv == Init => DInv
<1> SUFFICES ASSUME Init PROVE DInv
  OBVIOUS
<1>1. TypeOK
  BY InitTypeOK
<1>2. /\ view.pc = "idle" /\ view.rows = {} /\ view.active = {} /\ DOMAIN corrections = {}
  BY EmptySeq DEF Init, NoView
<1>3. OInv
  BY <1>1, <1>2, FS_EmptySet DEF OInv, Observed, CriticalRows, RowsOfRun, ActiveSoFar,
        CriticalSoFar, Reading, Selected, At
<1>4. \A o \in Operators : page[o].stage = "none" /\ page[o].source = 0 /\ page[o].seen = 0
  BY DEF Init, NoPage
<1>5. Len(corrections) = 0
  BY EmptySeq DEF Init
<1>6. PInv
  BY <1>1, <1>2, <1>4, <1>5 DEF PInv, PagesAhead, DuplicateOnlyByRace
<1> QED BY <1>3, <1>6 DEF DInv

LEMMA StepDInv ==
    ASSUME DInv, [Next]_vars
    PROVE  DInv'
<1>1. TypeOK /\ RowsOfRun /\ PagesAhead /\ DuplicateOnlyByRace /\ OInv /\ PInv
  BY DEF DInv, OInv, PInv
<1>2. CASE UNCHANGED vars
  <2>1. TypeOK'
    BY <1>1, <1>2 DEF vars, TypeOK
  <2>2. Kept'
    BY <1>1, <1>2, PagesObserved DEF vars, Kept
  <2>3. PagesAhead' /\ DuplicateOnlyByRace'
    BY <1>1, <1>2 DEF vars, PagesAhead, DuplicateOnlyByRace, Older, GroupOf
  <2> QED BY <2>1, <2>2, <2>3 DEF DInv, OInv, PInv, Kept
<1>3. CASE Next
  <2>0. TypeOK'
    BY <1>1, <1>3, StepTypeOK
  <2> SUFFICES Kept' /\ PagesAhead' /\ DuplicateOnlyByRace'
    BY <2>0 DEF DInv, OInv, PInv, Kept
  <2>1. ASSUME NEW g \in Groups, NEW v \in ValuesOf[g], Detect(g, v)
        PROVE  Kept' /\ PagesAhead' /\ DuplicateOnlyByRace'
    BY <1>1, <2>1, DetectObserved, DetectAhead DEF Kept
  <2>2. ASSUME NEW i \in DOMAIN corrections,
               NEW status \in {"APPLIED", "REJECTED", "FAILED"}, Settle(i, status)
        PROVE  Kept' /\ PagesAhead' /\ DuplicateOnlyByRace'
    <3>1. UNCHANGED <<detections, view>> /\ Observe
      BY <2>2 DEF Settle
    <3> QED BY <1>1, <2>2, <3>1, WritersObserved, SettleAhead DEF Kept
  <2>3. ASSUME NEW g \in Groups, NEW status \in SentStatuses, Review(g, status)
        PROVE  Kept' /\ PagesAhead' /\ DuplicateOnlyByRace'
    <3>1. UNCHANGED <<detections, corrections, page, view>> /\ Observe
      BY <2>3 DEF Review
    <3>2. Kept'
      BY <1>1, <3>1, WritersObserved DEF Kept
    <3>3. PagesAhead' /\ DuplicateOnlyByRace'
      BY <1>1, <3>1 DEF PagesAhead, DuplicateOnlyByRace, Older, GroupOf
    <3> QED BY <3>2, <3>3
  <2>4. ASSUME NEW o \in Operators,
               ShowDetail(o) \/ OpenForm(o) \/ \E g \in Groups : OpenDetail(o, g)
        PROVE  Kept' /\ PagesAhead' /\ DuplicateOnlyByRace'
    <3>1. UNCHANGED <<detections, reviews, corrections, view, handled, blocked>>
      BY <2>4 DEF ShowDetail, OpenForm, OpenDetail
    <3>2. Kept'
      BY <1>1, <3>1, PagesObserved DEF Kept
    <3>3. PagesAhead'
      BY <1>1, <2>4, PagesStepAhead
    <3>4. DuplicateOnlyByRace'
      BY <1>1, <3>1 DEF DuplicateOnlyByRace
    <3> QED BY <3>2, <3>3, <3>4
  <2>5. ASSUME NEW o \in Operators, Submit(o)
        PROVE  Kept' /\ PagesAhead' /\ DuplicateOnlyByRace'
    <3>1. UNCHANGED <<detections, view>> /\ Observe
      BY <2>5 DEF Submit
    <3> QED BY <1>1, <2>5, <3>1, WritersObserved, SubmitAhead DEF Kept
  <2>6. ASSUME Overview PROVE Kept' /\ PagesAhead' /\ DuplicateOnlyByRace'
    <3>1. UNCHANGED <<detections, corrections, page>>
      BY <2>6 DEF Overview, OverviewRun, OverviewGroups, OverviewLatest, OverviewReviews,
                  OverviewCorrections, OverviewSummary, OverviewFails
    <3>2. Kept'
      BY <1>1, <2>6, RunObserved, GroupsObserved, LatestObserved, ReviewsObserved,
         CorrectionsObserved, DoneObserved DEF Overview
    <3>3. PagesAhead' /\ DuplicateOnlyByRace'
      BY <1>1, <3>1 DEF PagesAhead, DuplicateOnlyByRace, Older, GroupOf
    <3> QED BY <3>2, <3>3
  <2> QED BY <1>3, <2>1, <2>2, <2>3, <2>4, <2>5, <2>6 DEF Next
<1> QED BY <1>2, <1>3

LEMMA AlwaysDInv == Spec => []DInv
<1>1. Init => DInv
  BY InitDInv
<1>2. DInv /\ [Next]_vars => DInv'
  BY StepDInv
<1> QED BY <1>1, <1>2, PTL DEF Spec

(***************************************************************************)
(* Detections, reviews, corrections and readings stay what their types     *)
(* say, and a review has one of the statuses there are whatever is sent.   *)
(***************************************************************************)
THEOREM DustTypes == Spec => []TypeOK
<1>1. DInv => TypeOK
  BY DEF DInv, OInv
<1> QED BY <1>1, AlwaysDInv, PTL

(***************************************************************************)
(* The overview lists nothing that was resolved throughout its reading,    *)
(* whatever was written between its six queries.                           *)
(***************************************************************************)
THEOREM UnresolvedListed == Spec => []ActiveWasUnresolved
<1>1. DInv => ActiveWasUnresolved
  BY DEF DInv, OInv, ActiveSoFar, Selected, ActiveWasUnresolved, At
<1> QED BY <1>1, AlwaysDInv, PTL

(***************************************************************************)
(* Rows and summary are of one run, whatever runs begin in between.        *)
(***************************************************************************)
THEOREM RunShown == Spec => []OneRunShown
<1>1. DInv => OneRunShown
  BY OneRun DEF DInv, OInv
<1> QED BY <1>1, AlwaysDInv, PTL

(***************************************************************************)
(* For any limits, three lists cut one after the other and in different    *)
(* orders hide no unresolved critical group behind one that is not.        *)
(***************************************************************************)
THEOREM CriticalListedFirst == Spec => []CriticalFirst
<1>1. DInv => CriticalFirst
  BY DEF DInv, OInv, CriticalSoFar, Selected, CriticalFirst, At
<1> QED BY <1>1, AlwaysDInv, PTL

(***************************************************************************)
(* For any number of operators, a detection that has an open correction    *)
(* gets another only from a page opened before that one was saved.         *)
(***************************************************************************)
THEOREM DuplicatesRace == Spec => []DuplicateOnlyByRace
<1>1. DInv => DuplicateOnlyByRace
  BY DEF DInv, PInv
<1> QED BY <1>1, AlwaysDInv, PTL
=============================================================================
