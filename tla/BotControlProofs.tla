--------------------------- MODULE BotControlProofs ---------------------------
(***************************************************************************)
(* What a panel tells the operator is true, and its POSTs are carried out  *)
(* once and in their order unless it said otherwise: proofs for any number *)
(* of panels and POSTs.                                                    *)
(***************************************************************************)
EXTENDS BotControl, SequenceTheorems, TLAPS

Sent == 1 .. Len(post)

\* POSTs that were not sent have no history; those that were have one.
SentHasOutcome ==
    /\ Len(post) <= MaxPosts
    /\ \A n \in Posts : n \notin Sent => server[n] = "none"
    /\ \A n \in Posts : (n \in Sent) = (outcome[n] # "none")
    /\ \A p \in Panels : panel[p].form \in BOOLEAN

\* A panel that waits does so for the last of its POSTs, and the POSTs that
\* wait are those.
WaitingIsCurrent ==
    /\ \A n \in Sent : outcome[n] = "waiting" => Current(post[n].by, n)
    /\ \A p \in Panels : panel[p].phase = "posting" =>
          /\ panel[p].current \in Sent
          /\ post[panel[p].current].by = p
          /\ outcome[panel[p].current] = "waiting"
          /\ \A m \in Sent : post[m].by = p => m <= panel[p].current

SuccessKnown == \A n \in Sent : outcome[n] = "success" => server[n] = "written"

\* The history of writes is that of the POSTs the server has written.
WritesKnown ==
    /\ \A i \in DOMAIN writes : writes[i] \in Sent /\ server[writes[i]] = "written"
    /\ \A n \in Posts : server[n] = "written" => \E i \in DOMAIN writes : writes[i] = n

\* What a panel may come to show was the row since its last POST.
SeenSuffices ==
    \A p \in Panels :
        /\ row \in seen[p]
        /\ panel[p].phase = "answering" => panel[p].read \in seen[p]
        /\ panel[p].phase = "posting" /\ server[panel[p].current] = "written" =>
              [paused |-> post[panel[p].current].pause, reason |-> panel[p].current]
                  \in seen[p]

CInv == /\ TypeOK /\ SentHasOutcome /\ WaitingIsCurrent /\ SuccessKnown /\ WritesKnown
        /\ SeenSuffices /\ CardWasTrue /\ LateOnlyIfUncertain /\ NeverReplayed

USE ControlAssumption
-----------------------------------------------------------------------------
LEMMA RowType == NewRow \in Row /\ \A n \in Posts, b \in BOOLEAN :
                    [paused |-> b, reason |-> n] \in Row
BY DEF NewRow, Row, Posts, None

LEMMA PanelUpdate ==
    ASSUME TypeOK, NEW p \in Panels, NEW c \in Panel, panel' = [panel EXCEPT ![p] = c]
    PROVE  /\ panel' \in [Panels -> Panel] /\ panel'[p] = c
           /\ \A q \in Panels : q # p => panel'[q] = panel[q]
BY DEF TypeOK

LEMMA SentType ==
    ASSUME TypeOK, NEW n \in Sent
    PROVE  post[n] \in [pause : BOOLEAN, by : Panels]
              /\ post[n].by \in Panels /\ post[n].pause \in BOOLEAN
<1>1. post \in Seq([pause : BOOLEAN, by : Panels])
  BY DEF TypeOK
<1>2. post[n] \in [pause : BOOLEAN, by : Panels]
  BY <1>1, ElementOfSeq DEF Sent
<1> QED BY <1>2

LEMMA InitCInv == Init => CInv
<1> SUFFICES ASSUME Init PROVE CInv
  OBVIOUS
<1>1. /\ \A r \in Row : FreshPanel(r) \in Panel
      /\ \A r \in Row : FreshPanel(r).phase = "idle" /\ FreshPanel(r).card = r
      /\ \A r \in Row : FreshPanel(r).form = FALSE
  BY RowType DEF FreshPanel, Panel, None
<1>2. post = <<>> /\ writes = <<>> /\ Len(post) = 0 /\ DOMAIN writes = {} /\ Sent = {}
  BY DEF Init, Sent
<1>3. /\ \A p \in Panels : panel[p] = FreshPanel(NewRow) /\ seen[p] = {NewRow}
      /\ row = NewRow
  BY DEF Init
<1>4. TypeOK
  <2>1. /\ post \in Seq([pause : BOOLEAN, by : Panels]) /\ writes \in Seq(Posts)
    BY <1>2, EmptySeq
  <2>2. row \in Row /\ panel \in [Panels -> Panel] /\ seen \in [Panels -> SUBSET Row]
    BY <1>1, RowType DEF Init
  <2>3. /\ server \in [Posts -> {"none", "sent", "read", "written", "refused"}]
        /\ outcome \in [Posts -> {"none", "waiting", "success", "uncertain", "left"}]
    BY DEF Init
  <2> QED BY <2>1, <2>2, <2>3 DEF TypeOK
<1>5. SentHasOutcome /\ WaitingIsCurrent /\ SuccessKnown
  <2>1. \A p \in Panels : panel[p].phase = "idle" /\ panel[p].form \in BOOLEAN
    BY <1>1, <1>3, RowType
  <2>2. 0 <= MaxPosts /\ \A n \in Posts : server[n] = "none" /\ outcome[n] = "none"
    BY DEF Init
  <2> QED BY <1>2, <2>1, <2>2 DEF SentHasOutcome, WaitingIsCurrent, SuccessKnown
<1>6. WritesKnown /\ LateOnlyIfUncertain /\ NeverReplayed
  BY <1>2 DEF Init, WritesKnown, LateOnlyIfUncertain, NeverReplayed
<1>7. SeenSuffices /\ CardWasTrue
  BY <1>1, <1>3, RowType DEF SeenSuffices, CardWasTrue
<1> QED BY <1>4, <1>5, <1>6, <1>7 DEF CInv
-----------------------------------------------------------------------------
\* A new POST of an idle panel.
LEMMA SendCInv ==
    ASSUME CInv, NEW p \in Panels, NEW pause \in BOOLEAN,
           panel[p].phase = "idle", Send(p, pause)
    PROVE  CInv'
<1> USE DEF CInv
<1> DEFINE n == Len(post) + 1
           e == [pause |-> pause, by |-> p]
           c == [panel[p] EXCEPT !.phase = "posting", !.current = n,
                                 !.form = pause, !.again = FALSE]
<1>1. /\ post \in Seq([pause : BOOLEAN, by : Panels]) /\ Len(post) \in Nat
      /\ DOMAIN post = 1 .. Len(post) /\ n \in Posts /\ n \notin Sent
  BY DEF TypeOK, Send, Sent
<1>2. /\ post' = Append(post, e)
      /\ server' = [server EXCEPT ![n] = "sent"]
      /\ outcome' = [outcome EXCEPT ![n] = "waiting"]
      /\ seen' = [seen EXCEPT ![p] = {row}]
      /\ UNCHANGED <<row, writes>>
  BY DEF Send
<1>3. e \in [pause : BOOLEAN, by : Panels] /\ e.by = p /\ e.pause = pause
  OBVIOUS
<1>4. /\ panel[p] \in Panel /\ c \in Panel
      /\ c.phase = "posting" /\ c.current = n /\ c.form = pause
  <2>1. panel[p] \in Panel
    BY DEF TypeOK
  <2> QED BY <1>1, <2>1 DEF Panel
<1>5. panel' = [panel EXCEPT ![p] = c]
  BY <1>4 DEF Send, TypeOK
<1> HIDE DEF e, c
<1>6. /\ panel' \in [Panels -> Panel] /\ panel'[p] = c
      /\ \A q \in Panels : q # p => panel'[q] = panel[q]
  BY <1>4, <1>5, PanelUpdate
<1>7. /\ post' \in Seq([pause : BOOLEAN, by : Panels])
      /\ Len(post') = n /\ Sent' = Sent \cup {n} /\ post'[n] = e
      /\ \A m \in Sent : post'[m] = post[m]
  BY <1>1, <1>2, <1>3, AppendProperties DEF Sent
<1>8. /\ \A m \in Posts : m # n => server'[m] = server[m] /\ outcome'[m] = outcome[m]
      /\ server'[n] = "sent" /\ outcome'[n] = "waiting"
      /\ \A q \in Panels : q # p => seen'[q] = seen[q]
      /\ seen'[p] = {row}
  BY <1>1, <1>2 DEF TypeOK
<1>9. Sent \subseteq Posts
  BY <1>1 DEF Sent, Posts, SentHasOutcome
<1> HIDE DEF n
<1>10. TypeOK'
  BY <1>1, <1>2, <1>6, <1>7 DEF TypeOK
<1>11. SentHasOutcome'
  <2>1. n \in Posts /\ Len(post') <= MaxPosts
    BY <1>1, <1>7 DEF Posts
  <2>2. \A q \in Panels : panel'[q].form \in BOOLEAN
    BY <1>4, <1>6 DEF SentHasOutcome
  <2> QED BY <1>7, <1>8, <1>9, <2>1, <2>2 DEF SentHasOutcome
<1>12. WaitingIsCurrent'
  <2>1. ASSUME NEW m \in Sent', outcome'[m] = "waiting"
        PROVE  Current(post[m].by, m)'
    <3>1. CASE m = n
      BY <1>3, <1>4, <1>6, <1>7, <3>1 DEF Current
    <3>2. CASE m # n
      <4>1. /\ m \in Sent /\ outcome[m] = "waiting" /\ post'[m] = post[m]
        BY <1>7, <1>8, <1>9, <2>1, <3>2
      <4>2. Current(post[m].by, m) /\ post[m].by \in Panels
        BY <4>1, SentType DEF WaitingIsCurrent
      <4> QED BY <1>6, <4>1, <4>2 DEF Current
    <3> QED BY <3>1, <3>2
  <2>2. ASSUME NEW q \in Panels, panel'[q].phase = "posting"
        PROVE  /\ panel'[q].current \in Sent'
               /\ post'[panel'[q].current].by = q
               /\ outcome'[panel'[q].current] = "waiting"
               /\ \A m \in Sent' : post'[m].by = q => m <= panel'[q].current
    <3>1. CASE q = p
      <4>1. \A m \in Sent' : m <= n
        BY <1>1, <1>7 DEF Sent, Posts
      <4> QED BY <1>3, <1>4, <1>6, <1>7, <1>8, <3>1, <4>1
    <3>2. CASE q # p
      <4>1. /\ panel'[q] = panel[q] /\ panel[q].current \in Sent
            /\ post[panel[q].current].by = q /\ outcome[panel[q].current] = "waiting"
            /\ \A m \in Sent : post[m].by = q => m <= panel[q].current
        BY <1>6, <2>2, <3>2 DEF WaitingIsCurrent
      <4>2. panel[q].current # n
        BY <1>1, <4>1
      <4> QED BY <1>3, <1>7, <1>8, <1>9, <3>2, <4>1, <4>2
    <3> QED BY <3>1, <3>2
  <2> QED BY <2>1, <2>2 DEF WaitingIsCurrent
<1>13. SuccessKnown'
  BY <1>7, <1>8, <1>9 DEF SuccessKnown
<1>14. WritesKnown'
  BY <1>1, <1>2, <1>7, <1>8, <1>9 DEF WritesKnown
<1>15. SeenSuffices'
  <2>1. ASSUME NEW q \in Panels
        PROVE  /\ row' \in seen'[q]
               /\ panel'[q].phase = "answering" => panel'[q].read \in seen'[q]
               /\ panel'[q].phase = "posting" /\ server'[panel'[q].current] = "written" =>
                     [paused |-> post'[panel'[q].current].pause,
                      reason |-> panel'[q].current] \in seen'[q]
    <3>1. CASE q = p
      BY <1>2, <1>4, <1>6, <1>8, <3>1
    <3>2. CASE q # p
      <4>1. panel'[q] = panel[q] /\ seen'[q] = seen[q]
        BY <1>6, <1>8, <3>2
      <4>2. panel[q].phase = "posting" =>
               /\ post'[panel[q].current] = post[panel[q].current]
               /\ server'[panel[q].current] = server[panel[q].current]
        BY <1>1, <1>7, <1>8, <1>9 DEF WaitingIsCurrent
      <4>3. row \in seen[q] /\ (panel[q].phase = "answering" => panel[q].read \in seen[q])
        BY DEF SeenSuffices
      <4>4. panel[q].phase = "posting" /\ server[panel[q].current] = "written" =>
               [paused |-> post[panel[q].current].pause, reason |-> panel[q].current]
                   \in seen[q]
        BY DEF SeenSuffices
      <4>5. row' \in seen'[q]
        BY <1>2, <4>1, <4>3
      <4>6. panel'[q].phase = "answering" => panel'[q].read \in seen'[q]
        BY <4>1, <4>3
      <4>7. panel'[q].phase = "posting" /\ server'[panel'[q].current] = "written" =>
               [paused |-> post'[panel'[q].current].pause,
                reason |-> panel'[q].current] \in seen'[q]
        BY <4>1, <4>2, <4>4
      <4> QED BY <4>5, <4>6, <4>7
    <3> QED BY <3>1, <3>2
  <2> QED BY <2>1 DEF SeenSuffices
<1>16. CardWasTrue'
  BY <1>4, <1>6, <1>8 DEF CardWasTrue
<1>17. LateOnlyIfUncertain' /\ NeverReplayed'
  <2>1. \A i \in DOMAIN writes : writes[i] \in Sent /\ writes[i] # n
    BY <1>1 DEF WritesKnown
  <2>2. \A i \in DOMAIN writes : /\ post'[writes[i]] = post[writes[i]]
                                  /\ outcome'[writes[i]] = outcome[writes[i]]
    BY <1>7, <1>8, <1>9, <2>1
  <2>3. NeverReplayed'
    BY <1>2 DEF NeverReplayed
  <2>4. LateOnlyIfUncertain'
    <3> SUFFICES ASSUME NEW i \in DOMAIN writes, NEW j \in DOMAIN writes, i < j,
                        post'[writes[i]].by = post'[writes[j]].by, writes[i] > writes[j]
                 PROVE  outcome'[writes[j]] \in {"uncertain", "left"}
      BY <1>2 DEF LateOnlyIfUncertain
    <3>1. post[writes[i]].by = post[writes[j]].by
      BY <2>2
    <3>2. outcome[writes[j]] \in {"uncertain", "left"}
      BY <3>1 DEF LateOnlyIfUncertain
    <3> QED BY <2>2, <3>2
  <2> QED BY <2>3, <2>4
<1> QED BY <1>10, <1>11, <1>12, <1>13, <1>14, <1>15, <1>16, <1>17
-----------------------------------------------------------------------------
\* A step of the server with POST n.
LEMMA ServeCInv ==
    ASSUME CInv, NEW n \in Posts, Serve(n)
    PROVE  CInv'
<1> USE DEF CInv
<1>0. /\ n \in Sent /\ server[n] \in {"sent", "read"} /\ Sent' = Sent
      /\ UNCHANGED <<post, panel, outcome>>
  BY DEF Serve, ServerRead, ServerRefuse, ServerWrite, SentHasOutcome, Sent
<1>1. Sent \subseteq Posts
  BY DEF SentHasOutcome, Sent, Posts
<1>2. outcome[n] \notin {"success", "none"}
  BY <1>0 DEF SuccessKnown, SentHasOutcome
<1>3. /\ server' \in [Posts -> {"none", "sent", "read", "written", "refused"}]
      /\ \A m \in Posts : m # n => server'[m] = server[m]
      /\ server'[n] \in {"read", "refused", "written"}
  BY DEF Serve, ServerRead, ServerRefuse, ServerWrite, TypeOK
<1>4. SentHasOutcome' /\ WaitingIsCurrent' /\ SuccessKnown'
  BY <1>0, <1>1, <1>2, <1>3
  DEF SentHasOutcome, WaitingIsCurrent, SuccessKnown, Current
<1>5. CASE server'[n] # "written"
  <2>1. UNCHANGED <<row, writes, seen>>
    BY <1>3, <1>5 DEF Serve, ServerRead, ServerRefuse, ServerWrite, TypeOK
  <2>2. TypeOK'
    BY <1>0, <1>3, <2>1 DEF TypeOK
  <2>3. WritesKnown'
    BY <1>0, <1>1, <1>3, <1>5, <2>1 DEF WritesKnown
  <2>4. SeenSuffices'
    <3>1. \A q \in Panels : panel[q].phase = "posting" /\ server'[panel[q].current] = "written"
                               => server[panel[q].current] = "written"
      BY <1>1, <1>3, <1>5 DEF WaitingIsCurrent
    <3> QED BY <1>0, <2>1, <3>1 DEF SeenSuffices
  <2>5. CardWasTrue' /\ LateOnlyIfUncertain' /\ NeverReplayed'
    BY <1>0, <2>1 DEF CardWasTrue, LateOnlyIfUncertain, NeverReplayed
  <2> QED BY <1>4, <2>2, <2>3, <2>4, <2>5
<1>6. CASE server'[n] = "written"
  <2>1. /\ server[n] = "read" /\ row' = Written(n) /\ writes' = Append(writes, n)
        /\ seen' = [p \in Panels |-> seen[p] \cup {Written(n)}]
    BY <1>0, <1>6 DEF Serve, ServerRead, ServerRefuse, ServerWrite, TypeOK
  <2>2. Written(n) \in Row
    BY <1>0, SentType, RowType DEF Written
  <2>3. /\ writes \in Seq(Posts) /\ writes' \in Seq(Posts) /\ Len(writes) \in Nat
        /\ DOMAIN writes = 1 .. Len(writes) /\ DOMAIN writes' = 1 .. Len(writes) + 1
        /\ \A i \in DOMAIN writes : writes'[i] = writes[i]
        /\ writes'[Len(writes) + 1] = n
    BY <2>1, AppendProperties DEF TypeOK
  <2>4. TypeOK'
    BY <1>0, <1>3, <2>1, <2>2, <2>3 DEF TypeOK
  <2>5. \A i \in DOMAIN writes : writes[i] # n /\ writes[i] \in Sent
    BY <2>1 DEF WritesKnown
  <2>6. WritesKnown'
    <3>1. ASSUME NEW i \in DOMAIN writes'
          PROVE  writes'[i] \in Sent' /\ server'[writes'[i]] = "written"
      BY <1>0, <1>1, <1>3, <1>6, <2>3, <2>5 DEF WritesKnown
    <3>2. ASSUME NEW m \in Posts, server'[m] = "written"
          PROVE  \E i \in DOMAIN writes' : writes'[i] = m
      <4>1. CASE m = n
        BY <2>3, <4>1
      <4>2. CASE m # n
        <5>1. PICK i \in DOMAIN writes : writes[i] = m
          BY <1>3, <3>2, <4>2 DEF WritesKnown
        <5> QED BY <2>3, <5>1
      <4> QED BY <4>1, <4>2
    <3> QED BY <3>1, <3>2 DEF WritesKnown
  <2>7. SeenSuffices'
    <3>1. ASSUME NEW q \in Panels
          PROVE  /\ row' \in seen'[q]
                 /\ panel'[q].phase = "answering" => panel'[q].read \in seen'[q]
                 /\ panel'[q].phase = "posting" /\ server'[panel'[q].current] = "written" =>
                       [paused |-> post'[panel'[q].current].pause,
                        reason |-> panel'[q].current] \in seen'[q]
      <4>1. seen'[q] = seen[q] \cup {Written(n)} /\ panel'[q] = panel[q]
        BY <1>0, <2>1
      <4>2. CASE panel[q].current = n
        BY <1>0, <2>1, <4>1, <4>2 DEF SeenSuffices, Written
      <4>3. CASE panel[q].current # n
        <5>1. panel[q].phase = "posting" => server'[panel[q].current] = server[panel[q].current]
          BY <1>1, <1>3, <4>3 DEF WaitingIsCurrent
        <5>2. row' \in seen'[q]
          BY <2>1, <4>1
        <5>3. panel'[q].phase = "answering" => panel'[q].read \in seen'[q]
          BY <4>1 DEF SeenSuffices
        <5>4. panel'[q].phase = "posting" /\ server'[panel'[q].current] = "written" =>
                 [paused |-> post'[panel'[q].current].pause,
                  reason |-> panel'[q].current] \in seen'[q]
          BY <1>0, <4>1, <5>1 DEF SeenSuffices
        <5> QED BY <5>2, <5>3, <5>4
      <4> QED BY <4>2, <4>3
    <3> QED BY <3>1 DEF SeenSuffices
  <2>8. CardWasTrue'
    BY <1>0, <2>1 DEF CardWasTrue
  <2>9. NeverReplayed'
    BY <2>3, <2>5 DEF NeverReplayed
  <2>10. LateOnlyIfUncertain'
    <3>1. ASSUME NEW i \in DOMAIN writes, post[writes[i]].by = post[n].by, writes[i] > n
          PROVE  outcome[n] \in {"uncertain", "left"}
      <4>1. outcome[n] # "waiting"
        <5>1. SUFFICES ASSUME outcome[n] = "waiting" PROVE FALSE
          OBVIOUS
        <5>2. Current(post[n].by, n) /\ post[n].by \in Panels
          BY <1>0, <5>1, SentType DEF WaitingIsCurrent
        <5>3. writes[i] <= n
          BY <2>5, <3>1, <5>2 DEF WaitingIsCurrent, Current
        <5>4. Posts \subseteq Int
          BY DEF Posts
        <5>5. writes[i] \in Int /\ n \in Int
          BY <1>0, <1>1, <2>5, <5>4
        <5> QED BY <3>1, <5>3, <5>5
      <4> QED BY <1>2, <4>1 DEF TypeOK
    <3>2. ASSUME NEW i \in DOMAIN writes', NEW j \in DOMAIN writes', i < j,
                 post'[writes'[i]].by = post'[writes'[j]].by, writes'[i] > writes'[j]
          PROVE  outcome'[writes'[j]] \in {"uncertain", "left"}
      <4>1. i \in DOMAIN writes
        BY <2>3, <3>2
      <4>2. CASE j \in DOMAIN writes
        BY <1>0, <2>3, <3>2, <4>1, <4>2 DEF LateOnlyIfUncertain
      <4>3. CASE j = Len(writes) + 1
        BY <1>0, <2>3, <3>1, <3>2, <4>1, <4>3
      <4> QED BY <2>3, <4>2, <4>3
    <3> QED BY <3>2 DEF LateOnlyIfUncertain
  <2> QED BY <1>4, <2>4, <2>6, <2>7, <2>8, <2>9, <2>10
<1> QED BY <1>5, <1>6
-----------------------------------------------------------------------------
\* A step of the script or of the page of p: whatever it does to the card, it
\* ends the POST the panel waits for, if there is one.
LEMMA PanelCInv ==
    ASSUME CInv, NEW p \in Panels, NEW c \in Panel,
           panel' = [panel EXCEPT ![p] = c], c.phase # "posting",
           UNCHANGED <<post, server, row, writes>>,
           seen' \in [Panels -> SUBSET Row], row \in seen'[p],
           \A q \in Panels : q # p => seen'[q] = seen[q],
           c.phase = "answering" => c.read \in seen'[p],
           c.phase = "idle" /\ c.flash # "unread" => c.card \in seen'[p],
           outcome' \in [Posts -> {"none", "waiting", "success", "uncertain", "left"}],
           \A m \in Posts : Current(p, m) =>
               /\ outcome'[m] \in {"success", "uncertain", "left"}
               /\ outcome'[m] = "success" => server[m] = "written",
           \A m \in Posts : ~Current(p, m) => outcome'[m] = outcome[m]
    PROVE  CInv'
<1> USE DEF CInv
<1>1. /\ panel' \in [Panels -> Panel] /\ panel'[p] = c
      /\ \A q \in Panels : q # p => panel'[q] = panel[q]
  BY PanelUpdate
<1>2. Sent' = Sent /\ Sent \subseteq Posts
  BY DEF SentHasOutcome, Sent, Posts
<1>3. TypeOK'
  BY <1>1 DEF TypeOK
<1>4. SentHasOutcome'
  <2>1. \A q \in Panels : panel'[q].form \in BOOLEAN
    BY <1>1 DEF SentHasOutcome, Panel
  <2>2. ASSUME NEW m \in Posts PROVE (m \in Sent) = (outcome'[m] # "none")
    <3>1. CASE Current(p, m)
      BY <3>1 DEF WaitingIsCurrent, Current
    <3>2. CASE ~Current(p, m)
      BY <3>2 DEF SentHasOutcome
    <3> QED BY <3>1, <3>2
  <2> QED BY <1>2, <2>1, <2>2 DEF SentHasOutcome
<1>5. \A m \in Sent : Current(p, m) =>
         post[m].by = p /\ \A k \in Sent : post[k].by = p => k <= m
  BY DEF WaitingIsCurrent, Current
<1>6. WaitingIsCurrent'
  <2>1. ASSUME NEW m \in Sent, outcome'[m] = "waiting"
        PROVE  Current(post[m].by, m)'
    <3>1. ~Current(p, m) /\ outcome[m] = "waiting"
      BY <1>2, <2>1
    <3>2. Current(post[m].by, m) /\ post[m].by \in Panels /\ post[m].by # p
      BY <3>1, SentType DEF WaitingIsCurrent
    <3> QED BY <1>1, <3>2 DEF Current
  <2>2. ASSUME NEW q \in Panels, panel'[q].phase = "posting"
        PROVE  /\ panel'[q].current \in Sent
               /\ post[panel'[q].current].by = q
               /\ outcome'[panel'[q].current] = "waiting"
               /\ \A m \in Sent : post[m].by = q => m <= panel'[q].current
    <3>1. q # p /\ panel'[q] = panel[q]
      BY <1>1, <2>2
    <3>2. /\ panel[q].current \in Sent /\ post[panel[q].current].by = q
          /\ outcome[panel[q].current] = "waiting"
          /\ \A m \in Sent : post[m].by = q => m <= panel[q].current
      BY <2>2, <3>1 DEF WaitingIsCurrent
    <3>3. ~Current(p, panel[q].current)
      BY <1>5, <3>1, <3>2
    <3> QED BY <1>2, <3>1, <3>2, <3>3
  <2> QED BY <1>2, <2>1, <2>2 DEF WaitingIsCurrent
<1>7. SuccessKnown'
  BY <1>2 DEF SuccessKnown
<1>8. WritesKnown' /\ NeverReplayed'
  BY <1>2 DEF WritesKnown, NeverReplayed
<1>9. SeenSuffices'
  <2>1. ASSUME NEW q \in Panels
        PROVE  /\ row \in seen'[q]
               /\ panel'[q].phase = "answering" => panel'[q].read \in seen'[q]
               /\ panel'[q].phase = "posting" /\ server[panel'[q].current] = "written" =>
                     [paused |-> post[panel'[q].current].pause,
                      reason |-> panel'[q].current] \in seen'[q]
    <3>1. CASE q = p
      BY <1>1, <3>1
    <3>2. CASE q # p
      BY <1>1, <3>2 DEF SeenSuffices
    <3> QED BY <3>1, <3>2
  <2> QED BY <2>1 DEF SeenSuffices
<1>10. CardWasTrue'
  BY <1>1 DEF CardWasTrue
<1>11. LateOnlyIfUncertain'
  <2>1. ASSUME NEW i \in DOMAIN writes, NEW j \in DOMAIN writes, i < j,
               post[writes[i]].by = post[writes[j]].by, writes[i] > writes[j]
        PROVE  outcome'[writes[j]] \in {"uncertain", "left"}
    <3>1. writes[i] \in Sent /\ writes[j] \in Sent
      BY DEF WritesKnown
    <3>2. ~Current(p, writes[j])
      <4>1. SUFFICES ASSUME Current(p, writes[j]) PROVE FALSE
        OBVIOUS
      <4>2. writes[i] <= writes[j]
        BY <1>5, <2>1, <3>1, <4>1
      <4>3. Posts \subseteq Int
        BY DEF Posts
      <4>4. writes[i] \in Int /\ writes[j] \in Int
        BY <1>2, <3>1, <4>3
      <4> QED BY <2>1, <4>2, <4>4
    <3>3. outcome'[writes[j]] = outcome[writes[j]]
      BY <1>2, <3>1, <3>2
    <3> QED BY <2>1, <3>3 DEF LateOnlyIfUncertain
  <2> QED BY <2>1 DEF LateOnlyIfUncertain
<1> QED BY <1>3, <1>4, <1>6, <1>7, <1>8, <1>9, <1>10, <1>11
-----------------------------------------------------------------------------
LEMMA ReceiveCInv ==
    ASSUME CInv, NEW p \in Panels, Receive(p)
    PROVE  CInv'
<1> USE DEF CInv
<1> DEFINE n == panel[p].current
           shown == [paused |-> post[n].pause, reason |-> n]
           c == [panel[p] EXCEPT !.phase = "idle", !.again = FALSE, !.flash = "success",
                                 !.card = shown]
<1>1. /\ panel[p] \in Panel /\ panel[p].phase = "posting" /\ server[n] = "written"
      /\ Current(p, n) /\ \A m \in Posts : Current(p, m) => m = n
  BY DEF Receive, Current, TypeOK
<1>2. n \in Sent /\ Sent \subseteq Posts
  BY <1>1 DEF WaitingIsCurrent, SentHasOutcome, Sent, Posts
<1>3. shown \in Row /\ shown \in seen[p]
  BY <1>1, <1>2, SentType, RowType DEF SeenSuffices
<1>4. c \in Panel /\ c.phase = "idle" /\ c.card = shown
  BY <1>1, <1>3 DEF Panel
<1>5. panel' = [panel EXCEPT ![p] = c]
  BY <1>1 DEF Receive, TypeOK
<1>6. /\ outcome' = [outcome EXCEPT ![n] = "success"]
      /\ UNCHANGED <<post, server, row, writes, seen>>
  BY DEF Receive
<1>7. /\ outcome' \in [Posts -> {"none", "waiting", "success", "uncertain", "left"}]
      /\ outcome'[n] = "success" /\ \A m \in Posts : m # n => outcome'[m] = outcome[m]
  BY <1>2, <1>6 DEF TypeOK
<1>8. seen' \in [Panels -> SUBSET Row] /\ row \in seen'[p]
  BY <1>6 DEF TypeOK, SeenSuffices
<1> HIDE DEF n, shown, c
<1> QED BY <1>1, <1>3, <1>4, <1>5, <1>6, <1>7, <1>8, PanelCInv

LEMMA DoubtCInv ==
    ASSUME CInv, NEW p \in Panels, Doubt(p)
    PROVE  CInv'
<1> USE DEF CInv
<1> DEFINE n == panel[p].current
           c == [panel[p] EXCEPT !.phase = "asking", !.flash = "uncertain"]
<1>1. /\ panel[p] \in Panel /\ panel[p].phase = "posting"
      /\ Current(p, n) /\ \A m \in Posts : Current(p, m) => m = n
  BY DEF Doubt, Current, TypeOK
<1>2. n \in Sent /\ Sent \subseteq Posts
  BY <1>1 DEF WaitingIsCurrent, SentHasOutcome, Sent, Posts
<1>3. c \in Panel /\ c.phase = "asking"
  BY <1>1 DEF Panel
<1>4. panel' = [panel EXCEPT ![p] = c]
  BY <1>1 DEF Doubt, TypeOK
<1>5. /\ outcome' = [outcome EXCEPT ![n] = "uncertain"]
      /\ UNCHANGED <<post, server, row, writes, seen>>
  BY DEF Doubt
<1>6. /\ outcome' \in [Posts -> {"none", "waiting", "success", "uncertain", "left"}]
      /\ outcome'[n] = "uncertain" /\ \A m \in Posts : m # n => outcome'[m] = outcome[m]
  BY <1>2, <1>5 DEF TypeOK
<1>7. seen' \in [Panels -> SUBSET Row] /\ row \in seen'[p]
  BY <1>5 DEF TypeOK, SeenSuffices
<1> HIDE DEF n, c
<1> QED BY <1>1, <1>3, <1>4, <1>5, <1>6, <1>7, PanelCInv

\* The look at the row after a doubtful POST.
LEMMA StatusCInv ==
    ASSUME CInv, NEW p \in Panels, StatusRead(p) \/ StatusApply(p) \/ StatusFail(p)
    PROVE  CInv'
<1> USE DEF CInv
<1>1. /\ panel[p] \in Panel /\ \A m \in Posts : ~Current(p, m)
      /\ UNCHANGED <<post, server, row, outcome, writes, seen>>
  BY DEF StatusRead, StatusApply, StatusFail, Current, TypeOK
<1>2. /\ seen' \in [Panels -> SUBSET Row] /\ row \in seen'[p] /\ row \in Row
      /\ outcome' \in [Posts -> {"none", "waiting", "success", "uncertain", "left"}]
  BY <1>1 DEF TypeOK, SeenSuffices
<1>3. CASE StatusRead(p)
  <2> DEFINE c == [panel[p] EXCEPT !.phase = "answering", !.read = row]
  <2>1. c \in Panel /\ c.phase = "answering" /\ c.read = row
    BY <1>1, <1>2 DEF Panel
  <2>2. panel' = [panel EXCEPT ![p] = c]
    BY <1>1, <1>3 DEF StatusRead, TypeOK
  <2> HIDE DEF c
  <2> QED BY <1>1, <1>2, <2>1, <2>2, PanelCInv
<1>4. CASE StatusApply(p)
  <2> DEFINE c == [panel[p] EXCEPT !.phase = "idle", !.again = TRUE,
                                   !.card = panel[p].read, !.read = NewRow]
  <2>1. /\ panel[p].phase = "answering" /\ panel[p].read \in Row
        /\ panel[p].read \in seen[p]
    BY <1>1, <1>4 DEF StatusApply, SeenSuffices, Panel
  <2>2. c \in Panel /\ c.phase = "idle" /\ c.card = panel[p].read
    BY <1>1, <2>1, RowType DEF Panel
  <2>3. panel' = [panel EXCEPT ![p] = c]
    BY <1>1, <1>4 DEF StatusApply, TypeOK
  <2> HIDE DEF c
  <2> QED BY <1>1, <1>2, <2>1, <2>2, <2>3, PanelCInv
<1>5. CASE StatusFail(p)
  <2> DEFINE c == [panel[p] EXCEPT !.phase = "idle", !.again = TRUE,
                                   !.flash = "unread", !.read = NewRow]
  <2>1. c \in Panel /\ c.phase = "idle" /\ c.flash = "unread"
    BY <1>1, RowType DEF Panel
  <2>2. panel' = [panel EXCEPT ![p] = c]
    BY <1>1, <1>5 DEF StatusFail, TypeOK
  <2> HIDE DEF c
  <2> QED BY <1>1, <1>2, <2>1, <2>2, PanelCInv
<1> QED BY <1>3, <1>4, <1>5

LEMMA ReloadCInv ==
    ASSUME CInv, NEW p \in Panels, Reload(p)
    PROVE  CInv'
<1> USE DEF CInv
<1> DEFINE c == FreshPanel(row)
<1>1. c \in Panel /\ c.phase = "idle" /\ c.card = row
  BY RowType DEF FreshPanel, Panel, TypeOK, None
<1>2. /\ panel' = [panel EXCEPT ![p] = c] /\ seen' = [seen EXCEPT ![p] = {row}]
      /\ outcome' = [n \in Posts |-> IF Current(p, n) THEN "left" ELSE outcome[n]]
      /\ UNCHANGED <<post, server, row, writes>>
  BY DEF Reload
<1>3. /\ outcome' \in [Posts -> {"none", "waiting", "success", "uncertain", "left"}]
      /\ \A m \in Posts : Current(p, m) => outcome'[m] = "left"
      /\ \A m \in Posts : ~Current(p, m) => outcome'[m] = outcome[m]
  BY <1>2 DEF TypeOK
<1>4. /\ seen' \in [Panels -> SUBSET Row] /\ seen'[p] = {row}
      /\ \A q \in Panels : q # p => seen'[q] = seen[q]
  BY <1>2 DEF TypeOK
<1> HIDE DEF c
<1> QED BY <1>1, <1>2, <1>3, <1>4, PanelCInv
-----------------------------------------------------------------------------
LEMMA NextCInv == CInv /\ [Next]_vars => CInv'
<1> SUFFICES ASSUME CInv, [Next]_vars PROVE CInv'
  OBVIOUS
<1>1. ASSUME NEW p \in Panels, Script(p) PROVE CInv'
  BY <1>1, ReceiveCInv, DoubtCInv, StatusCInv DEF Script
<1>2. ASSUME NEW p \in Panels, Operator(p) PROVE CInv'
  <2>1. ASSUME NEW pause \in BOOLEAN, Submit(p, pause) PROVE CInv'
    BY <2>1, SendCInv DEF Submit
  <2>2. CASE Retry(p)
    <3>1. panel[p].phase = "idle" /\ Send(p, panel[p].form) /\ panel[p].form \in BOOLEAN
      BY <2>2 DEF Retry, CInv, SentHasOutcome
    <3> QED BY <3>1, SendCInv
  <2> QED BY <1>2, <2>1, <2>2, ReloadCInv DEF Operator
<1>3. ASSUME NEW n \in Posts, Serve(n) PROVE CInv'
  BY <1>3, ServeCInv
<1>4. CASE UNCHANGED vars
  <2>1. UNCHANGED <<post, server, row, panel, outcome, writes, seen>>
    BY <1>4 DEF vars
  <2> QED BY <2>1 DEF CInv, TypeOK, SentHasOutcome, WaitingIsCurrent, SuccessKnown,
                      WritesKnown, SeenSuffices, CardWasTrue, LateOnlyIfUncertain,
                      NeverReplayed, Current, Sent
<1> QED BY <1>1, <1>2, <1>3, <1>4 DEF Next

(***************************************************************************)
(* The invariant of the panels, the POSTs and the row.                     *)
(***************************************************************************)
THEOREM PanelInvariant == Spec => []CInv
BY InitCInv, NextCInv, PTL DEF Spec

(***************************************************************************)
(* Types: POSTs are numbered as they are sent, and what a panel remembers  *)
(* of the row is a row (bot_control.js).                                   *)
(***************************************************************************)
THEOREM PanelTypeCorrect == Spec => []TypeOK
<1>1. CInv => TypeOK
  BY DEF CInv
<1> QED BY <1>1, PanelInvariant, PTL

(***************************************************************************)
(* What a panel shows was the row since its last POST, or it says that the *)
(* row could not be read (renderState of bot_control.js).                  *)
(***************************************************************************)
THEOREM CardsAreTrue == Spec => []CardWasTrue
<1>1. CInv => CardWasTrue
  BY DEF CInv
<1> QED BY <1>1, PanelInvariant, PTL

(***************************************************************************)
(* A POST the panel calls a success has written the row.                   *)
(***************************************************************************)
THEOREM SuccessWasWritten == Spec => []SuccessIsWritten
<1>1. CInv => SuccessIsWritten
  BY DEF CInv, SuccessKnown, WritesKnown, SuccessIsWritten, SentHasOutcome
<1> QED BY <1>1, PanelInvariant, PTL

(***************************************************************************)
(* A POST of a panel overtakes a later one of the same panel only after    *)
(* the panel called its result uncertain, or was left.                     *)
(***************************************************************************)
THEOREM LateWritesAreUncertain == Spec => []LateOnlyIfUncertain
<1>1. CInv => LateOnlyIfUncertain
  BY DEF CInv
<1> QED BY <1>1, PanelInvariant, PTL

(***************************************************************************)
(* No POST writes the row twice.                                           *)
(***************************************************************************)
THEOREM WrittenOnce == Spec => []NeverReplayed
<1>1. CInv => NeverReplayed
  BY DEF CInv
<1> QED BY <1>1, PanelInvariant, PTL
=============================================================================
