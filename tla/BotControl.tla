------------------------------ MODULE BotControl ------------------------------
(***************************************************************************)
(* Pause and resume: the panels of several browsers                        *)
(* (static/core/js/bot_control.js), the views bot_stop, bot_resume and     *)
(* bot_status of core/views.py, and the one row of BotControl.             *)
(*                                                                         *)
(* A panel sends one POST at a time and never repeats it by itself.  When  *)
(* no usable response comes it says so and reads the row; the POST may     *)
(* still be on its way, and be carried out much later.                     *)
(***************************************************************************)
EXTENDS Integers, Sequences

CONSTANTS
    Panels,
    MaxPosts        \* bound on the POSTs of all panels; they are numbered

ASSUME ControlAssumption == MaxPosts \in Nat

Posts == 1 .. MaxPosts
None == 0           \* no POST; also the reason of the row as it was created

VARIABLES
    post,           \* the POSTs: what each asks for, and who sent it
    server,         \* how far the server has got with it
    row,            \* the BotControl row; a reason names the POST that wrote it
    panel,          \* the state of each panel's script and card
    outcome,        \* history: what the panel was told of its POST
    writes,         \* history: the POSTs that wrote the row, in order
    seen            \* history: the rows there have been since a panel's last POST

vars == <<post, server, row, panel, outcome, writes, seen>>
-----------------------------------------------------------------------------
Row == [paused : BOOLEAN, reason : Posts \cup {None}]
NewRow == [paused |-> FALSE, reason |-> None]

\* "phase" stands for inFlight and the step of send(); "current" for
\* requestSeq; "again" for a visible retry button; "form" for lastForm.
Panel == [phase : {"idle", "posting", "asking", "answering"},
          current : Posts \cup {None}, form : BOOLEAN, again : BOOLEAN,
          read : Row, card : Row, flash : {"none", "success", "uncertain", "unread"}]
FreshPanel(r) == [phase |-> "idle", current |-> None, form |-> FALSE, again |-> FALSE,
                  read |-> NewRow, card |-> r, flash |-> "none"]

TypeOK ==
    /\ post \in Seq([pause : BOOLEAN, by : Panels])
    /\ server \in [Posts -> {"none", "sent", "read", "written", "refused"}]
    /\ row \in Row
    /\ panel \in [Panels -> Panel]
    /\ outcome \in [Posts -> {"none", "waiting", "success", "uncertain", "left"}]
    /\ writes \in Seq(Posts)
    /\ seen \in [Panels -> SUBSET Row]

Init ==
    /\ post = <<>>
    /\ server = [n \in Posts |-> "none"]
    /\ row = NewRow
    /\ panel = [p \in Panels |-> FreshPanel(NewRow)]
    /\ outcome = [n \in Posts |-> "none"]
    /\ writes = <<>>
    /\ seen = [p \in Panels |-> {NewRow}]
-----------------------------------------------------------------------------
\* send(form): the next POST of panel p.
Send(p, pause) ==
    LET n == Len(post) + 1  IN
    /\ n \in Posts
    /\ post' = Append(post, [pause |-> pause, by |-> p])
    /\ server' = [server EXCEPT ![n] = "sent"]
    /\ outcome' = [outcome EXCEPT ![n] = "waiting"]
    /\ panel' = [panel EXCEPT ![p].phase = "posting", ![p].current = n,
                              ![p].form = pause, ![p].again = FALSE]
    /\ seen' = [seen EXCEPT ![p] = {row}]
    /\ UNCHANGED <<row, writes>>

\* Mutant: a second form can be submitted while the first is in flight.
SubmitTwice(p, pause) == panel[p].phase \in {"idle", "posting"} /\ Send(p, pause)
Submit(p, pause) == panel[p].phase = "idle" /\ Send(p, pause)

\* The retry button, which is there after an uncertain result only.
Retry(p) == /\ panel[p].phase = "idle"
            /\ panel[p].again
            /\ Send(p, panel[p].form)

\* get_solo(): all that is kept of the row is that there is one.
ServerRead(n) ==
    /\ server[n] = "sent"
    /\ server' = [server EXCEPT ![n] = "read"]
    /\ UNCHANGED <<post, row, panel, outcome, writes, seen>>

\* Session, CSRF token or confirmation missing, or a failing database.
ServerRefuse(n) ==
    /\ server[n] \in {"sent", "read"}
    /\ server' = [server EXCEPT ![n] = "refused"]
    /\ UNCHANGED <<post, row, panel, outcome, writes, seen>>

\* What the UPDATE of save(update_fields=BOT_CONTROL_UPDATE_FIELDS) leaves.
\* Mutant: the reason is not among the updated fields.
WrittenPart(n) == [row EXCEPT !.paused = post[n].pause]
Written(n) == [paused |-> post[n].pause, reason |-> n]

ServerWrite(n) ==
    /\ server[n] = "read"
    /\ server' = [server EXCEPT ![n] = "written"]
    /\ row' = Written(n)
    /\ writes' = Append(writes, n)
    /\ seen' = [p \in Panels |-> seen[p] \cup {Written(n)}]
    /\ UNCHANGED <<post, panel, outcome>>

Current(p, n) == panel[p].phase = "posting" /\ panel[p].current = n

\* Mutant: an answer that is not the JSON of a row is good enough.
ReceiveAny(p) ==
    LET n == panel[p].current  IN
    /\ Current(p, n) /\ server[n] \in {"written", "refused"}
    /\ panel' = [panel EXCEPT ![p].phase = "idle", ![p].again = FALSE, ![p].flash = "success",
                              ![p].card = [paused |-> post[n].pause, reason |-> n]]
    /\ outcome' = [outcome EXCEPT ![n] = "success"]
    /\ UNCHANGED <<post, server, row, writes, seen>>
\* A JSON response to the current POST carries what this POST has written.
Receive(p) ==
    LET n == panel[p].current  IN
    /\ Current(p, n)
    /\ server[n] = "written"
    /\ panel' = [panel EXCEPT ![p].phase = "idle", ![p].again = FALSE, ![p].flash = "success",
                              ![p].card = [paused |-> post[n].pause, reason |-> n]]
    /\ outcome' = [outcome EXCEPT ![n] = "success"]
    /\ UNCHANGED <<post, server, row, writes, seen>>

\* Mutant: the form is submitted again, as a page without the script would.
DoubtReplay(p) ==
    LET n == panel[p].current  IN
    /\ Current(p, n)
    /\ server[n] = "written" /\ server' = [server EXCEPT ![n] = "sent"]
    /\ panel' = [panel EXCEPT ![p].phase = "asking", ![p].flash = "uncertain"]
    /\ outcome' = [outcome EXCEPT ![n] = "uncertain"]
    /\ UNCHANGED <<post, row, writes, seen>>
\* An error page, a response that is no JSON, or none: the request may be
\* anywhere.  The panel reads the row instead.
Doubt(p) ==
    LET n == panel[p].current  IN
    /\ Current(p, n)
    /\ panel' = [panel EXCEPT ![p].phase = "asking", ![p].flash = "uncertain"]
    /\ outcome' = [outcome EXCEPT ![n] = "uncertain"]
    /\ UNCHANGED <<post, server, row, writes, seen>>

\* Mutant: the JSON of the row lacks the reason.
StatusReadPart(p) ==
    /\ panel[p].phase = "asking"
    /\ panel' = [panel EXCEPT ![p].phase = "answering", ![p].read = [paused |-> row.paused]]
    /\ UNCHANGED <<post, server, row, outcome, writes, seen>>
\* bot_status answers with the row as it is now ...
StatusRead(p) ==
    /\ panel[p].phase = "asking"
    /\ panel' = [panel EXCEPT ![p].phase = "answering", ![p].read = row]
    /\ UNCHANGED <<post, server, row, outcome, writes, seen>>

\* ... the panel shows it, and offers to try again ...
StatusApply(p) ==
    /\ panel[p].phase = "answering"
    /\ panel' = [panel EXCEPT ![p].phase = "idle", ![p].again = TRUE,
                              ![p].card = panel[p].read, ![p].read = NewRow]
    /\ UNCHANGED <<post, server, row, outcome, writes, seen>>

\* Mutant: a failed look at the row leaves the controls disabled.
StatusFailStuck(p) ==
    /\ panel[p].phase \in {"asking", "answering"}
    /\ panel' = [panel EXCEPT ![p].phase = "asking", ![p].flash = "unread"]
    /\ UNCHANGED <<post, server, row, outcome, writes, seen>>
\* ... or the answer does not come either, and the card stays as it is.
StatusFail(p) ==
    /\ panel[p].phase \in {"asking", "answering"}
    /\ panel' = [panel EXCEPT ![p].phase = "idle", ![p].again = TRUE,
                              ![p].flash = "unread", ![p].read = NewRow]
    /\ UNCHANGED <<post, server, row, outcome, writes, seen>>

\* The page is loaded again, with the row; its POST goes its own way.
Reload(p) ==
    /\ panel' = [panel EXCEPT ![p] = FreshPanel(row)]
    /\ seen' = [seen EXCEPT ![p] = {row}]
    /\ outcome' = [n \in Posts |->
                      IF Current(p, n) THEN "left" ELSE outcome[n]]
    /\ UNCHANGED <<post, server, row, writes>>

Script(p) == Receive(p) \/ Doubt(p) \/ StatusRead(p) \/ StatusApply(p) \/ StatusFail(p)
Operator(p) == (\E pause \in BOOLEAN : Submit(p, pause)) \/ Retry(p) \/ Reload(p)
Serve(n) == ServerRead(n) \/ ServerRefuse(n) \/ ServerWrite(n)

Next == \/ \E p \in Panels : Script(p) \/ Operator(p)
        \/ \E n \in Posts : Serve(n)

Spec == Init /\ [][Next]_vars

\* A browser's fetch succeeds or fails in the end; the operator may do
\* nothing, and the server may never get a POST.
FairSpec == Spec /\ \A p \in Panels : WF_vars(Script(p))
-----------------------------------------------------------------------------
(***************************************************************************)
(* A card is never made up: what an idle panel shows was the row at some   *)
(* moment since it sent its last POST, unless it says that the row could   *)
(* not be read.  In particular the state and the reason shown together     *)
(* were in the row together.                                               *)
(***************************************************************************)
CardWasTrue ==
    \A p \in Panels : panel[p].phase = "idle" /\ panel[p].flash # "unread" =>
        panel[p].card \in seen[p]

(***************************************************************************)
(* The operator who reads "Pausa solicitada" or "Reanudacion solicitada"   *)
(* can rely on it: that POST has written the row.                          *)
(***************************************************************************)
SuccessIsWritten ==
    \A n \in Posts : outcome[n] = "success" => \E i \in DOMAIN writes : writes[i] = n

(***************************************************************************)
(* The POSTs of one panel take effect in the order they were sent, except  *)
(* one whose result was shown as uncertain, or whose page was left: only   *)
(* these can still change the row after a later POST of the panel did.     *)
(***************************************************************************)
LateOnlyIfUncertain ==
    \A i, j \in DOMAIN writes :
        i < j /\ post[writes[i]].by = post[writes[j]].by /\ writes[i] > writes[j] =>
            outcome[writes[j]] \in {"uncertain", "left"}

(***************************************************************************)
(* A pause or resume is never carried out more often than it was asked     *)
(* for, whatever is uncertain: "the script never replays a submission".    *)
(***************************************************************************)
NeverReplayed ==
    \A i, j \in DOMAIN writes : writes[i] = writes[j] => i = j

(***************************************************************************)
(* The controls do not stay disabled: every POST ends in a success, an     *)
(* uncertain result or a reload, also when the row cannot be read.         *)
(***************************************************************************)
PanelFreed == \A p \in Panels : panel[p].phase # "idle" ~> panel[p].phase = "idle"
=============================================================================
