--------------------------- MODULE TelegramWebhook ---------------------------
(***************************************************************************)
(* The Telegram webhook (core/views.py, listener): the threads of the one  *)
(* gunicorn worker take updates, record each message, ask the diagnostics  *)
(* for a reply and send it part by part, before they acknowledge.          *)
(*                                                                         *)
(* Telegram repeats an update until a delivery of it is acknowledged, so a *)
(* message can be handled again after a crash or an error, and even while  *)
(* an earlier delivery that took too long is still being handled.  Every   *)
(* call to the database and to the Bot API can fail.                       *)
(***************************************************************************)
EXTENDS Integers, Sequences, FiniteSets

CONSTANTS
    Updates, Threads,
    KindOf,             \* [Updates -> Kinds]
    HelpAllows,         \* updates whose actor passes the check of /help
    DiagnosticsAllow,   \* and that of the diagnostics
    Chunks,             \* messages of a reply that is split
    DatabaseFails,      \* BOOLEAN
    EarlyRetry,         \* BOOLEAN: Telegram repeats what it still waits for
    MaxFaults,          \* bound on restarts, exceptions and repetitions
    NoThread, NoUpdate

Malformed == {"json", "chat", "blank"}
Ignored == {"no_text", "incomplete"}
Commands == {"help", "split", "plain", "photo", "unknown"}

ASSUME WebhookAssumption ==
    /\ KindOf \in [Updates -> Malformed \cup Ignored \cup Commands]
    /\ HelpAllows \subseteq Updates
    /\ DiagnosticsAllow \subseteq Updates
    /\ Chunks \in Nat \ {0}
    /\ DatabaseFails \in BOOLEAN
    /\ EarlyRetry \in BOOLEAN
    /\ MaxFaults \in Nat
    /\ NoThread \notin Threads
    /\ NoUpdate \notin Updates

VARIABLES
    queue,      \* what Telegram thinks of each update
    waiting,    \* the thread whose answer Telegram waits for
    thr,        \* the delivery each thread handles
    rows,       \* TelegramMessage rows of each message
    faults,     \* faults so far
    log,        \* history: sends of each delivery, and what became of them
    taken,      \* history: deliveries that passed the duplicate check
    handled,    \* history: updates some delivery of which was handled through
    cut,        \* history: updates cut off after they were taken
    excused     \* history: updates repeated early, or not recorded

vars == <<queue, waiting, thr, rows, faults, log, taken, handled, cut, excused>>
-----------------------------------------------------------------------------
Deliveries == 1 .. MaxFaults + 1
Part == [what : {"help", "unauthorized", "unavailable", "text", "photo", "sorry",
                 "limited", "chunk"}, nr : 0 .. Chunks]
Words(what) == [what |-> what, nr |-> 0]
Attempt == [part : Part, result : {"shown", "lost", "unconfirmed", "raised"}]

\* A reply is a sequence of parts; a part that is not delivered ends it
\* ("stop") or does not ("go on").  Only a photo has a fallback.
Reply == [parts : Seq(Part), mode : {"stop", "go on", "photo"}]
One(what) == [parts |-> <<Words(what)>>, mode |-> "stop"]
NoReply == [parts |-> <<>>, mode |-> "stop"]

Handling == [pc : {"idle", "parse", "exists", "create", "dispatch", "send"},
             upd : Updates \cup {NoUpdate}, n : Deliveries, reply : Reply]
Idle == [pc |-> "idle", upd |-> NoUpdate, n |-> 1, reply |-> NoReply]

TypeOK ==
    /\ queue \in [Updates -> {"queued", "done", "dropped"}]
    /\ waiting \in [Updates -> Threads \cup {NoThread}]
    /\ thr \in [Threads -> Handling]
    /\ rows \in [Updates -> 0 .. MaxFaults + 1]
    /\ faults \in 0 .. MaxFaults
    /\ log \in [Updates -> [Deliveries -> Seq(Attempt)]]
    /\ taken \in [Updates -> 0 .. MaxFaults + 1]
    /\ handled \subseteq Updates
    /\ cut \subseteq Updates
    /\ excused \subseteq Updates
    /\ \A u \in Updates :
          waiting[u] # NoThread => thr[waiting[u]].upd = u /\ queue[u] = "queued"

Init ==
    /\ queue = [u \in Updates |-> "queued"]
    /\ waiting = [u \in Updates |-> NoThread]
    /\ thr = [t \in Threads |-> Idle]
    /\ rows = [u \in Updates |-> 0]
    /\ faults = 0
    /\ log = [u \in Updates |-> [n \in Deliveries |-> <<>>]]
    /\ taken = [u \in Updates |-> 0]
    /\ handled = {}
    /\ cut = {}
    /\ excused = {}
-----------------------------------------------------------------------------
At(t, pc) == thr[t].pc = pc
Upd(t) == thr[t].upd
Goto(t, pc) == thr' = [thr EXCEPT ![t].pc = pc]

\* Telegram delivers what it has no answer for.
Deliver(u) ==
    \E t \in Threads :
        /\ queue[u] = "queued" /\ waiting[u] = NoThread
        /\ At(t, "idle")
        /\ waiting' = [waiting EXCEPT ![u] = t]
        /\ thr' = [thr EXCEPT ![t] = [Idle EXCEPT !.pc = "parse", !.upd = u,
                                                  !.n = faults + 1]]
        /\ UNCHANGED <<queue, rows, faults, log, taken, handled, cut, excused>>

\* Telegram waits no longer: it will deliver again what is being handled.
GiveUp(u) ==
    /\ EarlyRetry
    /\ waiting[u] # NoThread
    /\ faults < MaxFaults
    /\ waiting' = [waiting EXCEPT ![u] = NoThread]
    /\ faults' = faults + 1
    /\ excused' = excused \cup {u}
    /\ UNCHANGED <<queue, thr, rows, log, taken, handled, cut>>

\* Mutant: the answered request stays open.
AcknowledgeOpen(t) ==
    LET u == Upd(t)  IN
    /\ thr' = [thr EXCEPT ![t] = Idle]
    /\ queue' = [queue EXCEPT ![u] = "done"] /\ UNCHANGED waiting
\* The answer, which counts only if Telegram still waits for it.
Acknowledge(t) ==
    LET u == Upd(t)  IN
    /\ thr' = [thr EXCEPT ![t] = Idle]
    /\ IF waiting[u] = t
       THEN /\ queue' = [queue EXCEPT ![u] = "done"]
            /\ waiting' = [waiting EXCEPT ![u] = NoThread]
       ELSE UNCHANGED <<queue, waiting>>

\* An answer that is not 2xx makes Telegram repeat the update, for a while.
Reject(t) ==
    LET u == Upd(t)  IN
    /\ thr' = [thr EXCEPT ![t] = Idle]
    /\ waiting' = [v \in Updates |-> IF waiting[v] = t THEN NoThread ELSE waiting[v]]
    /\ IF faults < MaxFaults
       THEN faults' = faults + 1 /\ UNCHANGED queue
       ELSE /\ queue' = [queue EXCEPT ![u] = IF waiting[u] = t THEN "dropped" ELSE @]
            /\ UNCHANGED faults

\* json.loads; the message, its text, its chat; the first word of the text.
Parse(t) ==
    LET kind == KindOf[Upd(t)]  IN
    /\ At(t, "parse")
    /\ \/ /\ kind \in Malformed \* 400 for "json", an exception for the others
          /\ Reject(t)
       \/ /\ kind \in Ignored
          /\ Acknowledge(t)
          /\ UNCHANGED faults
       \/ /\ kind \in Commands
          /\ Goto(t, "exists")
          /\ UNCHANGED <<queue, waiting, faults>>
    /\ UNCHANGED <<rows, log, taken, handled, cut, excused>>

\* A delivery is past the duplicate check.
Take(t) ==
    /\ Goto(t, "dispatch")
    /\ taken' = [taken EXCEPT ![Upd(t)] = @ + 1]
    /\ UNCHANGED <<queue, waiting, faults, log, handled, cut>>

\* Mutant: the look at the rows is skipped.
RecordExistsBlind(t) ==
    /\ At(t, "exists")
    /\ Goto(t, "create")
    /\ UNCHANGED <<queue, waiting, rows, faults, log, taken, handled, cut, excused>>
\* Mutant: a database failure is an error of the request.
RecordExistsStrict(t) ==
    /\ At(t, "exists")
    /\ IF DatabaseFails THEN Reject(t) /\ UNCHANGED <<rows, log, taken, handled, cut, excused>>
       ELSE /\ Goto(t, "create")
            /\ UNCHANGED <<queue, waiting, rows, faults, log, taken, handled, cut, excused>>
\* _record_telegram_message looks for a row of the message ...
RecordExists(t) ==
    /\ At(t, "exists")
    /\ UNCHANGED rows
    /\ \/ /\ rows[Upd(t)] > 0
          /\ Acknowledge(t)
          /\ UNCHANGED <<faults, log, taken, handled, cut, excused>>
       \/ /\ rows[Upd(t)] = 0
          /\ Goto(t, "create")
          /\ UNCHANGED <<queue, waiting, faults, log, taken, handled, cut, excused>>
       \/ /\ DatabaseFails
          /\ Take(t)
          /\ excused' = excused \cup {Upd(t)}

\* Mutant: a message that cannot be recorded is taken for a duplicate.
RecordCreateStrict(t) ==
    /\ At(t, "create")
    /\ \/ rows' = [rows EXCEPT ![Upd(t)] = @ + 1] /\ Take(t) /\ UNCHANGED excused
       \/ /\ DatabaseFails /\ Acknowledge(t)
          /\ UNCHANGED <<rows, faults, log, taken, handled, cut, excused>>
\* ... and creates one.  A failing database stops neither.
RecordCreate(t) ==
    /\ At(t, "create")
    /\ \/ /\ rows' = [rows EXCEPT ![Upd(t)] = @ + 1]
          /\ UNCHANGED excused
       \/ /\ DatabaseFails
          /\ excused' = excused \cup {Upd(t)}
          /\ UNCHANGED rows
    /\ Take(t)

\* What the diagnostics can say: an exception becomes a reply of its own.
RepliesTo(u) ==
    CASE KindOf[u] = "unknown" -> {[parts |-> <<Words("sorry"), Words("limited")>>, mode |-> "go on"]}
      [] KindOf[u] = "help" -> {One(IF u \in HelpAllows THEN "help" ELSE "unauthorized")}
      [] u \notin DiagnosticsAllow -> {One("unauthorized")}
      [] KindOf[u] = "split" ->
            {[parts |-> [i \in 1 .. Chunks |-> [what |-> "chunk", nr |-> i]], mode |-> "stop"], One("unavailable")}
      [] KindOf[u] = "photo" ->
            {[parts |-> <<Words("photo")>>, mode |-> "photo"], One("text"), One("unavailable")}
      [] OTHER -> {One("text"), One("unavailable")}

Dispatch(t) ==
    /\ At(t, "dispatch")
    /\ \E reply \in RepliesTo(Upd(t)) :
          thr' = [thr EXCEPT ![t].pc = "send", ![t].reply = reply]
    /\ UNCHANGED <<queue, waiting, rows, faults, log, taken, handled, cut, excused>>

Logged(t, result) ==
    LET part == Head(thr[t].reply.parts)  IN
    log' = [log EXCEPT ![Upd(t)][thr[t].n] =
                Append(@, [part |-> part, result |-> result])]

\* What is left of a reply when its first part has been delivered or not.
\* Mutant: the chunks after a failed one are sent.
RestAll(reply, delivered) == [reply EXCEPT !.parts = Tail(@)]
Rest(reply, delivered) ==
    IF delivered \/ reply.mode = "go on"
    THEN [reply EXCEPT !.parts = Tail(@)]
    ELSE NoReply

\* send_message or send_photo: a request that is not confirmed may have
\* been carried out.
Send(t) ==
    LET reply == thr[t].reply  IN
    /\ At(t, "send")
    /\ reply.parts # <<>>
    /\ \E result \in {"shown", "lost", "unconfirmed"} :
          /\ Logged(t, result)
          /\ thr' = [thr EXCEPT ![t].reply = Rest(reply, result = "shown")]
    /\ UNCHANGED <<queue, waiting, rows, faults, taken, handled, cut, excused>>

\* An exception that _deliver_telegram does not catch ends the request,
\* except that of a photo, which is replaced by its text.
SendRaises(t) ==
    LET reply == thr[t].reply  IN
    /\ At(t, "send")
    /\ reply.parts # <<>>
    /\ faults < MaxFaults
    /\ Logged(t, "raised")
    /\ IF reply.mode = "photo"
       THEN /\ thr' = [thr EXCEPT ![t].reply = One("text")]
            /\ UNCHANGED <<queue, waiting, faults, cut>>
       ELSE /\ Reject(t)
            /\ cut' = cut \cup {Upd(t)}
    /\ UNCHANGED <<rows, taken, handled, excused>>

Respond(t) ==
    /\ At(t, "send")
    /\ thr[t].reply.parts = <<>>
    /\ handled' = handled \cup {Upd(t)}
    /\ Acknowledge(t)
    /\ UNCHANGED <<rows, faults, log, taken, cut, excused>>

\* The worker is killed with all its threads.
Restart ==
    /\ faults < MaxFaults
    /\ faults' = faults + 1
    /\ thr' = [t \in Threads |-> Idle]
    /\ waiting' = [u \in Updates |-> NoThread]
    /\ cut' = cut \cup {Upd(t) : t \in {s \in Threads : At(s, "dispatch") \/ At(s, "send")}}
    /\ UNCHANGED <<queue, rows, log, taken, handled, excused>>

Step(t) == \/ Parse(t) \/ RecordExists(t) \/ RecordCreate(t) \/ Dispatch(t)
           \/ Send(t) \/ SendRaises(t) \/ Respond(t)

Next == \/ \E u \in Updates : Deliver(u) \/ GiveUp(u)
        \/ \E t \in Threads : Step(t)
        \/ Restart

Spec == Init /\ [][Next]_vars

\* Threads run, and Telegram repeats what it has no answer for.
FairSpec == /\ Spec
            /\ \A t \in Threads : WF_vars(Step(t))
            /\ \A u \in Updates : WF_vars(Deliver(u))
-----------------------------------------------------------------------------
(***************************************************************************)
(* "Duplicate message IDs are ignored": however often Telegram repeats a   *)
(* message, one delivery of it at most is dispatched to the diagnostics.   *)
(***************************************************************************)
AnsweredOnce == \A u \in Updates : taken[u] <= 1

(***************************************************************************)
(* What the check for duplicates does achieve: a message is dispatched     *)
(* twice only if Telegram repeated it while it was being handled, or the   *)
(* database failed to look it up or to record it; crashes, exceptions and  *)
(* repetitions after an answer do not answer it again.                     *)
(***************************************************************************)
TwiceOnlyExcused == \A u \in Updates : taken[u] > 1 => u \in excused

(***************************************************************************)
(* A message that Telegram holds for done was answered, is being answered, *)
(* or was cut off by a crash or an exception after it was recorded: none   *)
(* is acknowledged as a duplicate of a delivery that never was, whatever   *)
(* the database does.                                                      *)
(***************************************************************************)
DoneIsAnswered ==
    \A u \in Updates : queue[u] = "done" /\ KindOf[u] \in Commands =>
        \/ u \in handled \cup cut
        \/ \E t \in Threads : Upd(t) = u /\ thr[t].pc \in {"dispatch", "send"}

(***************************************************************************)
(* "If a chunk send fails, the failure is logged and later chunks are not  *)
(* sent": what the operator sees of a split reply, in each delivery, is    *)
(* its first chunks in their order.                                        *)
(***************************************************************************)
Visible(attempt) == attempt.result \in {"shown", "unconfirmed"}
ChunksWithoutGap ==
    \A u \in Updates, n \in Deliveries : KindOf[u] = "split" =>
        LET sends == log[u][n]  IN
        \A i \in DOMAIN sends : Visible(sends[i]) /\ sends[i].part.what = "chunk" =>
            sends[i].part.nr = Cardinality({j \in 1 .. i : Visible(sends[j])})

(***************************************************************************)
(* "Falls back to text if image sending fails": once a photo was not       *)
(* confirmed, its delivery does not end before the text was tried.         *)
(***************************************************************************)
PhotoFallsBack ==
    \A u \in Updates, n \in Deliveries : u \in handled \ cut /\ taken[u] = 1 =>
        \A i \in DOMAIN log[u][n] :
            log[u][n][i].part.what = "photo" /\ log[u][n][i].result # "shown" =>
                \E j \in DOMAIN log[u][n] : j > i /\ log[u][n][j].part.what = "text"

(***************************************************************************)
(* Every message is in the end acknowledged, and then answered or cut off: *)
(* with the database down at any step, and with any sends failing.         *)
(***************************************************************************)
EveryCommandAnswered ==
    \A u \in Updates : KindOf[u] \in Commands =>
        <>(queue[u] = "done" /\ u \in handled \cup cut)
=============================================================================
