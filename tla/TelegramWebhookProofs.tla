------------------------ MODULE TelegramWebhookProofs ------------------------
(***************************************************************************)
(* No message is acknowledged unanswered, and none is answered twice but   *)
(* for a repetition while it was handled or a failure of the database:     *)
(* proofs for any updates, threads, replies and number of faults.          *)
(***************************************************************************)
EXTENDS TelegramWebhook, FiniteSetTheorems, SequenceTheorems, TLAPS

\* What the proofs need of the types.
Typed ==
    /\ queue \in [Updates -> {"queued", "done", "dropped"}]
    /\ waiting \in [Updates -> Threads \cup {NoThread}]
    /\ thr \in [Threads -> Handling]
    /\ \A t \in Threads : thr[t].pc # "idle" => thr[t].upd \in Updates
    /\ faults \in 0 .. MaxFaults
    /\ rows \in [Updates -> Nat]
    /\ taken \in [Updates -> Nat]

Answering(u) ==
    \/ u \in handled \cup cut
    \/ \E t \in Threads : Upd(t) = u /\ thr[t].pc \in {"dispatch", "send"}

\* Whatever is recorded has been answered, is being answered, or was cut off.
RecordedIsAnswered == \A u \in Updates : rows[u] > 0 => Answering(u)

AInv == Typed /\ RecordedIsAnswered /\ DoneIsAnswered

\* A message without excuse has at most one delivery, which is waited for ...
Alone ==
    \A t \in Threads : thr[t].pc # "idle" /\ thr[t].upd \notin excused =>
        waiting[thr[t].upd] = t

\* ... what was taken of it was recorded, and what is about to be recorded
\* has not been.
TakenOnce ==
    /\ \A u \in Updates \ excused : taken[u] <= 1 /\ (rows[u] = 0 => taken[u] = 0)
    /\ \A t \in Threads : thr[t].pc = "create" /\ thr[t].upd \notin excused =>
          rows[thr[t].upd] = 0

OInv == Typed /\ Alone /\ TakenOnce

USE WebhookAssumption
-----------------------------------------------------------------------------
\* What the invariants must know of a thread's step.
Kept == /\ thr' \in [Threads -> Handling]
        /\ \A s \in Threads : thr'[s].pc # "idle" => thr'[s].upd \in Updates
Others(t) == \A s \in Threads : s # t => thr'[s] = thr[s]

LEMMA ThreadUpdate ==
    ASSUME Typed, NEW t \in Threads, NEW c \in Handling,
           c.pc # "idle" => c.upd \in Updates, thr' = [thr EXCEPT ![t] = c]
    PROVE  Kept /\ Others(t) /\ thr'[t] = c
BY DEF Typed, Kept, Others

LEMMA GotoUpdate ==
    ASSUME Typed, NEW t \in Threads, thr[t].pc # "idle",
           NEW pc \in {"idle", "parse", "exists", "create", "dispatch", "send"},
           Goto(t, pc)
    PROVE  /\ Kept /\ Others(t)
           /\ thr'[t].pc = pc /\ thr'[t].upd = thr[t].upd /\ thr'[t].n = thr[t].n
<1> DEFINE c == [thr[t] EXCEPT !.pc = pc]
<1>1. thr[t] \in Handling /\ thr[t].upd \in Updates
  BY DEF Typed
<1>2. c \in Handling /\ c.pc = pc /\ c.upd = thr[t].upd /\ c.n = thr[t].n
  BY <1>1 DEF Handling
<1>3. thr' = [thr EXCEPT ![t] = c]
  BY <1>1 DEF Goto, Typed
<1> HIDE DEF c
<1> QED BY <1>1, <1>2, <1>3, ThreadUpdate

LEMMA DispatchUpdate ==
    ASSUME Typed, NEW t \in Threads, thr[t].pc # "idle", NEW reply \in Reply,
           thr' = [thr EXCEPT ![t].pc = "send", ![t].reply = reply]
    PROVE  /\ Kept /\ Others(t)
           /\ thr'[t].pc = "send" /\ thr'[t].upd = thr[t].upd /\ thr'[t].n = thr[t].n
           /\ thr'[t].reply = reply
<1> DEFINE c == [thr[t] EXCEPT !.pc = "send", !.reply = reply]
<1>1. thr[t] \in Handling /\ thr[t].upd \in Updates
  BY DEF Typed
<1>2. /\ c \in Handling /\ c.pc = "send" /\ c.upd = thr[t].upd /\ c.n = thr[t].n
      /\ c.reply = reply
  BY <1>1 DEF Handling
<1>3. thr' = [thr EXCEPT ![t] = c]
  BY <1>1 DEF Typed
<1> HIDE DEF c
<1> QED BY <1>1, <1>2, <1>3, ThreadUpdate

LEMMA ReplyUpdate ==
    ASSUME Typed, NEW t \in Threads, thr[t].pc = "send", NEW reply \in Reply,
           thr' = [thr EXCEPT ![t].reply = reply]
    PROVE  /\ Kept /\ Others(t)
           /\ thr'[t].pc = "send" /\ thr'[t].upd = thr[t].upd /\ thr'[t].n = thr[t].n
           /\ thr'[t].reply = reply
<1> DEFINE c == [thr[t] EXCEPT !.reply = reply]
<1>1. thr[t] \in Handling /\ thr[t].upd \in Updates
  BY DEF Typed
<1>2. /\ c \in Handling /\ c.pc = "send" /\ c.upd = thr[t].upd /\ c.n = thr[t].n
      /\ c.reply = reply
  BY <1>1 DEF Handling
<1>3. thr' = [thr EXCEPT ![t] = c]
  BY <1>1 DEF Typed
<1> HIDE DEF c
<1> QED BY <1>1, <1>2, <1>3, ThreadUpdate

LEMMA IdleType == Idle \in Handling /\ Idle.pc = "idle"
BY DEF Idle, Handling, NoReply, Reply, Deliveries

LEMMA IdleUpdate ==
    ASSUME Typed, NEW t \in Threads, thr' = [thr EXCEPT ![t] = Idle]
    PROVE  Kept /\ Others(t) /\ thr'[t].pc = "idle"
BY ThreadUpdate, IdleType

LEMMA OneType == \A what \in {"help", "unauthorized", "unavailable", "text"} :
                    One(what) \in Reply
BY DEF One, Words, Reply, Part

LEMMA RepliesType == \A u \in Updates : RepliesTo(u) \subseteq Reply
<1> SUFFICES ASSUME NEW u \in Updates PROVE RepliesTo(u) \subseteq Reply
  OBVIOUS
<1>1. [parts |-> <<Words("sorry"), Words("limited")>>, mode |-> "go on"] \in Reply
  BY DEF Words, Reply, Part
<1>2. [parts |-> <<Words("photo")>>, mode |-> "photo"] \in Reply
  BY DEF Words, Reply, Part
<1>3. [parts |-> [i \in 1 .. Chunks |-> [what |-> "chunk", nr |-> i]],
       mode |-> "stop"] \in Reply
  <2>0. \A i \in 1 .. Chunks : [what |-> "chunk", nr |-> i] \in Part
    BY DEF Part
  <2>a. [i \in 1 .. Chunks |-> [what |-> "chunk", nr |-> i]] \in [1 .. Chunks -> Part]
    BY <2>0
  <2>b. Chunks \in Nat
    OBVIOUS
  <2>1. [i \in 1 .. Chunks |-> [what |-> "chunk", nr |-> i]] \in Seq(Part)
    BY <2>a, <2>b, SeqDef
  <2> QED BY <2>1 DEF Reply
<1> QED BY <1>1, <1>2, <1>3, OneType DEF RepliesTo

LEMMA RestType == \A reply \in Reply, delivered \in BOOLEAN :
                     reply.parts # <<>> => Rest(reply, delivered) \in Reply
<1> SUFFICES ASSUME NEW reply \in Reply, NEW delivered \in BOOLEAN, reply.parts # <<>>
             PROVE  Rest(reply, delivered) \in Reply
  OBVIOUS
<1>1. NoReply \in Reply
  <2>1. <<>> \in Seq(Part)
    BY EmptySeq
  <2> QED BY <2>1 DEF NoReply, Reply
<1>2. reply.parts \in Seq(Part) /\ Tail(reply.parts) \in Seq(Part)
  <2>1. reply.parts \in Seq(Part)
    BY DEF Reply
  <2> QED BY <2>1, HeadTailProperties
<1>3. [reply EXCEPT !.parts = Tail(@)] \in Reply
  BY <1>2 DEF Reply
<1> QED BY <1>1, <1>3 DEF Rest

LEMMA AcknowledgeUpdate ==
    ASSUME Typed, NEW t \in Threads, thr[t].pc # "idle", Acknowledge(t)
    PROVE  /\ Kept /\ Others(t) /\ thr'[t].pc = "idle"
           /\ queue' \in [Updates -> {"queued", "done", "dropped"}]
           /\ waiting' \in [Updates -> Threads \cup {NoThread}]
           /\ \A u \in Updates : u # Upd(t) =>
                 queue'[u] = queue[u] /\ waiting'[u] = waiting[u]
<1>1. Kept /\ Others(t) /\ thr'[t].pc = "idle"
  BY IdleUpdate DEF Acknowledge
<1> QED BY <1>1 DEF Acknowledge, Typed, Upd

LEMMA RejectUpdate ==
    ASSUME Typed, NEW t \in Threads, thr[t].pc # "idle", Reject(t)
    PROVE  /\ Kept /\ Others(t) /\ thr'[t].pc = "idle"
           /\ queue' \in [Updates -> {"queued", "done", "dropped"}]
           /\ waiting' \in [Updates -> Threads \cup {NoThread}]
           /\ \A u \in Updates : queue'[u] = "done" => queue[u] = "done"
           /\ \A u \in Updates : waiting[u] # t => waiting'[u] = waiting[u]
<1>1. Kept /\ Others(t) /\ thr'[t].pc = "idle"
  BY IdleUpdate DEF Reject
<1>2. queue' \in [Updates -> {"queued", "done", "dropped"}]
      /\ \A u \in Updates : queue'[u] = "done" => queue[u] = "done"
  BY DEF Reject, Typed
<1>3. waiting' \in [Updates -> Threads \cup {NoThread}]
      /\ \A u \in Updates : waiting[u] # t => waiting'[u] = waiting[u]
  BY DEF Reject, Typed
<1> QED BY <1>1, <1>2, <1>3
-----------------------------------------------------------------------------
LEMMA InitTyped == Init => Typed
<1> SUFFICES ASSUME Init PROVE Typed
  OBVIOUS
<1>1. thr \in [Threads -> Handling] /\ \A t \in Threads : thr[t].pc = "idle"
  BY IdleType DEF Init
<1>2. 0 \in 0 .. MaxFaults
  OBVIOUS
<1> QED BY <1>1, <1>2 DEF Init, Typed

\* A step of a thread keeps the types.
LEMMA StepTyped ==
    ASSUME Typed, NEW t \in Threads, Step(t)
    PROVE  /\ Typed' /\ Kept /\ Others(t)
           /\ thr[t].pc # "idle" /\ Upd(t) \in Updates
           /\ thr'[t].pc # "idle" => thr'[t].upd = thr[t].upd
<1>1. thr[t].pc # "idle"
  BY DEF Step, Parse, RecordExists, RecordCreate, Dispatch, Send, SendRaises, Respond, At
<1>2. Upd(t) \in Updates
  BY <1>1 DEF Typed, Upd
<1>3. SUFFICES /\ Kept /\ Others(t)
               /\ thr'[t].pc # "idle" => thr'[t].upd = thr[t].upd
               /\ queue' \in [Updates -> {"queued", "done", "dropped"}]
               /\ waiting' \in [Updates -> Threads \cup {NoThread}]
               /\ faults' \in 0 .. MaxFaults
               /\ rows' \in [Updates -> Nat]
               /\ taken' \in [Updates -> Nat]
  BY <1>1, <1>2 DEF Typed, Kept
<1>4. Reject(t) => faults' \in 0 .. MaxFaults
  BY DEF Reject, Typed
<1>5. Take(t) => /\ Kept /\ Others(t) /\ thr'[t].upd = thr[t].upd
                 /\ UNCHANGED <<queue, waiting, faults>>
                 /\ taken' \in [Updates -> Nat]
  BY <1>1, <1>2, GotoUpdate DEF Take, Typed
<1>6. CASE Parse(t)
  <2>1. rows' = rows /\ taken' = taken
    BY <1>6 DEF Parse
  <2>2. CASE Reject(t)
    BY <1>1, <1>4, <2>1, <2>2, RejectUpdate DEF Typed
  <2>3. CASE Acknowledge(t) /\ UNCHANGED faults
    BY <1>1, <2>1, <2>3, AcknowledgeUpdate DEF Typed
  <2>4. CASE Goto(t, "exists") /\ UNCHANGED <<queue, waiting, faults>>
    BY <1>1, <2>1, <2>4, GotoUpdate DEF Typed
  <2> QED BY <1>6, <2>2, <2>3, <2>4 DEF Parse
<1>7. CASE RecordExists(t)
  <2>1. rows' = rows
    BY <1>7 DEF RecordExists
  <2>2. CASE Acknowledge(t) /\ UNCHANGED <<faults, log, taken, handled, cut>>
    BY <1>1, <2>1, <2>2, AcknowledgeUpdate DEF Typed
  <2>3. CASE Goto(t, "create")
              /\ UNCHANGED <<queue, waiting, faults, log, taken, handled, cut>>
    BY <1>1, <2>1, <2>3, GotoUpdate DEF Typed
  <2>4. CASE Take(t)
    BY <1>5, <2>1, <2>4 DEF Typed
  <2> QED BY <1>7, <2>2, <2>3, <2>4 DEF RecordExists
<1>8. CASE RecordCreate(t)
  <2>1. rows' \in [Updates -> Nat]
    BY <1>8 DEF RecordCreate, Typed
  <2> QED BY <1>5, <1>8, <2>1 DEF RecordCreate, Typed
<1>9. CASE Dispatch(t)
  <2>1. PICK reply \in RepliesTo(Upd(t)) :
              thr' = [thr EXCEPT ![t].pc = "send", ![t].reply = reply]
    BY <1>9 DEF Dispatch
  <2>2. reply \in Reply
    BY <1>2, RepliesType
  <2>3. UNCHANGED <<queue, waiting, rows, faults, taken>>
    BY <1>9 DEF Dispatch
  <2> QED BY <1>1, <2>1, <2>2, <2>3, DispatchUpdate DEF Typed
<1>10. CASE Send(t)
  <2>1. PICK result \in {"shown", "lost", "unconfirmed"} :
              thr' = [thr EXCEPT ![t].reply = Rest(thr[t].reply, result = "shown")]
    BY <1>10 DEF Send
  <2>2. thr[t].reply \in Reply /\ thr[t].reply.parts # <<>> /\ thr[t].pc = "send"
    BY <1>10 DEF Send, At, Typed, Handling
  <2>3. Rest(thr[t].reply, result = "shown") \in Reply
    BY <2>2, RestType
  <2>4. UNCHANGED <<queue, waiting, rows, faults, taken>>
    BY <1>10 DEF Send
  <2> QED BY <1>1, <2>1, <2>2, <2>3, <2>4, ReplyUpdate DEF Typed
<1>11. CASE SendRaises(t)
  <2>1. UNCHANGED <<rows, taken>> /\ thr[t].pc = "send"
    BY <1>11 DEF SendRaises, At
  <2>2. CASE /\ thr' = [thr EXCEPT ![t].reply = One("text")]
             /\ UNCHANGED <<queue, waiting, faults, cut>>
    BY <1>1, <2>1, <2>2, ReplyUpdate, OneType DEF Typed
  <2>3. CASE Reject(t)
    BY <1>1, <1>4, <2>1, <2>3, RejectUpdate DEF Typed
  <2> QED BY <1>11, <2>2, <2>3 DEF SendRaises
<1>12. CASE Respond(t)
  <2>1. Acknowledge(t) /\ UNCHANGED <<rows, faults, taken>>
    BY <1>12 DEF Respond
  <2> QED BY <1>1, <2>1, AcknowledgeUpdate DEF Typed
<1> QED BY <1>6, <1>7, <1>8, <1>9, <1>10, <1>11, <1>12 DEF Step
-----------------------------------------------------------------------------
\* A delivery that answers goes on, or its message is handled or cut off.
LEMMA AnsweringStays ==
    ASSUME Typed, NEW t \in Threads, Step(t), NEW u \in Updates, Answering(u)
    PROVE  Answering(u)'
<1>1. Others(t)
  BY StepTyped
<1>2. SUFFICES /\ handled \subseteq handled' /\ cut \subseteq cut'
               /\ thr[t].pc \in {"dispatch", "send"} =>
                     \/ Upd(t) \in handled' \cup cut'
                     \/ thr'[t].pc = "send" /\ thr'[t].upd = thr[t].upd
  BY <1>1 DEF Answering, Others, Upd
<1>3. CASE Parse(t)
  BY <1>3 DEF Parse, At
<1>4. CASE RecordExists(t)
  BY <1>4 DEF RecordExists, At, Take
<1>5. CASE RecordCreate(t)
  BY <1>5 DEF RecordCreate, At, Take
<1>6. CASE Dispatch(t)
  <2>1. PICK reply \in RepliesTo(Upd(t)) :
              thr' = [thr EXCEPT ![t].pc = "send", ![t].reply = reply]
    BY <1>6 DEF Dispatch
  <2>2. reply \in Reply /\ thr[t].pc # "idle" /\ UNCHANGED <<handled, cut>>
    BY <1>6, RepliesType DEF Dispatch, At, Typed, Upd
  <2> QED BY <2>1, <2>2, DispatchUpdate
<1>7. CASE Send(t)
  <2>1. PICK result \in {"shown", "lost", "unconfirmed"} :
              thr' = [thr EXCEPT ![t].reply = Rest(thr[t].reply, result = "shown")]
    BY <1>7 DEF Send
  <2>2. /\ thr[t].reply \in Reply /\ thr[t].reply.parts # <<>> /\ thr[t].pc = "send"
        /\ UNCHANGED <<handled, cut>>
    BY <1>7 DEF Send, At, Typed, Handling
  <2>3. Rest(thr[t].reply, result = "shown") \in Reply
    BY <2>2, RestType
  <2> QED BY <2>1, <2>2, <2>3, ReplyUpdate
<1>8. CASE SendRaises(t)
  <2>1. handled' = handled /\ thr[t].pc = "send"
    BY <1>8 DEF SendRaises, At
  <2>2. CASE /\ thr' = [thr EXCEPT ![t].reply = One("text")]
             /\ UNCHANGED <<queue, waiting, faults, cut>>
    BY <2>1, <2>2, ReplyUpdate, OneType
  <2>3. CASE cut' = cut \cup {Upd(t)}
    BY <2>1, <2>3
  <2> QED BY <1>8, <2>2, <2>3 DEF SendRaises
<1>9. CASE Respond(t)
  BY <1>9 DEF Respond
<1> QED BY <1>3, <1>4, <1>5, <1>6, <1>7, <1>8, <1>9 DEF Step

\* A new row means that its delivery answers.
LEMMA RowIsAnswered ==
    ASSUME Typed, NEW t \in Threads, Step(t), NEW u \in Updates, rows'[u] # rows[u]
    PROVE  Answering(u)'
<1>1. RecordCreate(t)
  BY DEF Step, Parse, RecordExists, Dispatch, Send, SendRaises, Respond
<1>2. Take(t) /\ thr[t].pc # "idle" /\ u = Upd(t)
  BY <1>1 DEF RecordCreate, At, Typed
<1>3. thr'[t].pc = "dispatch" /\ thr'[t].upd = u
  BY <1>2, GotoUpdate DEF Take, Upd
<1> QED BY <1>3 DEF Answering, Upd

\* What is acknowledged was answered, or recorded before.
LEMMA AcknowledgedIsAnswered ==
    ASSUME Typed, RecordedIsAnswered, NEW t \in Threads, Step(t), NEW u \in Updates,
           KindOf[u] \in Commands, queue[u] # "done", queue'[u] = "done"
    PROVE  Answering(u)'
<1>0. thr[t].pc # "idle"
  BY StepTyped
<1>1. ASSUME Acknowledge(t) PROVE u = Upd(t)
  BY <1>0, <1>1, AcknowledgeUpdate
<1>2. ~Reject(t)
  BY <1>0, RejectUpdate
<1>3. ASSUME Parse(t) PROVE FALSE
  <2>1. KindOf[Upd(t)] \in Ignored /\ Acknowledge(t)
    BY <1>2, <1>3 DEF Parse
  <2> QED BY <1>1, <2>1 DEF Ignored, Commands
<1>4. CASE RecordExists(t)
  <2>1. rows[Upd(t)] > 0 /\ Acknowledge(t)
    BY <1>4 DEF RecordExists, Take
  <2>2. Answering(u)
    BY <1>1, <2>1 DEF RecordedIsAnswered
  <2> QED BY <2>2, AnsweringStays
<1>5. CASE Respond(t)
  BY <1>1, <1>5 DEF Respond, Answering
<1> QED BY <1>2, <1>3, <1>4, <1>5 DEF Step, RecordCreate, Take, Dispatch, Send, SendRaises

\* Steps that are no thread's.
LEMMA DeliverUpdate ==
    ASSUME Typed, NEW u \in Updates, Deliver(u)
    PROVE  /\ Typed'
           /\ UNCHANGED <<queue, rows, faults, log, taken, handled, cut, excused>>
           /\ \E t \in Threads :
                 /\ thr[t].pc = "idle" /\ thr'[t].pc = "parse" /\ thr'[t].upd = u
                 /\ thr'[t].n = faults + 1 /\ queue[u] = "queued"
                 /\ waiting[u] = NoThread /\ waiting' = [waiting EXCEPT ![u] = t]
                 /\ Others(t)
<1> DEFINE c == [Idle EXCEPT !.pc = "parse", !.upd = u, !.n = faults + 1]
<1>1. PICK t \in Threads :
         /\ thr[t].pc = "idle" /\ queue[u] = "queued" /\ waiting[u] = NoThread
         /\ waiting' = [waiting EXCEPT ![u] = t]
         /\ thr' = [thr EXCEPT ![t] = c]
         /\ UNCHANGED <<queue, rows, faults, log, taken, handled, cut, excused>>
  BY DEF Deliver, At
<1>2. faults + 1 \in Deliveries
  BY DEF Deliveries, Typed
<1>3. c \in Handling /\ c.pc = "parse" /\ c.upd = u /\ c.n = faults + 1
  BY <1>2, IdleType DEF Idle, Handling
<1> HIDE DEF c
<1>4. Kept /\ Others(t) /\ thr'[t] = c
  BY <1>1, <1>3, ThreadUpdate
<1>5. Typed'
  BY <1>1, <1>4 DEF Typed, Kept
<1> QED BY <1>1, <1>3, <1>4, <1>5

LEMMA RestartUpdate ==
    ASSUME Typed, Restart
    PROVE  /\ Typed' /\ UNCHANGED <<queue, rows, taken>>
           /\ \A t \in Threads : thr'[t].pc = "idle"
           /\ \A u \in Updates : Answering(u) => Answering(u)'
<1>1. thr' \in [Threads -> Handling] /\ \A t \in Threads : thr'[t].pc = "idle"
  BY IdleType DEF Restart
<1>2. UNCHANGED <<queue, rows, taken, handled>> /\ faults' \in 0 .. MaxFaults
  BY DEF Restart, Typed
<1>3. waiting' \in [Updates -> Threads \cup {NoThread}]
  BY DEF Restart
<1>4. \A u \in Updates : Answering(u) => Answering(u)'
  <2>1. ASSUME NEW t \in Threads, thr[t].pc \in {"dispatch", "send"}
        PROVE  Upd(t) \in cut'
    BY <2>1 DEF Restart, At
  <2>2. cut \subseteq cut'
    BY DEF Restart
  <2> QED BY <1>2, <2>1, <2>2 DEF Answering
<1> QED BY <1>1, <1>2, <1>3, <1>4 DEF Typed

LEMMA NextAnswered == ASSUME AInv, [Next]_vars PROVE AInv'
<1> USE DEF AInv
<1>1. SUFFICES /\ Typed'
               /\ \A u \in Updates : Answering(u) => Answering(u)'
               /\ \A u \in Updates : rows'[u] = rows[u] \/ Answering(u)'
               /\ \A u \in Updates : KindOf[u] \in Commands /\ queue'[u] = "done" =>
                     queue[u] = "done" \/ Answering(u)'
  BY DEF RecordedIsAnswered, DoneIsAnswered, Answering
<1>2. ASSUME NEW t \in Threads, Step(t)
      PROVE  /\ Typed'
             /\ \A u \in Updates : Answering(u) => Answering(u)'
             /\ \A u \in Updates : rows'[u] = rows[u] \/ Answering(u)'
             /\ \A u \in Updates : KindOf[u] \in Commands /\ queue'[u] = "done" =>
                   queue[u] = "done" \/ Answering(u)'
  BY <1>2, StepTyped, AnsweringStays, RowIsAnswered, AcknowledgedIsAnswered
<1>3. ASSUME NEW u \in Updates, Deliver(u)
      PROVE  /\ Typed' /\ UNCHANGED <<queue, rows>>
             /\ \A v \in Updates : Answering(v) => Answering(v)'
  <2>1. PICK t \in Threads : thr[t].pc = "idle" /\ Others(t)
    BY <1>3, DeliverUpdate
  <2>2. Typed' /\ UNCHANGED <<queue, rows, handled, cut>>
    BY <1>3, DeliverUpdate
  <2> QED BY <2>1, <2>2 DEF Answering, Others, Upd
<1>4. ASSUME NEW u \in Updates, GiveUp(u)
      PROVE  /\ Typed' /\ UNCHANGED <<queue, rows>>
             /\ \A v \in Updates : Answering(v) => Answering(v)'
  BY <1>4 DEF GiveUp, Typed, Answering, Upd
<1>5. CASE Restart
  BY <1>5, RestartUpdate
<1>6. CASE UNCHANGED vars
  BY <1>6 DEF vars, Typed, Answering, Upd
<1> QED BY <1>2, <1>3, <1>4, <1>5, <1>6 DEF Next

THEOREM AnsweredInductive == Spec => []AInv
<1>1. Init => AInv
  <2> SUFFICES ASSUME Init PROVE RecordedIsAnswered /\ DoneIsAnswered
    BY InitTyped DEF AInv
  <2> QED BY DEF Init, RecordedIsAnswered, DoneIsAnswered
<1>2. AInv /\ [Next]_vars => AInv'
  BY NextAnswered
<1> QED BY <1>1, <1>2, PTL DEF Spec

(***************************************************************************)
(* No message is acknowledged as the duplicate of a delivery that never    *)
(* was: what is done was answered, is being answered, or was cut off.      *)
(***************************************************************************)
THEOREM NothingUnanswered == Spec => []DoneIsAnswered
<1>1. AInv => DoneIsAnswered
  BY DEF AInv
<1> QED BY <1>1, AnsweredInductive, PTL
-----------------------------------------------------------------------------
\* An answer ends the wait for its own thread alone; who goes on is waited for.
LEMMA StepWaiting ==
    ASSUME Typed, NEW t \in Threads, Step(t)
    PROVE  /\ \A u \in Updates : waiting[u] # t => waiting'[u] = waiting[u]
           /\ thr'[t].pc # "idle" => waiting' = waiting
<1>0. thr[t].pc # "idle" /\ Upd(t) \in Updates
  BY StepTyped
<1>1. Acknowledge(t) => /\ \A u \in Updates : waiting[u] # t => waiting'[u] = waiting[u]
                        /\ thr'[t].pc = "idle"
  <2>1. Acknowledge(t) => \A u \in Updates : waiting[u] # t => waiting'[u] = waiting[u]
    BY <1>0 DEF Acknowledge, Typed
  <2> QED BY <1>0, <2>1, AcknowledgeUpdate
<1>2. Reject(t) =>
                    /\ \A u \in Updates : waiting[u] # t => waiting'[u] = waiting[u]
                    /\ thr'[t].pc = "idle"
  BY <1>0, RejectUpdate
<1>3. CASE Parse(t)
  BY <1>1, <1>2, <1>3 DEF Parse
<1>4. CASE RecordExists(t)
  BY <1>1, <1>4 DEF RecordExists, Take
<1>5. CASE RecordCreate(t) \/ Dispatch(t) \/ Send(t)
  BY <1>5 DEF RecordCreate, Take, Dispatch, Send
<1>6. CASE SendRaises(t)
  BY <1>2, <1>6 DEF SendRaises
<1>7. CASE Respond(t)
  BY <1>1, <1>7 DEF Respond
<1> QED BY <1>3, <1>4, <1>5, <1>6, <1>7 DEF Step

\* An excuse is never withdrawn.
LEMMA StepExcused ==
    ASSUME NEW t \in Threads, Step(t)
    PROVE  excused \subseteq excused'
BY DEF Step, Parse, RecordExists, RecordCreate, Dispatch, Send, SendRaises, Respond

LEMMA StepAlone ==
    ASSUME Typed, Alone, NEW t \in Threads, Step(t)
    PROVE  Alone'
<1>0. excused \subseteq excused'
  BY StepExcused
<1>1. SUFFICES ASSUME NEW s \in Threads, thr'[s].pc # "idle", thr'[s].upd \notin excused
               PROVE  waiting'[thr'[s].upd] = s
  BY <1>0 DEF Alone
<1>2. CASE s = t
  <2>1. thr'[t].upd = thr[t].upd /\ waiting' = waiting /\ thr[t].pc # "idle"
    BY <1>1, <1>2, StepTyped, StepWaiting
  <2> QED BY <1>1, <1>2, <2>1 DEF Alone
<1>3. CASE s # t
  <2>1. thr'[s] = thr[s]
    BY <1>3, StepTyped DEF Others
  <2>2. thr[s].upd \in Updates /\ waiting[thr[s].upd] = s
    BY <1>1, <2>1 DEF Alone, Typed
  <2> QED BY <1>3, <2>1, <2>2, StepWaiting
<1> QED BY <1>2, <1>3

\* A message is taken when its row is created, and found when it has one.
LEMMA StepTakenOnce ==
    ASSUME OInv, NEW t \in Threads, Step(t)
    PROVE  TakenOnce'
<1> USE DEF OInv
<1>0. /\ Others(t) /\ thr[t].pc # "idle" /\ Upd(t) \in Updates
      /\ thr'[t].pc # "idle" => thr'[t].upd = thr[t].upd
      /\ excused \subseteq excused'
  BY StepTyped, StepExcused
<1>1. CASE RecordCreate(t)
  <2> DEFINE u == Upd(t)
  <2>1. /\ thr[t].pc = "create"
        /\ taken' = [taken EXCEPT ![u] = @ + 1]
        /\ u \notin excused' => rows' = [rows EXCEPT ![u] = @ + 1]
        /\ \A v \in Updates : v # u => rows'[v] = rows[v]
    BY <1>1 DEF RecordCreate, At, Take, Typed
  <2>2. u \notin excused => rows[u] = 0 /\ taken[u] = 0
    BY <1>0, <2>1 DEF TakenOnce, Upd
  <2>3. u \notin excused' => rows'[u] = 1 /\ taken'[u] = 1
    BY <1>0, <2>1, <2>2 DEF Typed
  <2>4. \A v \in Updates : v # u => rows'[v] = rows[v] /\ taken'[v] = taken[v]
    BY <2>1 DEF Typed
  <2>5. thr'[t].pc = "dispatch"
    BY <1>0, <1>1, GotoUpdate DEF RecordCreate, Take
  <2>6. ASSUME NEW s \in Threads, thr'[s].pc = "create", thr'[s].upd \notin excused'
        PROVE  rows'[thr'[s].upd] = 0
    <3>1. s # t /\ thr'[s] = thr[s]
      BY <1>0, <2>5, <2>6 DEF Others
    <3>2. /\ thr[s].upd \in Updates /\ thr[s].upd \notin excused
          /\ waiting[thr[s].upd] = s /\ rows[thr[s].upd] = 0
      BY <1>0, <2>6, <3>1 DEF Typed, Alone, TakenOnce
    <3>3. u \notin excused => waiting[u] = t
      BY <1>0 DEF Alone, Upd
    <3> QED BY <2>4, <3>1, <3>2, <3>3
  <2>7. \A v \in Updates \ excused' : taken'[v] <= 1 /\ (rows'[v] = 0 => taken'[v] = 0)
    BY <1>0, <2>3, <2>4 DEF TakenOnce
  <2> HIDE DEF u
  <2> QED BY <2>6, <2>7 DEF TakenOnce
<1>2. CASE RecordExists(t)
  <2>1. /\ rows' = rows
        /\ \A v \in Updates \ excused' : taken'[v] = taken[v]
    BY <1>0, <1>2 DEF RecordExists, Take, Typed
  <2>2. thr'[t].pc = "create" => rows[thr[t].upd] = 0
    <3>1. CASE Acknowledge(t)
      BY <1>0, <3>1, AcknowledgeUpdate
    <3>2. CASE rows[Upd(t)] = 0 /\ Goto(t, "create")
      BY <3>2 DEF Upd
    <3>3. CASE Take(t)
      BY <1>0, <3>3, GotoUpdate DEF Take
    <3> QED BY <1>2, <3>1, <3>2, <3>3 DEF RecordExists
  <2> QED BY <1>0, <2>1, <2>2 DEF TakenOnce, Others
<1>3. CASE Parse(t) \/ Dispatch(t) \/ Send(t) \/ SendRaises(t) \/ Respond(t)
  <2>1. UNCHANGED <<rows, taken>>
    BY <1>3 DEF Parse, Dispatch, Send, SendRaises, Respond
  <2>2. thr[t].pc # "create"
    BY <1>3 DEF Parse, Dispatch, Send, SendRaises, Respond, At
  <2>3. thr'[t].pc # "create"
    <3>1. CASE Parse(t)
      BY <1>0, <3>1, AcknowledgeUpdate, RejectUpdate, GotoUpdate DEF Parse
    <3>2. CASE Dispatch(t)
      <4>1. PICK reply \in RepliesTo(Upd(t)) :
                thr' = [thr EXCEPT ![t].pc = "send", ![t].reply = reply]
        BY <3>2 DEF Dispatch
      <4>2. reply \in Reply
        BY <1>0, RepliesType
      <4> QED BY <1>0, <4>1, <4>2, DispatchUpdate
    <3>3. CASE Send(t)
      <4>1. PICK result \in {"shown", "lost", "unconfirmed"} :
                thr' = [thr EXCEPT ![t].reply = Rest(thr[t].reply, result = "shown")]
        BY <3>3 DEF Send
      <4>2. thr[t].reply \in Reply /\ thr[t].reply.parts # <<>> /\ thr[t].pc = "send"
        BY <3>3 DEF Send, At, Typed, Handling
      <4>3. Rest(thr[t].reply, result = "shown") \in Reply
        BY <4>2, RestType
      <4> QED BY <4>1, <4>2, <4>3, ReplyUpdate
    <3>4. CASE SendRaises(t)
      BY <1>0, <3>4, ReplyUpdate, OneType, RejectUpdate DEF SendRaises, At
    <3>5. CASE Respond(t)
      BY <1>0, <3>5, AcknowledgeUpdate DEF Respond
    <3> QED BY <1>3, <3>1, <3>2, <3>3, <3>4, <3>5
  <2> QED BY <1>0, <2>1, <2>3 DEF TakenOnce, Others
<1> QED BY <1>1, <1>2, <1>3 DEF Step

LEMMA NextTakenOnce ==
    ASSUME OInv, [Next]_vars
    PROVE  OInv'
<1> USE DEF OInv
<1>1. ASSUME NEW t \in Threads, Step(t) PROVE OInv'
  BY <1>1, StepTyped, StepAlone, StepTakenOnce
<1>2. ASSUME NEW u \in Updates, Deliver(u) PROVE OInv'
  <2>1. Typed' /\ UNCHANGED <<rows, taken, excused>>
    BY <1>2, DeliverUpdate DEF Deliver
  <2>2. PICK t \in Threads :
          /\ thr[t].pc = "idle" /\ thr'[t].pc = "parse" /\ thr'[t].upd = u
          /\ waiting[u] = NoThread /\ waiting' = [waiting EXCEPT ![u] = t]
          /\ Others(t)
    BY <1>2, DeliverUpdate
  <2>3. TakenOnce'
    BY <2>1, <2>2 DEF TakenOnce, Others
  <2>4. ASSUME NEW s \in Threads, thr'[s].pc # "idle", thr'[s].upd \notin excused
        PROVE  waiting'[thr'[s].upd] = s
    <3>1. CASE s = t
      BY <2>2, <3>1 DEF Typed
    <3>2. CASE s # t
      <4>1. thr'[s] = thr[s] /\ thr[s].upd \in Updates /\ waiting[thr[s].upd] = s
        BY <2>2, <2>4, <3>2 DEF Others, Alone, Typed
      <4> QED BY <2>2, <4>1 DEF Typed
    <3> QED BY <3>1, <3>2
  <2> QED BY <2>1, <2>3, <2>4 DEF Alone
<1>3. CASE Restart
  <2>1. /\ Typed' /\ UNCHANGED <<rows, taken, excused>>
        /\ \A t \in Threads : thr'[t].pc = "idle"
    BY <1>3, RestartUpdate DEF Restart
  <2> QED BY <2>1 DEF Alone, TakenOnce
<1>4. CASE UNCHANGED vars
  BY <1>4 DEF vars, Typed, Alone, TakenOnce
<1>5. ASSUME NEW u \in Updates, GiveUp(u) PROVE OInv'
  <2>1. Typed' /\ UNCHANGED <<thr, rows, taken>> /\ excused' = excused \cup {u}
    BY <1>5 DEF GiveUp, Typed
  <2>2. \A v \in Updates : v # u => waiting'[v] = waiting[v]
    BY <1>5 DEF GiveUp, Typed
  <2>3. Alone'
    BY <2>1, <2>2 DEF Alone, Typed
  <2> QED BY <2>1, <2>3 DEF TakenOnce
<1> QED BY <1>1, <1>2, <1>3, <1>4, <1>5 DEF Next

(***************************************************************************)
(* A message is dispatched twice only if Telegram repeated it while it was *)
(* being handled or the database failed for it, whatever crashes and       *)
(* exceptions there are.                                                   *)
(***************************************************************************)
THEOREM MessagesAnsweredOnce == Spec => []TwiceOnlyExcused
<1>1. Init => OInv
  <2> SUFFICES ASSUME Init PROVE Alone /\ TakenOnce
    BY InitTyped DEF OInv
  <2>1. \A t \in Threads : thr[t].pc = "idle"
    BY IdleType DEF Init
  <2> QED BY <2>1 DEF Init, Alone, TakenOnce
<1>2. OInv /\ [Next]_vars => OInv'
  BY NextTakenOnce
<1>3. OInv => TwiceOnlyExcused
  BY DEF OInv, Typed, TakenOnce, TwiceOnlyExcused
<1> QED BY <1>1, <1>2, <1>3, PTL DEF Spec
-----------------------------------------------------------------------------
(***************************************************************************)
(* Deliveries of an update are numbered by the faults before them, and two *)
(* of one update never have the same number: what bounds the deliveries    *)
(* taken, and keeps the sends of each apart.                               *)
(***************************************************************************)
Busy(t, u) == thr[t].pc # "idle" /\ thr[t].upd = u

\* No delivery of u so far has a greater number.
Last(u) == IF queue[u] # "queued" THEN MaxFaults + 1
           ELSE IF waiting[u] = NoThread THEN faults ELSE thr[waiting[u]].n

Awaited ==
    \A u \in Updates : waiting[u] # NoThread =>
        queue[u] = "queued" /\ Busy(waiting[u], u) /\ thr[waiting[u]].n <= faults + 1

Numbered ==
    \A u \in Updates : \A t \in Threads : Busy(t, u) =>
        /\ thr[t].n <= Last(u)
        /\ \A s \in Threads : s # t /\ Busy(s, u) => thr[s].n # thr[t].n

\* D are the numbers of the deliveries of u taken, that of no thread which
\* is still to be taken among them.
Taken(u, D) ==
    /\ Cardinality(D) = taken[u]
    /\ \A t \in Threads :
          Busy(t, u) /\ thr[t].pc \in {"parse", "exists", "create"} => thr[t].n \notin D

Counted == \A u \in Updates : \E D \in SUBSET (1 .. Last(u)) : Taken(u, D)

Tracked ==
    /\ log \in [Updates -> [Deliveries -> Seq(Attempt)]]
    /\ \A u \in Updates : rows[u] <= taken[u]
    /\ handled \subseteq Updates
    /\ cut \subseteq Updates
    /\ excused \subseteq Updates

NInv == Typed /\ Awaited /\ Numbered /\ Counted /\ Tracked

\* Of a step of a thread: it goes on with its delivery, or ends it.
GoesOn(t) ==
    /\ thr'[t].pc # "idle" /\ thr'[t].upd = thr[t].upd /\ thr'[t].n = thr[t].n
    /\ UNCHANGED <<queue, waiting, faults>>
Ends(t) == (Acknowledge(t) /\ UNCHANGED faults) \/ Reject(t)

LEMMA StepGoesOnOrEnds ==
    ASSUME Typed, NEW t \in Threads, Step(t)
    PROVE  GoesOn(t) \/ Ends(t)
<1>0. thr[t].pc # "idle" /\ Upd(t) \in Updates
  BY StepTyped
<1>1. ASSUME Take(t) PROVE GoesOn(t)
  BY <1>0, <1>1, GotoUpdate DEF Take, GoesOn
<1>2. CASE Parse(t)
  BY <1>0, <1>2, GotoUpdate DEF Parse, GoesOn, Ends
<1>3. CASE RecordExists(t)
  BY <1>0, <1>1, <1>3, GotoUpdate DEF RecordExists, GoesOn, Ends
<1>4. CASE RecordCreate(t)
  BY <1>1, <1>4 DEF RecordCreate
<1>5. CASE Dispatch(t)
  <2>1. PICK reply \in RepliesTo(Upd(t)) :
              thr' = [thr EXCEPT ![t].pc = "send", ![t].reply = reply]
    BY <1>5 DEF Dispatch
  <2>2. reply \in Reply /\ UNCHANGED <<queue, waiting, faults>>
    BY <1>0, <1>5, RepliesType DEF Dispatch
  <2> QED BY <1>0, <2>1, <2>2, DispatchUpdate DEF GoesOn
<1>6. CASE Send(t)
  <2>1. PICK result \in {"shown", "lost", "unconfirmed"} :
              thr' = [thr EXCEPT ![t].reply = Rest(thr[t].reply, result = "shown")]
    BY <1>6 DEF Send
  <2>2. /\ thr[t].reply \in Reply /\ thr[t].reply.parts # <<>> /\ thr[t].pc = "send"
        /\ UNCHANGED <<queue, waiting, faults>>
    BY <1>6 DEF Send, At, Typed, Handling
  <2>3. Rest(thr[t].reply, result = "shown") \in Reply
    BY <2>2, RestType
  <2> QED BY <2>1, <2>2, <2>3, ReplyUpdate DEF GoesOn
<1>7. CASE SendRaises(t)
  BY <1>7, ReplyUpdate, OneType DEF SendRaises, At, GoesOn, Ends
<1>8. CASE Respond(t)
  BY <1>8 DEF Respond, Ends
<1> QED BY <1>2, <1>3, <1>4, <1>5, <1>6, <1>7, <1>8 DEF Step

\* How the wait of each update and the number of its last delivery change.
LEMMA StepLast ==
    ASSUME NInv, NEW t \in Threads, Step(t)
    PROVE  Awaited' /\ \A u \in Updates : Last(u) <= Last(u)'
<1> USE DEF NInv
<1>0. /\ Others(t) /\ thr[t].pc # "idle" /\ Upd(t) \in Updates /\ Typed'
  BY StepTyped
<1>1. \A s \in Threads : thr[s].n \in 1 .. MaxFaults + 1
  BY DEF Typed, Handling, Deliveries
<1>2. CASE GoesOn(t)
  <2>1. \A s \in Threads : \A u \in Updates :
           thr'[s].n = thr[s].n /\ (Busy(s, u) <=> Busy(s, u)')
    BY <1>0, <1>2 DEF GoesOn, Others, Busy
  <2>2. UNCHANGED <<queue, waiting, faults>> /\ faults \in Nat
    BY <1>2 DEF GoesOn, Typed
  <2>3. \A u \in Updates : waiting[u] # NoThread => waiting[u] \in Threads
    BY DEF Typed
  <2>4. Awaited'
    BY <2>1, <2>2, <2>3 DEF Awaited
  <2>5. \A u \in Updates : Last(u)' = Last(u)
    BY <2>1, <2>2, <2>3 DEF Last
  <2>6. \A u \in Updates : Last(u) \in Nat
    BY <1>1, <2>2, <2>3 DEF Last
  <2> QED BY <2>4, <2>5, <2>6
<1>3. CASE Ends(t)
  <2>1. \A u \in Updates : u # Upd(t) => waiting[u] # t
    BY <1>0 DEF Awaited, Busy, Upd
  <2>2. faults' \in faults .. MaxFaults /\ faults \in 0 .. MaxFaults
    BY <1>3 DEF Ends, Reject, Typed
  <2>3. \A u \in Updates : waiting[u] # t =>
           waiting'[u] = waiting[u] /\ queue'[u] = queue[u]
    BY <1>0, <1>3, <2>1 DEF Ends, Acknowledge, Reject, Typed
  <2>4. \A u \in Updates : waiting[u] = t =>
           /\ waiting'[u] = NoThread
           /\ queue'[u] # "queued" \/ (faults' = faults + 1 /\ queue'[u] = queue[u])
    <3> SUFFICES ASSUME NEW u \in Updates, waiting[u] = t
                 PROVE  /\ waiting'[u] = NoThread
                        /\ queue'[u] # "queued" \/ (faults' = faults + 1 /\ queue'[u] = queue[u])
      OBVIOUS
    <3>1. u = Upd(t)
      BY <2>1
    <3>2. CASE Acknowledge(t)
      BY <3>1, <3>2 DEF Acknowledge, Typed
    <3>3. CASE Reject(t)
      <4>1. waiting'[u] = NoThread
        BY <3>3 DEF Reject
      <4>2. CASE faults < MaxFaults
        BY <3>3, <4>1, <4>2 DEF Reject
      <4>3. CASE ~(faults < MaxFaults)
        <5>1. queue' = [queue EXCEPT ![Upd(t)] =
                           IF waiting[Upd(t)] = t THEN "dropped" ELSE queue[Upd(t)]]
          BY <3>3, <4>3 DEF Reject
        <5> QED BY <3>1, <4>1, <5>1 DEF Typed
      <4> QED BY <4>2, <4>3
    <3> QED BY <1>3, <3>2, <3>3 DEF Ends
  <2>5. ASSUME NEW u \in Updates, waiting[u] # t, waiting[u] # NoThread
        PROVE  waiting[u] \in Threads /\ thr'[waiting[u]] = thr[waiting[u]]
    BY <1>0, <2>5 DEF Others, Typed
  <2>6. Awaited'
    <3> SUFFICES ASSUME NEW u \in Updates, waiting'[u] # NoThread
                 PROVE  /\ queue'[u] = "queued" /\ Busy(waiting[u], u)'
                        /\ thr'[waiting'[u]].n <= faults' + 1
      BY <2>3, <2>4 DEF Awaited, Busy
    <3>1. waiting[u] # t /\ waiting'[u] = waiting[u] /\ queue'[u] = queue[u]
      BY <2>3, <2>4
    <3>2. /\ queue[u] = "queued" /\ Busy(waiting[u], u)
          /\ thr[waiting[u]].n <= faults + 1
      BY <3>1 DEF Awaited
    <3>3. thr'[waiting[u]] = thr[waiting[u]] /\ thr[waiting[u]].n \in Nat
      BY <1>1, <2>5, <3>1
    <3> QED BY <2>2, <3>1, <3>2, <3>3 DEF Busy
  <2>7. ASSUME NEW u \in Updates PROVE Last(u) <= Last(u)'
    <3>1. CASE waiting[u] # t
      BY <1>1, <2>2, <2>3, <2>5, <3>1 DEF Last
    <3>2. CASE waiting[u] = t
      <4>1. Last(u) = thr[t].n /\ thr[t].n <= faults + 1 /\ thr[t].n \in 1 .. MaxFaults + 1
        BY <1>0, <1>1, <3>2 DEF Last, Awaited
      <4>2. Last(u)' = MaxFaults + 1 \/ (Last(u)' = faults' /\ faults' = faults + 1)
        BY <2>4, <3>2, WebhookAssumption DEF Last
      <4> QED BY <2>2, <4>1, <4>2
    <3> QED BY <3>1, <3>2
  <2> QED BY <2>6, <2>7
<1> QED BY <1>2, <1>3, StepGoesOnOrEnds

\* The deliveries under way after a step were so before, with their numbers.
LEMMA StepBusy ==
    ASSUME Typed, NEW t \in Threads, Step(t)
    PROVE  \A s \in Threads, u \in Updates : Busy(s, u)' =>
              Busy(s, u) /\ thr'[s].n = thr[s].n
<1>0. Others(t) /\ thr[t].pc # "idle"
  BY StepTyped
<1>1. CASE GoesOn(t)
  BY <1>0, <1>1 DEF GoesOn, Busy, Others
<1>2. CASE Ends(t)
  <2>1. thr'[t].pc = "idle"
    BY <1>0, <1>2, AcknowledgeUpdate, RejectUpdate DEF Ends
  <2> QED BY <1>0, <2>1 DEF Busy, Others
<1> QED BY <1>1, <1>2, StepGoesOnOrEnds

LEMMA LastType ==
    ASSUME Typed
    PROVE  \A u \in Updates : Last(u) \in 0 .. MaxFaults + 1
BY DEF Typed, Last, Handling, Deliveries

LEMMA NextLastType ==
    ASSUME Typed'
    PROVE  \A u \in Updates : Last(u)' \in 0 .. MaxFaults + 1
BY DEF Typed, Last, Handling, Deliveries

LEMMA StepNumbered ==
    ASSUME NInv, NEW t \in Threads, Step(t)
    PROVE  Numbered'
<1>1. Typed /\ Typed'
  BY StepTyped DEF NInv
<1>2. SUFFICES ASSUME NEW u \in Updates, NEW s \in Threads, Busy(s, u)'
               PROVE  /\ thr'[s].n <= Last(u)'
                      /\ \A r \in Threads : r # s /\ Busy(r, u)' => thr'[r].n # thr'[s].n
  BY DEF Numbered
<1>3. Busy(s, u) /\ thr'[s].n = thr[s].n
  BY <1>1, <1>2, StepBusy
<1>4. thr[s].n <= Last(u) /\ Last(u) <= Last(u)' /\ thr[s].n \in Nat
  BY <1>1, <1>3, StepLast DEF NInv, Numbered, Typed, Handling, Deliveries
<1>5. Last(u) \in Nat /\ Last(u)' \in Nat
  BY <1>1, LastType, NextLastType
<1>6. thr'[s].n <= Last(u)'
  BY <1>3, <1>4, <1>5
<1>7. ASSUME NEW r \in Threads, r # s, Busy(r, u)' PROVE thr'[r].n # thr'[s].n
  <2>1. Busy(r, u) /\ thr'[r].n = thr[r].n
    BY <1>1, <1>7, StepBusy
  <2> QED BY <1>3, <1>7, <2>1 DEF NInv, Numbered
<1> QED BY <1>6, <1>7

\* Only Take counts, and what it takes is no longer to be taken.
LEMMA StepTaken ==
    ASSUME Typed, NEW t \in Threads, Step(t)
    PROVE  \/ /\ Take(t) /\ thr[t].pc \in {"exists", "create"}
              /\ thr'[t].pc = "dispatch"
           \/ /\ UNCHANGED taken
              /\ thr'[t].pc \in {"parse", "exists", "create"} =>
                    thr[t].pc \in {"parse", "exists", "create"}
<1>0. thr[t].pc # "idle" /\ Upd(t) \in Updates
  BY StepTyped
<1>1. ASSUME Take(t) PROVE thr'[t].pc = "dispatch"
  BY <1>0, <1>1, GotoUpdate DEF Take
<1>2. ASSUME Acknowledge(t) \/ Reject(t) PROVE thr'[t].pc = "idle"
  BY <1>0, <1>2, AcknowledgeUpdate, RejectUpdate
<1>3. CASE Parse(t)
  BY <1>3 DEF Parse, At
<1>4. CASE RecordExists(t)
  BY <1>1, <1>4 DEF RecordExists, At
<1>5. CASE RecordCreate(t)
  BY <1>1, <1>5 DEF RecordCreate, At
<1>6. CASE Dispatch(t)
  <2>1. PICK reply \in RepliesTo(Upd(t)) :
              thr' = [thr EXCEPT ![t].pc = "send", ![t].reply = reply]
    BY <1>6 DEF Dispatch
  <2>2. reply \in Reply /\ UNCHANGED taken
    BY <1>0, <1>6, RepliesType DEF Dispatch
  <2> QED BY <1>0, <2>1, <2>2, DispatchUpdate
<1>7. CASE Send(t)
  <2>1. PICK result \in {"shown", "lost", "unconfirmed"} :
              thr' = [thr EXCEPT ![t].reply = Rest(thr[t].reply, result = "shown")]
    BY <1>7 DEF Send
  <2>2. /\ thr[t].reply \in Reply /\ thr[t].reply.parts # <<>> /\ thr[t].pc = "send"
        /\ UNCHANGED taken
    BY <1>7 DEF Send, At, Typed, Handling
  <2>3. Rest(thr[t].reply, result = "shown") \in Reply
    BY <2>2, RestType
  <2> QED BY <2>1, <2>2, <2>3, ReplyUpdate
<1>8. CASE SendRaises(t)
  BY <1>2, <1>8, ReplyUpdate, OneType DEF SendRaises, At
<1>9. CASE Respond(t)
  BY <1>2, <1>9 DEF Respond
<1> QED BY <1>3, <1>4, <1>5, <1>6, <1>7, <1>8, <1>9 DEF Step

LEMMA StepCounted ==
    ASSUME NInv, NEW t \in Threads, Step(t)
    PROVE  Counted'
<1>1. Typed /\ Typed' /\ Others(t) /\ thr[t].pc # "idle" /\ Upd(t) \in Updates
  BY StepTyped DEF NInv
<1>2. SUFFICES ASSUME NEW u \in Updates
               PROVE  \E D \in SUBSET (1 .. Last(u)') : Taken(u, D)'
  BY DEF Counted
<1>3. PICK D \in SUBSET (1 .. Last(u)) : Taken(u, D)
  BY DEF NInv, Counted
<1>4. /\ Last(u) \in Nat /\ Last(u)' \in Nat /\ Last(u) <= Last(u)'
      /\ D \in SUBSET (1 .. Last(u)')
  <2>1. Last(u) \in Nat /\ Last(u)' \in Nat /\ Last(u) <= Last(u)'
    BY <1>1, LastType, NextLastType, StepLast
  <2> QED BY <1>3, <2>1
<1>5. \A s \in Threads : Busy(s, u)' => Busy(s, u) /\ thr'[s].n = thr[s].n
  BY <1>1, StepBusy
<1>6. CASE UNCHANGED taken /\ (thr'[t].pc \in {"parse", "exists", "create"} =>
                                  thr[t].pc \in {"parse", "exists", "create"})
  <2>1. \A s \in Threads : thr'[s].pc \in {"parse", "exists", "create"} =>
                              thr[s].pc \in {"parse", "exists", "create"}
    BY <1>1, <1>6 DEF Others
  <2>2. Taken(u, D)'
    BY <1>3, <1>5, <1>6, <2>1 DEF Taken
  <2> QED BY <1>4, <2>2
<1>7. CASE /\ Take(t) /\ thr[t].pc \in {"exists", "create"}
           /\ thr'[t].pc = "dispatch"
  <2>1. CASE u # Upd(t)
    <3>1. taken'[u] = taken[u]
      BY <1>7, <2>1 DEF Take, NInv, Typed
    <3>2. ~Busy(t, u)'
      BY <1>5, <2>1 DEF Busy, Upd
    <3>3. Taken(u, D)'
      BY <1>1, <1>3, <1>5, <3>1, <3>2 DEF Taken, Others
    <3> QED BY <1>4, <3>3
  <2>2. CASE u = Upd(t)
    <3>1. Busy(t, u) /\ thr[t].n \in 1 .. Last(u)
      BY <1>1, <1>4, <2>2 DEF NInv, Numbered, Busy, Upd, Typed, Handling, Deliveries
    <3>2. thr[t].n \notin D /\ Cardinality(D) = taken[u]
      BY <1>3, <1>7, <3>1 DEF Taken
    <3>3. IsFiniteSet(D)
      <4>1. 1 \in Int /\ Last(u) \in Int
        BY <1>4
      <4>2. IsFiniteSet(1 .. Last(u))
        BY <4>1, FS_Interval
      <4> QED BY <1>3, <4>2, FS_Subset
    <3>4. PICK E : E = D \cup {thr[t].n}
      OBVIOUS
    <3>9. Cardinality(E) = Cardinality(D) + 1
      BY <3>2, <3>3, <3>4, FS_AddElement
    <3>5. taken'[u] = taken[u] + 1
      BY <1>7, <2>2 DEF Take, NInv, Typed
    <3>6. E \in SUBSET (1 .. Last(u)')
      <4>1. thr[t].n \in 1 .. Last(u)'
        BY <1>4, <3>1
      <4> QED BY <1>4, <3>4, <4>1
    <3>7. ASSUME NEW s \in Threads, Busy(s, u)',
                 thr'[s].pc \in {"parse", "exists", "create"}
          PROVE  thr'[s].n \notin E
      <4>1. s # t /\ thr'[s] = thr[s] /\ Busy(s, u)
        BY <1>1, <1>5, <1>7, <3>7 DEF Others
      <4>2. thr[s].n \notin D
        BY <1>3, <3>7, <4>1 DEF Taken
      <4>3. thr[s].n # thr[t].n
        BY <3>1, <4>1 DEF NInv, Numbered
      <4> QED BY <3>4, <4>1, <4>2, <4>3
    <3>8. Taken(u, E)'
      BY <3>2, <3>5, <3>7, <3>9 DEF Taken
    <3> QED BY <3>6, <3>8
  <2> QED BY <2>1, <2>2
<1> QED BY <1>1, <1>6, <1>7, StepTaken

\* A thread logs to the delivery it handles.
Extended(t, result) ==
    \A u \in Updates, n \in Deliveries :
        log'[u][n] = IF u = Upd(t) /\ n = thr[t].n
                     THEN Append(log[u][n], [part |-> Head(thr[t].reply.parts),
                                             result |-> result])
                     ELSE log[u][n]

LEMMA LoggedType ==
    ASSUME NInv, NEW t \in Threads, thr[t].pc = "send", thr[t].reply.parts # <<>>,
           NEW result \in {"shown", "lost", "unconfirmed", "raised"},
           Logged(t, result)
    PROVE  /\ log' \in [Updates -> [Deliveries -> Seq(Attempt)]]
           /\ Extended(t, result)
<1> DEFINE a == [part |-> Head(thr[t].reply.parts), result |-> result]
<1>1. /\ log \in [Updates -> [Deliveries -> Seq(Attempt)]]
      /\ Upd(t) \in Updates /\ thr[t].n \in Deliveries
  BY DEF NInv, Tracked, Typed, Handling, Upd
<1>2. thr[t].reply.parts \in Seq(Part)
  BY DEF NInv, Typed, Handling, Reply
<1>3. a \in Attempt
  BY <1>2, HeadTailProperties DEF Attempt
<1>4. log' = [log EXCEPT ![Upd(t)][thr[t].n] = Append(log[Upd(t)][thr[t].n], a)]
  BY <1>1 DEF Logged
<1> HIDE DEF a
<1>5. \A L \in Seq(Attempt) : Append(L, a) \in Seq(Attempt)
  BY <1>3, AppendProperties
<1>6. log[Upd(t)][thr[t].n] \in Seq(Attempt)
  BY <1>1
<1>7. Append(log[Upd(t)][thr[t].n], a) \in Seq(Attempt)
  BY <1>5, <1>6
<1> DEFINE b == Append(log[Upd(t)][thr[t].n], a)
<1>8. b \in Seq(Attempt) /\ log' = [log EXCEPT ![Upd(t)][thr[t].n] = b]
  BY <1>4, <1>7
<1>9. \A u \in Updates, n \in Deliveries :
        log'[u][n] = IF u = Upd(t) /\ n = thr[t].n THEN b ELSE log[u][n]
  <2> HIDE DEF b
  <2> QED BY <1>1, <1>8
<1>10. log' \in [Updates -> [Deliveries -> Seq(Attempt)]]
  <2> HIDE DEF b
  <2> QED BY <1>1, <1>8
<1> QED BY <1>9, <1>10 DEF a, Extended

LEMMA StepTracked ==
    ASSUME NInv, NEW t \in Threads, Step(t)
    PROVE  Tracked'
<1> USE DEF NInv
<1>0. Upd(t) \in Updates
  BY StepTyped
<1>1. log' \in [Updates -> [Deliveries -> Seq(Attempt)]]
  <2>1. CASE Send(t) \/ SendRaises(t)
    <3>1. PICK result \in {"shown", "lost", "unconfirmed", "raised"} : Logged(t, result)
      BY <2>1 DEF Send, SendRaises
    <3>2. thr[t].pc = "send" /\ thr[t].reply.parts # <<>>
      BY <2>1 DEF Send, SendRaises, At
    <3> QED BY <3>1, <3>2, LoggedType
  <2>2. CASE ~(Send(t) \/ SendRaises(t))
    <3>1. log' = log
      BY <2>2 DEF Step, Parse, RecordExists, RecordCreate, Take, Dispatch, Respond
    <3> QED BY <3>1 DEF Tracked
  <2> QED BY <2>1, <2>2
<1>2. \A u \in Updates : rows'[u] <= taken'[u]
  <2>1. CASE Take(t)
    <3>1. rows' = rows \/ rows' = [rows EXCEPT ![Upd(t)] = rows[Upd(t)] + 1]
      BY <2>1 DEF Step, Parse, RecordExists, RecordCreate, Dispatch, Send, SendRaises, Respond
    <3>2. taken' = [taken EXCEPT ![Upd(t)] = taken[Upd(t)] + 1]
      BY <2>1 DEF Take
    <3> QED BY <1>0, <3>1, <3>2 DEF Tracked, Typed
  <2>2. CASE ~Take(t)
    <3>1. rows' = rows /\ taken' = taken
      BY <2>2 DEF Step, Parse, RecordExists, RecordCreate, Dispatch, Send, SendRaises, Respond
    <3> QED BY <3>1 DEF Tracked
  <2> QED BY <2>1, <2>2
<1>3. handled' \subseteq Updates /\ cut' \subseteq Updates /\ excused' \subseteq Updates
  BY <1>0 DEF Tracked, Step, Parse, RecordExists, RecordCreate, Take, Dispatch, Send,
              SendRaises, Respond
<1> QED BY <1>1, <1>2, <1>3 DEF Tracked

LEMMA DeliverNumbered ==
    ASSUME NInv, NEW u \in Updates, Deliver(u)
    PROVE  NInv' /\ \A v \in Updates : Last(v) <= Last(v)'
<1> USE DEF NInv
<1>1. /\ Typed'
      /\ UNCHANGED <<queue, rows, faults, log, taken, handled, cut, excused>>
  BY DeliverUpdate
<1>2. PICK t \in Threads :
        /\ thr[t].pc = "idle" /\ thr'[t].pc = "parse" /\ thr'[t].upd = u
        /\ thr'[t].n = faults + 1 /\ queue[u] = "queued"
        /\ waiting[u] = NoThread /\ waiting' = [waiting EXCEPT ![u] = t]
        /\ Others(t)
  BY DeliverUpdate
<1>3. \A v \in Updates : v # u => waiting'[v] = waiting[v]
  BY <1>2 DEF Typed
<1>4. waiting'[u] = t /\ t # NoThread /\ faults \in 0 .. MaxFaults
  BY <1>2 DEF Typed
<1>5. \A s \in Threads, v \in Updates : Busy(s, v)' =>
         \/ s = t /\ v = u
         \/ s # t /\ Busy(s, v) /\ thr'[s] = thr[s]
  BY <1>2 DEF Busy, Others
<1>6. \A v \in Updates : v # u /\ waiting[v] # NoThread =>
         waiting[v] \in Threads /\ waiting[v] # t /\ thr'[waiting[v]] = thr[waiting[v]]
  BY <1>2 DEF Awaited, Busy, Others, Typed
<1>7. Awaited'
  <2> SUFFICES ASSUME NEW v \in Updates, waiting'[v] # NoThread
               PROVE  /\ queue'[v] = "queued" /\ Busy(waiting[v], v)'
                      /\ thr'[waiting'[v]].n <= faults' + 1
    BY DEF Awaited
  <2>1. CASE v = u
    BY <1>1, <1>2, <1>4, <2>1 DEF Busy
  <2>2. CASE v # u
    BY <1>1, <1>3, <1>6, <2>2 DEF Awaited, Busy
  <2> QED BY <2>1, <2>2
<1>8. Last(u) = faults /\ Last(u)' = faults + 1
  BY <1>1, <1>2, <1>4 DEF Last
<1>9. \A v \in Updates : v # u => Last(v)' = Last(v)
  BY <1>1, <1>3, <1>6 DEF Last
<1>10. \A s \in Threads : thr[s].n \in Nat
  BY DEF Typed, Handling, Deliveries
<1>11. Numbered'
  <2> SUFFICES ASSUME NEW v \in Updates, NEW s \in Threads, Busy(s, v)'
               PROVE  /\ thr'[s].n <= Last(v)'
                      /\ \A r \in Threads : r # s /\ Busy(r, v)' => thr'[r].n # thr'[s].n
    BY DEF Numbered
  <2>1. CASE v # u
    BY <1>5, <1>9, <2>1 DEF Numbered
  <2>2. CASE v = u
    <3>1. \A r \in Threads : r # t /\ Busy(r, u)' => thr'[r].n = thr[r].n /\ thr[r].n <= faults
      BY <1>5, <1>8 DEF Numbered
    <3>2. \A r, q \in Threads : r # t /\ q # t /\ r # q /\ Busy(r, u)' /\ Busy(q, u)' =>
                                   thr'[r].n # thr'[q].n
      BY <1>5 DEF Numbered
    <3> QED BY <1>2, <1>4, <1>8, <1>10, <2>2, <3>1, <3>2
  <2> QED BY <2>1, <2>2
<1>12. Counted'
  <2> SUFFICES ASSUME NEW v \in Updates
               PROVE  \E D \in SUBSET (1 .. Last(v)') : Taken(v, D)'
    BY DEF Counted
  <2>1. PICK D \in SUBSET (1 .. Last(v)) : Taken(v, D)
    BY DEF Counted
  <2>2. D \in SUBSET (1 .. Last(v)')
    BY <1>4, <1>8, <1>9, <2>1
  <2>3. v = u => faults + 1 \notin D
    BY <1>4, <1>8, <2>1
  <2>4. ASSUME NEW s \in Threads, Busy(s, v)',
               thr'[s].pc \in {"parse", "exists", "create"}
        PROVE  thr'[s].n \notin D
    BY <1>2, <1>5, <2>1, <2>3, <2>4 DEF Taken
  <2>5. Taken(v, D)'
    BY <1>1, <2>1, <2>4 DEF Taken
  <2> QED BY <2>2, <2>5
<1>13. Tracked'
  BY <1>1 DEF Tracked
<1>14. \A v \in Updates : Last(v) <= Last(v)'
  <2>1. \A v \in Updates : Last(v) \in Nat
    BY LastType
  <2> QED BY <1>4, <1>8, <1>9, <2>1
<1> QED BY <1>1, <1>7, <1>11, <1>12, <1>13, <1>14

\* Telegram gives up waiting and the worker is restarted: no thread takes a
\* new delivery, and no number is taken back.
LEMMA NumbersKept ==
    ASSUME NInv, Typed', UNCHANGED <<rows, log, taken>>, Awaited',
           \A s \in Threads, u \in Updates : Busy(s, u)' => Busy(s, u) /\ thr'[s] = thr[s],
           \A u \in Updates : Last(u) <= Last(u)'
    PROVE  Numbered' /\ Counted'
<1> USE DEF NInv
<1>1. \A u \in Updates : Last(u) \in Nat /\ Last(u)' \in Nat
  BY LastType, NextLastType
<1>2. \A s \in Threads : thr[s].n \in Nat
  BY DEF Typed, Handling, Deliveries
<1>3. Numbered'
  <2> SUFFICES ASSUME NEW u \in Updates, NEW s \in Threads, Busy(s, u)'
               PROVE  /\ thr'[s].n <= Last(u)'
                      /\ \A r \in Threads : r # s /\ Busy(r, u)' => thr'[r].n # thr'[s].n
    BY DEF Numbered
  <2>1. thr[s].n <= Last(u) /\ thr'[s] = thr[s]
    BY DEF Numbered
  <2> QED BY <1>1, <1>2, <2>1 DEF Numbered
<1>4. Counted'
  <2> SUFFICES ASSUME NEW u \in Updates
               PROVE  \E D \in SUBSET (1 .. Last(u)') : Taken(u, D)'
    BY DEF Counted
  <2>1. PICK D \in SUBSET (1 .. Last(u)) : Taken(u, D)
    BY DEF Counted
  <2>2. D \in SUBSET (1 .. Last(u)')
    BY <1>1, <2>1
  <2>3. Taken(u, D)'
    BY <2>1 DEF Taken
  <2> QED BY <2>2, <2>3
<1> QED BY <1>3, <1>4

LEMMA GiveUpNumbered ==
    ASSUME NInv, NEW u \in Updates, GiveUp(u)
    PROVE  NInv' /\ \A v \in Updates : Last(v) <= Last(v)'
<1> USE DEF NInv
<1>1. /\ UNCHANGED <<queue, thr, rows, log, taken, handled, cut>>
      /\ faults' = faults + 1 /\ faults < MaxFaults /\ excused' = excused \cup {u}
      /\ waiting' = [waiting EXCEPT ![u] = NoThread] /\ waiting[u] # NoThread
  BY DEF GiveUp
<1>2. Typed' /\ faults \in Nat
  BY <1>1 DEF Typed
<1>3. \A v \in Updates : v # u => waiting'[v] = waiting[v]
  BY <1>1 DEF Typed
<1>4. waiting'[u] = NoThread
  BY <1>1 DEF Typed
<1>5. \A s \in Threads : thr[s].n \in Nat
  BY DEF Typed, Handling, Deliveries
<1>6. \A v \in Updates : waiting[v] # NoThread => waiting[v] \in Threads
  BY DEF Typed
<1>7. Awaited'
  <2> SUFFICES ASSUME NEW v \in Updates, waiting'[v] # NoThread
               PROVE  /\ queue'[v] = "queued" /\ Busy(waiting[v], v)'
                      /\ thr'[waiting'[v]].n <= faults' + 1
    BY DEF Awaited
  <2> QED BY <1>1, <1>2, <1>3, <1>4, <1>5, <1>6 DEF Awaited, Busy
<1>8. \A v \in Updates : Last(v) <= Last(v)'
  <2>1. \A v \in Updates : v # u => Last(v) <= Last(v)'
    BY <1>1, <1>2, <1>3, <1>5, <1>6 DEF Last
  <2>2. Last(u) <= Last(u)'
    BY <1>1, <1>2, <1>4, <1>5, <1>6 DEF Last, Awaited
  <2> QED BY <2>1, <2>2
<1>9. \A s \in Threads, v \in Updates : Busy(s, v)' => Busy(s, v) /\ thr'[s] = thr[s]
  BY <1>1 DEF Busy
<1>10. Tracked'
  BY <1>1 DEF Tracked
<1> QED BY <1>1, <1>2, <1>7, <1>8, <1>9, <1>10, NumbersKept

LEMMA RestartNumbered ==
    ASSUME NInv, Restart
    PROVE  NInv' /\ \A v \in Updates : Last(v) <= Last(v)'
<1> USE DEF NInv
<1>1. /\ UNCHANGED <<queue, rows, log, taken, handled, excused>>
      /\ faults' = faults + 1 /\ faults < MaxFaults
      /\ waiting' = [u \in Updates |-> NoThread]
  BY DEF Restart
<1>2. Typed' /\ \A t \in Threads : thr'[t].pc = "idle"
  BY RestartUpdate
<1>3. \A s \in Threads : thr[s].n \in Nat
  BY DEF Typed, Handling, Deliveries
<1>4. Awaited'
  BY <1>1 DEF Awaited
<1>5. \A u \in Updates : Last(u) <= Last(u)'
  <2> SUFFICES ASSUME NEW u \in Updates PROVE Last(u) <= Last(u)'
    OBVIOUS
  <2>1. faults \in Nat /\ waiting'[u] = NoThread
    BY <1>1 DEF Typed
  <2>2. waiting[u] # NoThread => thr[waiting[u]].n <= faults + 1 /\ thr[waiting[u]].n \in Nat
    BY <1>3 DEF Awaited, Typed
  <2> QED BY <1>1, <2>1, <2>2 DEF Last
<1>6. \A s \in Threads, u \in Updates : Busy(s, u)' => Busy(s, u) /\ thr'[s] = thr[s]
  BY <1>2 DEF Busy
<1>7. Tracked'
  <2>1. cut' \subseteq Updates
    BY DEF Restart, Tracked, Typed, At, Upd
  <2> QED BY <1>1, <2>1 DEF Tracked
<1> QED BY <1>1, <1>2, <1>4, <1>5, <1>6, <1>7, NumbersKept

LEMMA NextNumbered == ASSUME NInv, [Next]_vars PROVE NInv'
<1>1. ASSUME NEW t \in Threads, Step(t) PROVE NInv'
  BY <1>1, StepTyped, StepLast, StepNumbered, StepCounted, StepTracked DEF NInv
<1>2. CASE UNCHANGED vars
  <2>1. \A u \in Updates : Last(u)' = Last(u)
    BY <1>2 DEF vars, Last
  <2>2. \A u \in Updates : \A D \in SUBSET (1 .. Last(u)) : Taken(u, D) => Taken(u, D)'
    BY <1>2 DEF vars, Taken, Busy
  <2>3. Counted'
    BY <2>1, <2>2 DEF NInv, Counted
  <2>4. Numbered'
    BY <1>2, <2>1 DEF NInv, Numbered, vars, Busy
  <2>5. Typed' /\ Awaited' /\ Tracked'
    BY <1>2 DEF NInv, vars, Typed, Awaited, Tracked, Busy
  <2> QED BY <2>3, <2>4, <2>5 DEF NInv
<1> QED BY <1>1, <1>2, DeliverNumbered, GiveUpNumbered, RestartNumbered DEF Next

LEMMA InitNumbered == ASSUME Init PROVE NInv
<1>1. \A t \in Threads : thr[t].pc = "idle"
  BY IdleType DEF Init
<1>2. Awaited /\ Numbered
  BY <1>1 DEF Init, Awaited, Numbered, Busy
<1>3. Counted
  <2> SUFFICES ASSUME NEW u \in Updates
               PROVE  \E D \in SUBSET (1 .. Last(u)) : Taken(u, D)
    BY DEF Counted
  <2>1. Taken(u, {})
    BY FS_EmptySet DEF Init, Taken
  <2> QED BY <2>1
<1>4. Tracked
  <2>1. <<>> \in Seq(Attempt)
    BY EmptySeq
  <2> QED BY <2>1 DEF Init, Tracked
<1> QED BY <1>2, <1>3, <1>4, InitTyped DEF NInv

THEOREM NumberedInductive == Spec => []NInv
<1>1. Init => NInv
  BY InitNumbered
<1>2. NInv /\ [Next]_vars => NInv'
  BY NextNumbered
<1> QED BY <1>1, <1>2, PTL DEF Spec

\* So many deliveries are taken as there are numbers, at most.
LEMMA NumberedTypeOK == ASSUME NInv PROVE TypeOK
<1> USE DEF NInv
<1>1. \A u \in Updates : taken[u] <= MaxFaults + 1
  <2> SUFFICES ASSUME NEW u \in Updates PROVE taken[u] <= MaxFaults + 1
    OBVIOUS
  <2>1. PICK D \in SUBSET (1 .. Last(u)) : Cardinality(D) = taken[u]
    BY DEF Counted, Taken
  <2>2. D \subseteq 1 .. MaxFaults + 1
    BY <2>1, LastType
  <2>3. IsFiniteSet(1 .. MaxFaults + 1) /\ Cardinality(1 .. MaxFaults + 1) = MaxFaults + 1
    BY FS_Interval
  <2>4. Cardinality(D) <= Cardinality(1 .. MaxFaults + 1)
    BY <2>2, <2>3, FS_Subset
  <2> QED BY <2>1, <2>3, <2>4
<1>2. taken \in [Updates -> 0 .. MaxFaults + 1]
  BY <1>1 DEF Typed
<1>3. rows \in [Updates -> 0 .. MaxFaults + 1]
  BY <1>1 DEF Typed, Tracked
<1> QED BY <1>2, <1>3 DEF TypeOK, Typed, Tracked, Awaited, Busy

(***************************************************************************)
(* The types of the webhook's state: a message is recorded and taken once  *)
(* per fault and once more at most, and Telegram waits for a thread only   *)
(* while that thread handles the update.                                   *)
(***************************************************************************)
THEOREM WebhookTypes == Spec => []TypeOK
<1>1. NInv => TypeOK
  BY NumberedTypeOK
<1> QED BY <1>1, NumberedInductive, PTL
-----------------------------------------------------------------------------
\* The sends of one delivery of a split reply: chunks in their order, each
\* after sends that were confirmed.
Ordered(sends) ==
    \A i \in DOMAIN sends :
        /\ sends[i].part.what = "chunk" => sends[i].part.nr = i
        /\ \A j \in 1 .. i - 1 : sends[j].result = "shown"
LogOrdered == \A u \in Updates, n \in Deliveries : KindOf[u] = "split" => Ordered(log[u][n])

\* What is still to be sent goes on where the sends so far ended.
Continues(parts, sends) ==
    parts # <<>> =>
        /\ \A i \in DOMAIN sends : sends[i].result = "shown"
        /\ \A j \in DOMAIN parts : parts[j].what = "chunk" => parts[j].nr = Len(sends) + j

Splitting(t) == thr[t].pc # "idle" /\ KindOf[thr[t].upd] = "split"
ToContinue ==
    \A t \in Threads : Splitting(t) =>
        /\ thr[t].pc # "send" => log[thr[t].upd][thr[t].n] = <<>>
        /\ thr[t].pc = "send" =>
              /\ thr[t].reply.mode = "stop"
              /\ Continues(thr[t].reply.parts, log[thr[t].upd][thr[t].n])

\* Nothing was sent for a delivery to come.
Unsent == \A u \in Updates, n \in Deliveries : n > Last(u) => log[u][n] = <<>>

CInv == NInv /\ LogOrdered /\ ToContinue /\ Unsent

\* Another send after the confirmed ones, and what is left then.
LEMMA NextSend ==
    ASSUME NEW sends \in Seq(Attempt), Ordered(sends), NEW parts \in Seq(Part),
           parts # <<>>, Continues(parts, sends),
           NEW result \in {"shown", "lost", "unconfirmed", "raised"},
           NEW more, more = Append(sends, [part |-> Head(parts), result |-> result])
    PROVE  /\ Ordered(more)
           /\ result = "shown" => Continues(Tail(parts), more)
<1> DEFINE a == [part |-> Head(parts), result |-> result]
<1>1. Head(parts) = parts[1] /\ 1 \in DOMAIN parts /\ Head(parts) \in Part
  BY HeadTailProperties, LenProperties
<1>2. a.part = parts[1] /\ a.result = result /\ a \in Attempt
  BY <1>1 DEF Attempt
<1> HIDE DEF a
<1>3. /\ Len(more) = Len(sends) + 1 /\ DOMAIN more = 1 .. Len(more)
      /\ \A i \in 1 .. Len(sends) : more[i] = sends[i]
      /\ more[Len(sends) + 1] = a
      /\ DOMAIN sends = 1 .. Len(sends) /\ Len(sends) \in Nat
  <2>1. more = Append(sends, a)
    BY DEF a
  <2> QED BY <1>2, <2>1, AppendProperties, LenProperties
<1>4. Ordered(more)
  <2> SUFFICES ASSUME NEW i \in 1 .. Len(more)
               PROVE  /\ more[i].part.what = "chunk" => more[i].part.nr = i
                      /\ \A j \in 1 .. i - 1 : more[j].result = "shown"
    BY <1>3 DEF Ordered
  <2>1. \A j \in 1 .. Len(sends) : more[j].result = "shown"
    BY <1>3 DEF Continues
  <2>2. CASE i \in 1 .. Len(sends)
    BY <1>3, <2>1, <2>2 DEF Ordered
  <2>3. CASE i = Len(sends) + 1
    BY <1>1, <1>2, <1>3, <2>1, <2>3 DEF Continues
  <2> QED BY <1>3, <2>2, <2>3
<1>5. ASSUME result = "shown" PROVE Continues(Tail(parts), more)
  <2>1. /\ Tail(parts) \in Seq(Part) /\ Len(Tail(parts)) = Len(parts) - 1
        /\ \A j \in 1 .. Len(parts) - 1 : Tail(parts)[j] = parts[j + 1]
        /\ DOMAIN Tail(parts) = 1 .. Len(parts) - 1
        /\ DOMAIN parts = 1 .. Len(parts) /\ Len(parts) \in Nat
    BY HeadTailProperties, LenProperties
  <2>2. \A i \in DOMAIN more : more[i].result = "shown"
    BY <1>2, <1>3, <1>5 DEF Continues
  <2>3. ASSUME NEW j \in 1 .. Len(parts) - 1, Tail(parts)[j].what = "chunk"
        PROVE  Tail(parts)[j].nr = Len(more) + j
    BY <1>3, <2>1, <2>3 DEF Continues
  <2> QED BY <2>1, <2>2, <2>3 DEF Continues
<1> QED BY <1>4, <1>5

LEMMA StepUnsent ==
    ASSUME CInv, NEW t \in Threads, Step(t)
    PROVE  Unsent'
<1> USE DEF CInv
<1>1. Typed /\ Typed' /\ Upd(t) \in Updates /\ thr[t].pc # "idle"
  BY StepTyped DEF NInv
<1>2. \A u \in Updates : Last(u) \in Nat /\ Last(u)' \in Nat /\ Last(u) <= Last(u)'
  BY <1>1, LastType, NextLastType, StepLast
<1>3. thr[t].n <= Last(Upd(t))
  BY <1>1 DEF NInv, Numbered, Busy, Upd
<1>4. ASSUME NEW u \in Updates, NEW n \in Deliveries, n > Last(u)
      PROVE  log'[u][n] = log[u][n]
  <2>1. ~(u = Upd(t) /\ n = thr[t].n)
    BY <1>2, <1>3, <1>4 DEF Deliveries
  <2>2. CASE Send(t) \/ SendRaises(t)
    <3>1. PICK result \in {"shown", "lost", "unconfirmed", "raised"} : Logged(t, result)
      BY <2>2 DEF Send, SendRaises
    <3>2. thr[t].pc = "send" /\ thr[t].reply.parts # <<>>
      BY <2>2 DEF Send, SendRaises, At
    <3>3. Extended(t, result)
      BY <3>1, <3>2, LoggedType
    <3> QED BY <2>1, <3>3 DEF Extended
  <2>3. CASE ~(Send(t) \/ SendRaises(t))
    BY <2>3 DEF Step, Parse, RecordExists, RecordCreate, Take, Dispatch, Respond
  <2> QED BY <2>2, <2>3
<1>5. ASSUME NEW u \in Updates, NEW n \in Deliveries, n > Last(u)'
      PROVE  log'[u][n] = <<>>
  <2>1. n > Last(u)
    BY <1>2, <1>5 DEF Deliveries
  <2> QED BY <1>4, <2>1 DEF Unsent
<1> QED BY <1>5 DEF Unsent

LEMMA FirstParts ==
    ASSUME NEW u \in Updates, KindOf[u] = "split", NEW reply \in RepliesTo(u)
    PROVE  reply.mode = "stop" /\ Continues(reply.parts, <<>>)
<1>1. CASE \E what \in {"unauthorized", "unavailable"} : reply = One(what)
  BY <1>1 DEF One, Words, Continues
<1>2. CASE reply = [parts |-> [i \in 1 .. Chunks |-> [what |-> "chunk", nr |-> i]],
                    mode |-> "stop"]
  BY <1>2 DEF Continues
<1> QED BY <1>1, <1>2 DEF RepliesTo

\* A step that sends nothing.
LEMMA SilentStep ==
    ASSUME CInv, NEW t \in Threads, Step(t), ~Send(t), ~SendRaises(t)
    PROVE  LogOrdered' /\ ToContinue'
<1> USE DEF CInv
<1>1. log' = log
  BY DEF Step, Parse, RecordExists, RecordCreate, Take, Dispatch, Respond
<1>2. /\ Typed /\ Others(t) /\ Upd(t) \in Updates /\ thr[t].pc # "idle"
      /\ thr'[t].pc # "idle" => thr'[t].upd = thr[t].upd
  BY StepTyped DEF NInv
<1>3. thr'[t].pc # "idle" => thr'[t].n = thr[t].n
  BY <1>2, StepBusy DEF Busy, Upd
<1>4. CASE Dispatch(t)
  <2>1. PICK reply \in RepliesTo(Upd(t)) :
              thr' = [thr EXCEPT ![t].pc = "send", ![t].reply = reply]
    BY <1>4 DEF Dispatch
  <2>2. reply \in Reply /\ thr[t].pc = "dispatch"
    BY <1>2, <1>4, RepliesType DEF Dispatch, At
  <2>3. /\ thr'[t].pc = "send" /\ thr'[t].upd = thr[t].upd /\ thr'[t].n = thr[t].n
        /\ thr'[t].reply = reply
    BY <1>2, <2>1, <2>2, DispatchUpdate
  <2>4. KindOf[Upd(t)] = "split" => reply.mode = "stop" /\ Continues(reply.parts, <<>>)
    BY <1>2, FirstParts
  <2>5. Splitting(t) => log[thr[t].upd][thr[t].n] = <<>>
    BY <2>2 DEF ToContinue
  <2>6. ASSUME Splitting(t)' 
        PROVE  /\ thr'[t].reply.mode = "stop"
               /\ Continues(thr'[t].reply.parts, log'[thr'[t].upd][thr'[t].n])
    BY <1>1, <1>2, <2>3, <2>4, <2>5, <2>6 DEF Splitting, Upd
  <2>7. ToContinue'
    BY <1>1, <1>2, <2>3, <2>6 DEF ToContinue, Splitting, Others
  <2> QED BY <1>1, <2>7 DEF LogOrdered
<1>5. CASE ~Dispatch(t)
  <2>1. thr'[t].pc # "send" /\ (thr'[t].pc # "idle" => thr[t].pc # "send")
    <3>1. Acknowledge(t) \/ Reject(t) => thr'[t].pc = "idle"
      BY <1>2, AcknowledgeUpdate, RejectUpdate
    <3>2. Take(t) => thr'[t].pc = "dispatch"
      BY <1>2, GotoUpdate DEF Take
    <3>3. Goto(t, "exists") => thr'[t].pc = "exists"
      BY <1>2, GotoUpdate
    <3>4. Goto(t, "create") => thr'[t].pc = "create"
      BY <1>2, GotoUpdate
    <3> QED BY <1>5, <3>1, <3>2, <3>3, <3>4
            DEF Step, Parse, RecordExists, RecordCreate, Respond, At
  <2>2. ToContinue'
    BY <1>1, <1>2, <1>3, <2>1 DEF ToContinue, Splitting, Others
  <2> QED BY <1>1, <2>2 DEF LogOrdered
<1> QED BY <1>4, <1>5

\* A step that sends logs to its own delivery, which no other thread handles.
LEMMA SendingStep ==
    ASSUME CInv, NEW t \in Threads, Send(t) \/ SendRaises(t)
    PROVE  LogOrdered' /\ ToContinue'
<1> USE DEF CInv
<1> DEFINE u == thr[t].upd
           n == thr[t].n
           parts == thr[t].reply.parts
<1>1. /\ Typed /\ Others(t) /\ u \in Updates /\ thr[t].pc # "idle"
      /\ thr'[t].pc # "idle" => thr'[t].upd = u
  BY StepTyped DEF NInv, Step, Upd
<1>2. thr'[t].pc # "idle" => thr'[t].n = n
  BY <1>1, StepBusy DEF Busy, Upd, Step
<1>3. /\ thr[t].pc = "send" /\ parts # <<>> /\ n \in Deliveries
      /\ thr[t].reply \in Reply /\ parts \in Seq(Part)
  BY <1>1 DEF Send, SendRaises, At, Typed, Handling, Reply
<1>4. PICK result \in {"shown", "lost", "unconfirmed", "raised"} :
         /\ Logged(t, result)
         /\ \/ thr' = [thr EXCEPT ![t].reply = Rest(thr[t].reply, result = "shown")]
            \/ thr[t].reply.mode = "photo"
            \/ Reject(t)
  <2>1. CASE Send(t)
    BY <2>1 DEF Send
  <2>2. CASE SendRaises(t)
    BY <2>2 DEF SendRaises
  <2> QED BY <2>1, <2>2
<1>5. \A v \in Updates, m \in Deliveries :
         log'[v][m] = IF v = u /\ m = n
                      THEN Append(log[v][m], [part |-> Head(parts), result |-> result])
                      ELSE log[v][m]
  <2>1. Extended(t, result)
    BY <1>3, <1>4, LoggedType
  <2> QED BY <2>1 DEF Extended, Upd
<1>6. log[u][n] \in Seq(Attempt)
  BY <1>1, <1>3 DEF NInv, Tracked
<1>7. KindOf[u] = "split" =>
         /\ thr[t].reply.mode = "stop"
         /\ Ordered(log'[u][n])
         /\ result = "shown" => Continues(Tail(parts), log'[u][n])
  <2> SUFFICES ASSUME KindOf[u] = "split"
               PROVE  /\ thr[t].reply.mode = "stop"
                      /\ Ordered(log'[u][n])
                      /\ result = "shown" => Continues(Tail(parts), log'[u][n])
    OBVIOUS
  <2>1. thr[t].reply.mode = "stop" /\ Continues(parts, log[u][n]) /\ Ordered(log[u][n])
    BY <1>1, <1>3 DEF ToContinue, Splitting, LogOrdered
  <2>2. log'[u][n] = Append(log[u][n], [part |-> Head(parts), result |-> result])
    BY <1>1, <1>3, <1>5
  <2> HIDE DEF u, n, parts
  <2> QED BY <1>3, <1>6, <2>1, <2>2, NextSend
<1>8. LogOrdered'
  BY <1>1, <1>3, <1>5, <1>7 DEF LogOrdered
<1>9. ASSUME NEW s \in Threads, s # t, Splitting(s)'
      PROVE  thr'[s] = thr[s] /\ log'[thr[s].upd][thr[s].n] = log[thr[s].upd][thr[s].n]
  <2>1. thr'[s] = thr[s]
    BY <1>1, <1>9 DEF Others
  <2>2. /\ thr[s].upd \in Updates /\ thr[s].n \in Deliveries
        /\ thr[s].upd = u => thr[s].n # n
    BY <1>1, <1>9, <2>1 DEF NInv, Numbered, Busy, Splitting, Typed, Handling
  <2> QED BY <1>5, <2>1, <2>2
<1>10. ASSUME Splitting(t)'
       PROVE  /\ thr'[t].pc = "send" /\ thr'[t].reply.mode = "stop"
              /\ Continues(thr'[t].reply.parts, log'[u][n])
  <2>1. KindOf[u] = "split"
    BY <1>1, <1>10 DEF Splitting
  <2>2. CASE thr' = [thr EXCEPT ![t].reply = Rest(thr[t].reply, result = "shown")]
    <3>1. Rest(thr[t].reply, result = "shown") \in Reply
      BY <1>3, RestType
    <3>2. /\ thr'[t].pc = "send"
          /\ thr'[t].reply = Rest(thr[t].reply, result = "shown")
      BY <1>1, <1>3, <1>4, <2>2, <3>1, ReplyUpdate
    <3>3. CASE result = "shown"
      <4>1. thr'[t].reply = [thr[t].reply EXCEPT !.parts = Tail(parts)]
        BY <3>2, <3>3 DEF Rest
      <4>2. thr'[t].reply.parts = Tail(parts) /\ thr'[t].reply.mode = thr[t].reply.mode
        BY <1>3, <4>1 DEF Reply
      <4> QED BY <1>7, <2>1, <3>2, <3>3, <4>2
    <3>4. CASE result # "shown"
      <4>1. thr'[t].reply = NoReply
        BY <1>7, <2>1, <3>2, <3>4 DEF Rest
      <4> QED BY <3>2, <4>1 DEF NoReply, Continues
    <3> QED BY <3>3, <3>4
  <2>3. CASE Reject(t)
    BY <1>1, <1>10, <2>3, RejectUpdate DEF Splitting
  <2> QED BY <1>4, <1>7, <2>1, <2>2, <2>3
<1>11. ToContinue'
  <2> SUFFICES ASSUME NEW s \in Threads, Splitting(s)'
               PROVE  /\ thr'[s].pc # "send" => log'[thr'[s].upd][thr'[s].n] = <<>>
                      /\ thr'[s].pc = "send" =>
                            /\ thr'[s].reply.mode = "stop"
                            /\ Continues(thr'[s].reply.parts, log'[thr'[s].upd][thr'[s].n])
    BY DEF ToContinue
  <2>1. CASE s = t
    BY <1>1, <1>2, <1>10, <2>1 DEF Splitting
  <2>2. CASE s # t
    BY <1>9, <2>2 DEF ToContinue, Splitting
  <2> QED BY <2>1, <2>2
<1> QED BY <1>8, <1>11

LEMMA NextContinues == ASSUME CInv, [Next]_vars PROVE CInv'
<1> USE DEF CInv
<1>1. NInv'
  BY NextNumbered
<1>2. Typed /\ Typed'
  BY <1>1 DEF NInv
<1>3. ASSUME NEW t \in Threads, Step(t) PROVE CInv'
  BY <1>1, <1>3, StepUnsent, SilentStep, SendingStep
<1>4. ASSUME \A u \in Updates : Last(u) <= Last(u)', log' = log PROVE Unsent'
  <2>1. \A u \in Updates : Last(u) \in Nat /\ Last(u)' \in Nat
    BY <1>2, LastType, NextLastType
  <2> QED BY <1>4, <2>1 DEF Unsent, Deliveries
<1>5. ASSUME NEW u \in Updates, Deliver(u) PROVE CInv'
  <2>1. UNCHANGED <<faults, log>> /\ \A v \in Updates : Last(v) <= Last(v)'
    BY <1>5, DeliverUpdate, DeliverNumbered, <1>2
  <2>2. PICK t \in Threads :
          /\ thr'[t].pc = "parse" /\ thr'[t].upd = u /\ thr'[t].n = faults + 1
          /\ queue[u] = "queued" /\ waiting[u] = NoThread /\ Others(t)
    BY <1>2, <1>5, DeliverUpdate
  <2>3. log[u][faults + 1] = <<>>
    <3>1. Last(u) = faults /\ faults + 1 \in Deliveries /\ faults + 1 > faults
      BY <1>2, <2>2 DEF Last, Typed, Deliveries
    <3> QED BY <3>1 DEF Unsent
  <2>4. ToContinue'
    BY <2>1, <2>2, <2>3 DEF ToContinue, Splitting, Others
  <2>5. LogOrdered'
    BY <2>1 DEF LogOrdered
  <2> QED BY <1>1, <1>4, <2>1, <2>4, <2>5
<1>6. ASSUME NEW u \in Updates, GiveUp(u) PROVE CInv'
  <2>1. UNCHANGED <<thr, log>> /\ \A v \in Updates : Last(v) <= Last(v)'
    BY <1>6, GiveUpNumbered DEF GiveUp
  <2> QED BY <1>1, <1>4, <2>1 DEF LogOrdered, ToContinue, Splitting
<1>7. CASE Restart
  <2>1. /\ log' = log /\ \A v \in Updates : Last(v) <= Last(v)'
        /\ \A t \in Threads : thr'[t].pc = "idle"
    BY <1>2, <1>7, RestartNumbered, RestartUpdate DEF Restart
  <2> QED BY <1>1, <1>4, <2>1 DEF LogOrdered, ToContinue, Splitting
<1>8. CASE UNCHANGED vars
  <2>1. \A u \in Updates : Last(u)' = Last(u)
    BY <1>8 DEF vars, Last
  <2> QED BY <1>1, <1>8, <2>1 DEF vars, LogOrdered, ToContinue, Splitting, Unsent
<1> QED BY <1>3, <1>5, <1>6, <1>7, <1>8 DEF Next

LEMMA InitContinues == ASSUME Init PROVE CInv
<1>1. \A t \in Threads : thr[t].pc = "idle"
  BY IdleType DEF Init
<1>2. \A u \in Updates, n \in Deliveries : log[u][n] = <<>>
  BY DEF Init
<1>3. LogOrdered
  BY <1>2 DEF LogOrdered, Ordered
<1> QED BY <1>1, <1>2, <1>3, InitNumbered DEF CInv, ToContinue, Splitting, Unsent

\* All sends before a chunk were confirmed, so they are visible.
LEMMA OrderedWithoutGap == ASSUME CInv PROVE ChunksWithoutGap
<1> SUFFICES ASSUME NEW u \in Updates, NEW n \in Deliveries, KindOf[u] = "split",
                    NEW i \in DOMAIN log[u][n], Visible(log[u][n][i]),
                    log[u][n][i].part.what = "chunk"
             PROVE  log[u][n][i].part.nr =
                       Cardinality({j \in 1 .. i : Visible(log[u][n][j])})
  BY DEF ChunksWithoutGap
<1>1. log[u][n] \in Seq(Attempt) /\ Ordered(log[u][n])
  BY DEF CInv, NInv, Tracked, LogOrdered
<1>2. i \in Nat /\ i > 0
  BY <1>1, LenProperties
<1>3. log[u][n][i].part.nr = i /\ \A j \in 1 .. i - 1 : log[u][n][j].result = "shown"
  BY <1>1 DEF Ordered
<1>4. {j \in 1 .. i : Visible(log[u][n][j])} = 1 .. i
  BY <1>2, <1>3 DEF Visible
<1>5. Cardinality(1 .. i) = i
  BY <1>2, FS_Interval
<1> QED BY <1>3, <1>4, <1>5

(***************************************************************************)
(* What the operator sees of a split reply is its first chunks in their    *)
(* order, in every delivery: no chunk is sent after one that was not       *)
(* confirmed, and no other delivery of the message writes into its place.  *)
(***************************************************************************)
THEOREM SplitWithoutGap == Spec => []ChunksWithoutGap
<1>1. Init => CInv
  BY InitContinues
<1>2. CInv /\ [Next]_vars => CInv'
  BY NextContinues
<1>3. CInv => ChunksWithoutGap
  BY OrderedWithoutGap
<1> QED BY <1>1, <1>2, <1>3, PTL DEF Spec
=============================================================================
