-------------------------- MODULE RateLimiterProofs --------------------------
(***************************************************************************)
(* The rate limiter is a fixed-window limiter, and prunes at most once per *)
(* interval and process: proofs for any number of keys, threads, processes *)
(* and any limit and window.                                               *)
(***************************************************************************)
EXTENDS RateLimiter, TLAPS

\* No call has read a later time than the clock shows.
ReadsThePast == \A t \in Threads : thr[t].now <= clock /\ thr[t].mono <= clock

CallKey == \A t \in Threads : thr[t].pc # "idle" => thr[t].key \in Keys

\* Who prunes holds the lock, and knows when it began.
PrunerHoldsLock ==
    \A t \in Threads : thr[t].pc \in {"prune", "stamp"} =>
        lock[ProcOf[t]] = t /\ thr[t].mono = sweptAt[ProcOf[t]]

\* While nobody prunes, the stamp of the process is the last beginning.
StampIsLast ==
    \A p \in Procs : lock[p] = NoThread => lastCleanup[p] = sweptAt[p]

LInv == /\ TypeOK /\ ReadsThePast /\ CallKey /\ AttemptsKept
        /\ PrunerHoldsLock /\ StampIsLast

USE LimiterAssumption, RowAssumption
-----------------------------------------------------------------------------
\* The typed part of the invariant, and how one call of a thread changes.
LEMMA CallUpdate ==
    ASSUME TypeOK, NEW t \in Threads, NEW c \in Call, thr' = [thr EXCEPT ![t] = c]
    PROVE  /\ thr' \in [Threads -> Call] /\ thr'[t] = c
           /\ \A u \in Threads : u # t => thr'[u] = thr[u]
BY DEF TypeOK

LEMMA GotoUpdate ==
    ASSUME TypeOK, NEW t \in Threads, NEW pc, Goto(t, pc),
           pc \in {"idle", "gate", "lock", "prune", "stamp", "count"}
    PROVE  /\ thr' \in [Threads -> Call]
           /\ thr'[t].pc = pc /\ thr'[t].key = thr[t].key
           /\ thr'[t].now = thr[t].now /\ thr'[t].mono = thr[t].mono
           /\ \A u \in Threads : u # t => thr'[u] = thr[u]
<1> DEFINE c == [thr[t] EXCEPT !.pc = pc]
<1>1. thr[t] \in Call
  BY DEF TypeOK
<1>2. /\ c \in Call /\ c.pc = pc /\ c.key = thr[t].key
      /\ c.now = thr[t].now /\ c.mono = thr[t].mono
  BY <1>1 DEF Call
<1>3. thr' = [thr EXCEPT ![t] = c]
  BY <1>1 DEF Goto, TypeOK
<1> HIDE DEF c
<1> QED BY <1>2, <1>3, CallUpdate

LEMMA IdleCallType == IdleCall \in Call /\ IdleCall.pc = "idle"
                      /\ IdleCall.now = 0 /\ IdleCall.mono = 0
BY DEF IdleCall, Call, Time

LEMMA ReturnUpdate ==
    ASSUME TypeOK, NEW t \in Threads, Return(t)
    PROVE  /\ thr' \in [Threads -> Call] /\ thr'[t] = IdleCall
           /\ \A u \in Threads : u # t => thr'[u] = thr[u]
BY CallUpdate, IdleCallType DEF Return

LEMMA InitLInv == Init => LInv
<1> SUFFICES ASSUME Init PROVE LInv
  OBVIOUS
<1>1. TypeOK
  <2>1. clock \in Time /\ rows \in [Keys -> Row \cup {NoRow}]
    BY DEF Init, Time
  <2>2. thr \in [Threads -> Call]
    BY IdleCallType DEF Init
  <2>3. lock \in [Procs -> Threads \cup {NoThread}]
    BY DEF Init
  <2>4. Never \in Int /\ -WINDOW \in Int /\ 0 \in 0 .. Limit
    BY DEF Never
  <2>5. lastCleanup \in [Procs -> Int] /\ sweptAt \in [Procs -> Int]
    BY <2>4 DEF Init
  <2>6. opened \in [Keys -> Int] /\ granted \in [Keys -> 0 .. Limit]
    BY <2>4 DEF Init
  <2> QED BY <2>1, <2>2, <2>3, <2>5, <2>6 DEF TypeOK
<1>2. \A t \in Threads : thr[t].pc = "idle" /\ thr[t].now = 0 /\ thr[t].mono = 0
  BY IdleCallType DEF Init
<1>3. ReadsThePast /\ CallKey /\ PrunerHoldsLock
  BY <1>2 DEF Init, ReadsThePast, CallKey, PrunerHoldsLock
<1>4. AttemptsKept
  <2>1. -WINDOW + WINDOW <= 0
    OBVIOUS
  <2>2. \A k \in Keys : rows[k] = NoRow /\ opened[k] = -WINDOW /\ clock = 0
    BY DEF Init
  <2> QED BY <2>1, <2>2 DEF AttemptsKept
<1>5. StampIsLast
  BY DEF Init, StampIsLast
<1> QED BY <1>1, <1>3, <1>4, <1>5 DEF LInv
-----------------------------------------------------------------------------
LEMMA StepLInv ==
    ASSUME LInv, NEW t \in Threads, Step(t) \/ \E k \in Keys : Enter(t, k)
    PROVE  LInv'
<1> USE DEF LInv
<1>0. /\ thr[t] \in Call /\ clock \in Int /\ ProcOf[t] \in Procs
      /\ thr[t].now \in Time /\ thr[t].mono \in Time
  BY DEF TypeOK, Call, Time
<1>1. CASE \E k \in Keys : Enter(t, k)
  <2>1. PICK k \in Keys : Enter(t, k)
    BY <1>1
  <2> DEFINE c == [pc |-> "gate", key |-> k, now |-> clock, mono |-> 0]
  <2>2. c \in Call /\ c.now = clock /\ c.mono = 0 /\ c.pc = "gate" /\ c.key = k
    BY DEF Call, TypeOK, Time
  <2>3. thr' = [thr EXCEPT ![t] = c]
    BY <2>1 DEF Enter
  <2> HIDE DEF c
  <2>4. /\ thr' \in [Threads -> Call] /\ thr'[t] = c
        /\ \A u \in Threads : u # t => thr'[u] = thr[u]
    BY <2>2, <2>3, CallUpdate
  <2>5. UNCHANGED <<clock, rows, lock, lastCleanup, opened, granted, sweptAt>>
    BY <2>1 DEF Enter
  <2>6. TypeOK'
    BY <2>4, <2>5 DEF TypeOK
  <2>7. ReadsThePast' /\ CallKey' /\ PrunerHoldsLock'
    BY <2>2, <2>4, <2>5 DEF ReadsThePast, CallKey, PrunerHoldsLock, TypeOK, Time
  <2>8. AttemptsKept' /\ StampIsLast'
    BY <2>5 DEF AttemptsKept, StampIsLast
  <2> QED BY <2>6, <2>7, <2>8
<1>2. CASE Gate(t)
  <2>1. PICK pc \in {"count", "lock"} : Goto(t, pc)
    BY <1>2 DEF Gate
  <2>2. /\ thr' \in [Threads -> Call] /\ thr'[t].pc = pc /\ thr'[t].key = thr[t].key
        /\ thr'[t].now = thr[t].now /\ thr'[t].mono = thr[t].mono
        /\ \A u \in Threads : u # t => thr'[u] = thr[u]
    BY <2>1, GotoUpdate
  <2>3. UNCHANGED <<clock, rows, lock, lastCleanup, opened, granted, sweptAt>>
    BY <1>2 DEF Gate
  <2>4. TypeOK' /\ AttemptsKept' /\ StampIsLast'
    BY <2>2, <2>3 DEF TypeOK, AttemptsKept, StampIsLast
  <2>5. ReadsThePast' /\ CallKey' /\ PrunerHoldsLock'
    BY <1>2, <2>2, <2>3 DEF ReadsThePast, CallKey, PrunerHoldsLock, Gate, At
  <2> QED BY <2>4, <2>5
<1>3. CASE Acquire(t)
  <2> DEFINE p == ProcOf[t]
  <2>1. CASE RecentlyPruned(p)
    <3>1. Goto(t, "count") /\ UNCHANGED <<clock, rows, lock, lastCleanup, opened, granted, sweptAt>>
      BY <1>3, <2>1 DEF Acquire
    <3>2. /\ thr' \in [Threads -> Call] /\ thr'[t].pc = "count" /\ thr'[t].key = thr[t].key
          /\ thr'[t].now = thr[t].now /\ thr'[t].mono = thr[t].mono
          /\ \A u \in Threads : u # t => thr'[u] = thr[u]
      BY <3>1, GotoUpdate
    <3>3. TypeOK' /\ AttemptsKept' /\ StampIsLast'
      BY <3>1, <3>2 DEF TypeOK, AttemptsKept, StampIsLast
    <3>4. ReadsThePast' /\ CallKey' /\ PrunerHoldsLock'
      BY <1>3, <3>1, <3>2 DEF ReadsThePast, CallKey, PrunerHoldsLock, Acquire, At
    <3> QED BY <3>3, <3>4
  <2>2. CASE ~RecentlyPruned(p)
    <3> DEFINE c == [thr[t] EXCEPT !.pc = "prune", !.mono = clock]
    <3>1. /\ thr' = [thr EXCEPT ![t].pc = "prune", ![t].mono = clock]
          /\ lock[p] = NoThread /\ lock' = [lock EXCEPT ![p] = t]
          /\ sweptAt' = [sweptAt EXCEPT ![p] = clock]
          /\ UNCHANGED <<clock, rows, lastCleanup, opened, granted>>
          /\ thr[t].pc = "lock"
      BY <1>3, <2>2 DEF Acquire, At
    <3>2. c \in Call /\ c.pc = "prune" /\ c.mono = clock /\ c.now = thr[t].now
          /\ c.key = thr[t].key
      BY <1>0 DEF Call, TypeOK
    <3>3. thr' = [thr EXCEPT ![t] = c]
      BY <1>0, <3>1 DEF TypeOK
    <3> HIDE DEF c
    <3>4. /\ thr' \in [Threads -> Call] /\ thr'[t] = c
          /\ \A u \in Threads : u # t => thr'[u] = thr[u]
      BY <3>2, <3>3, CallUpdate
    <3>5. TypeOK'
      BY <3>1, <3>4 DEF TypeOK, Time
    <3>6. ReadsThePast' /\ CallKey'
      BY <1>0, <3>1, <3>2, <3>4 DEF ReadsThePast, CallKey
    <3>7. PrunerHoldsLock'
      <4> SUFFICES ASSUME NEW u \in Threads, thr'[u].pc \in {"prune", "stamp"}
                   PROVE  lock'[ProcOf[u]] = u /\ thr'[u].mono = sweptAt'[ProcOf[u]]
        BY DEF PrunerHoldsLock
      <4>1. CASE u = t
        BY <1>0, <3>1, <3>2, <3>4, <4>1 DEF TypeOK
      <4>2. CASE u # t
        <5>1. lock[ProcOf[u]] = u /\ thr[u].mono = sweptAt[ProcOf[u]] /\ ProcOf[u] \in Procs
          BY <3>4, <4>2 DEF PrunerHoldsLock
        <5>2. ProcOf[u] # p
          BY <3>1, <5>1
        <5> QED BY <3>1, <3>4, <4>2, <5>1, <5>2 DEF TypeOK
      <4> QED BY <4>1, <4>2
    <3>8. AttemptsKept'
      BY <3>1 DEF AttemptsKept
    <3>9. StampIsLast'
      BY <1>0, <3>1 DEF StampIsLast, TypeOK
    <3> QED BY <3>5, <3>6, <3>7, <3>8, <3>9
  <2> QED BY <2>1, <2>2
<1>4. CASE Prune(t)
  <2>1. /\ Goto(t, "stamp") /\ thr[t].pc = "prune"
        /\ UNCHANGED <<clock, lock, lastCleanup, opened, granted, sweptAt>>
    BY <1>4 DEF Prune, At
  <2>2. /\ thr' \in [Threads -> Call] /\ thr'[t].pc = "stamp" /\ thr'[t].key = thr[t].key
        /\ thr'[t].now = thr[t].now /\ thr'[t].mono = thr[t].mono
        /\ \A u \in Threads : u # t => thr'[u] = thr[u]
    BY <2>1, GotoUpdate
  <2>3. rows' \in [Keys -> Row \cup {NoRow}]
    BY <1>4 DEF Prune, TypeOK
  <2>4. TypeOK' /\ StampIsLast'
    BY <2>1, <2>2, <2>3 DEF TypeOK, StampIsLast
  <2>5. ReadsThePast' /\ CallKey' /\ PrunerHoldsLock'
    BY <2>1, <2>2 DEF ReadsThePast, CallKey, PrunerHoldsLock
  <2>6. AttemptsKept'
    <3> SUFFICES ASSUME NEW k \in Keys
                 PROVE  IF rows'[k] = NoRow THEN opened'[k] + WINDOW <= clock'
                        ELSE rows'[k].start = opened'[k] /\ rows'[k].attempts = granted'[k]
      BY DEF AttemptsKept
    <3>1. CASE rows'[k] = rows[k]
      BY <2>1, <3>1 DEF AttemptsKept
    <3>2. CASE rows'[k] # rows[k]
      <4>1. rows'[k] = NoRow /\ Prunable(rows[k], thr[t].now)
        BY <1>4, <3>2 DEF Prune
      <4>2. rows[k].start < thr[t].now - WINDOW /\ rows[k].start = opened[k]
        BY <4>1 DEF Prunable, AttemptsKept
      <4>3. opened[k] \in Int /\ WINDOW \in Int /\ thr[t].now <= clock /\ thr[t].now \in Int
        BY <1>0 DEF TypeOK, ReadsThePast, Time
      <4> QED BY <1>0, <2>1, <4>1, <4>2, <4>3
    <3> QED BY <3>1, <3>2
  <2> QED BY <2>4, <2>5, <2>6
<1>5. CASE Stamp(t)
  <2> DEFINE p == ProcOf[t]
  <2>1. /\ Goto(t, "count") /\ thr[t].pc = "stamp"
        /\ lastCleanup' = [lastCleanup EXCEPT ![p] = thr[t].mono]
        /\ lock' = [lock EXCEPT ![p] = NoThread]
        /\ UNCHANGED <<clock, rows, opened, granted, sweptAt>>
    BY <1>5 DEF Stamp, At
  <2>2. /\ thr' \in [Threads -> Call] /\ thr'[t].pc = "count" /\ thr'[t].key = thr[t].key
        /\ thr'[t].now = thr[t].now /\ thr'[t].mono = thr[t].mono
        /\ \A u \in Threads : u # t => thr'[u] = thr[u]
    BY <2>1, GotoUpdate
  <2>3. TypeOK'
    BY <1>0, <2>1, <2>2 DEF TypeOK, Time
  <2>4. ReadsThePast' /\ CallKey' /\ AttemptsKept'
    BY <2>1, <2>2 DEF ReadsThePast, CallKey, AttemptsKept
  <2>5. PrunerHoldsLock'
    <3> SUFFICES ASSUME NEW u \in Threads, thr'[u].pc \in {"prune", "stamp"}
                 PROVE  lock'[ProcOf[u]] = u /\ thr'[u].mono = sweptAt'[ProcOf[u]]
      BY DEF PrunerHoldsLock
    <3>1. u # t /\ thr'[u] = thr[u]
      BY <2>2
    <3>2. lock[ProcOf[u]] = u /\ lock[p] = t /\ ProcOf[u] \in Procs
          /\ thr[u].mono = sweptAt[ProcOf[u]]
      BY <2>1, <3>1 DEF PrunerHoldsLock
    <3> QED BY <2>1, <3>1, <3>2 DEF TypeOK
  <2>6. StampIsLast'
    <3>1. thr[t].mono = sweptAt[p]
      BY <2>1 DEF PrunerHoldsLock
    <3> QED BY <1>0, <2>1, <3>1 DEF StampIsLast, TypeOK
  <2> QED BY <2>3, <2>4, <2>5, <2>6
<1>6. CASE CountFirst(t) \/ CountNext(t) \/ Refuse(t)
  <2> DEFINE k == thr[t].key
  <2>1. Return(t) /\ thr[t].pc = "count" /\ k \in Keys
        /\ UNCHANGED <<clock, lock, lastCleanup, sweptAt>>
    BY <1>6 DEF CountFirst, CountNext, Refuse, At, CallKey
  <2>2. /\ thr' \in [Threads -> Call] /\ thr'[t] = IdleCall
        /\ \A u \in Threads : u # t => thr'[u] = thr[u]
    BY <2>1, ReturnUpdate
  <2>3. ReadsThePast' /\ CallKey' /\ PrunerHoldsLock' /\ StampIsLast'
    BY <1>0, <2>1, <2>2, IdleCallType
    DEF ReadsThePast, CallKey, PrunerHoldsLock, StampIsLast, TypeOK, Time
  <2>4. CASE CountFirst(t)
    <3> DEFINE row == [start |-> thr[t].now, attempts |-> 1]
    <3>1. row \in Row /\ row # NoRow /\ row.start = thr[t].now /\ row.attempts = 1
      BY <1>0 DEF Row
    <3>2. /\ rows' = [rows EXCEPT ![k] = row]
          /\ opened' = [opened EXCEPT ![k] = thr[t].now]
          /\ granted' = [granted EXCEPT ![k] = 1]
      BY <2>4 DEF CountFirst
    <3> HIDE DEF row
    <3>3. TypeOK'
      BY <1>0, <2>1, <2>2, <3>1, <3>2 DEF TypeOK, Time
    <3>4. AttemptsKept'
      BY <2>1, <3>1, <3>2 DEF AttemptsKept, TypeOK
    <3> QED BY <2>3, <3>3, <3>4
  <2>5. CASE CountNext(t)
    <3> DEFINE row == [rows[k] EXCEPT !.attempts = @ + 1]
    <3>1. rows[k] # NoRow /\ rows[k] \in Row /\ rows[k].attempts < Limit
          /\ rows[k].start = opened[k] /\ rows[k].attempts = granted[k]
      BY <2>1, <2>5 DEF CountNext, NeedsWindow, TypeOK, AttemptsKept
    <3>2. row \in Row /\ row # NoRow /\ row.start = opened[k]
          /\ row.attempts = granted[k] + 1 /\ granted[k] + 1 \in 0 .. Limit
      BY <3>1 DEF Row
    <3>3. /\ rows' = [rows EXCEPT ![k] = row]
          /\ granted' = [granted EXCEPT ![k] = granted[k] + 1] /\ opened' = opened
      BY <2>1, <2>5 DEF CountNext, TypeOK
    <3> HIDE DEF row
    <3>4. TypeOK'
      BY <2>1, <2>2, <3>2, <3>3 DEF TypeOK
    <3>5. AttemptsKept'
      BY <2>1, <3>2, <3>3 DEF AttemptsKept, TypeOK
    <3> QED BY <2>3, <3>4, <3>5
  <2>6. CASE Refuse(t)
    <3>1. UNCHANGED <<rows, opened, granted>>
      BY <2>6 DEF Refuse
    <3>2. TypeOK' /\ AttemptsKept'
      BY <2>1, <2>2, <3>1 DEF TypeOK, AttemptsKept
    <3> QED BY <2>3, <3>2
  <2> QED BY <1>6, <2>4, <2>5, <2>6
<1> QED BY <1>1, <1>2, <1>3, <1>4, <1>5, <1>6 DEF Step

LEMMA NextLInv == ASSUME LInv, [Next]_vars PROVE LInv'
<1> USE DEF LInv
<1>1. ASSUME NEW t \in Threads, Step(t) \/ \E k \in Keys : Enter(t, k) PROVE LInv'
  BY <1>1, StepLInv
<1>2. CASE Tick
  <2>1. clock' \in Time /\ clock < clock' /\ clock \in Int /\ clock' \in Int
        /\ UNCHANGED <<rows, thr, lock, lastCleanup, opened, granted, sweptAt>>
    BY <1>2 DEF Tick, TypeOK, Time
  <2>2. TypeOK' /\ CallKey' /\ PrunerHoldsLock' /\ StampIsLast'
    BY <2>1 DEF TypeOK, CallKey, PrunerHoldsLock, StampIsLast
  <2>3. ReadsThePast'
    BY <2>1 DEF ReadsThePast, TypeOK, Call, Time
  <2>4. AttemptsKept'
    BY <2>1 DEF AttemptsKept, TypeOK
  <2> QED BY <2>2, <2>3, <2>4
<1>3. ASSUME NEW p \in Procs, Restart(p) PROVE LInv'
  <2>1. /\ \A t \in Threads : thr'[t] = IF ProcOf[t] = p THEN IdleCall ELSE thr[t]
        /\ thr' \in [Threads -> Call]
    BY <1>3, IdleCallType DEF Restart, TypeOK
  <2>2. /\ lock' = [lock EXCEPT ![p] = NoThread]
        /\ lastCleanup' = [lastCleanup EXCEPT ![p] = Never]
        /\ sweptAt' = [sweptAt EXCEPT ![p] = Never]
        /\ UNCHANGED <<clock, rows, opened, granted>>
    BY <1>3 DEF Restart
  <2>3. TypeOK'
    BY <2>1, <2>2 DEF TypeOK, Never
  <2>4. ReadsThePast' /\ CallKey'
    BY <2>1, <2>2, IdleCallType DEF ReadsThePast, CallKey, TypeOK, Time
  <2>5. AttemptsKept' /\ StampIsLast'
    BY <2>2 DEF AttemptsKept, StampIsLast, TypeOK
  <2>6. PrunerHoldsLock'
    BY <2>1, <2>2, IdleCallType DEF PrunerHoldsLock, TypeOK
  <2> QED BY <2>3, <2>4, <2>5, <2>6
<1>4. CASE UNCHANGED vars
  BY <1>4 DEF vars, TypeOK, ReadsThePast, CallKey, AttemptsKept, PrunerHoldsLock, StampIsLast
<1> QED BY <1>1, <1>2, <1>3, <1>4 DEF Next

(***************************************************************************)
(* The inductive invariant of the limiter.                                 *)
(***************************************************************************)
THEOREM LimiterInductive == Spec => []LInv
<1>1. LInv /\ [Next]_vars => LInv'
  BY NextLInv
<1> QED BY <1>1, InitLInv, PTL DEF Spec

(***************************************************************************)
(* Types: a count never passes the limit, locks are held by threads.       *)
(***************************************************************************)
THEOREM LimiterTypeCorrect == Spec => []TypeOK
<1>1. LInv => TypeOK
  BY DEF LInv
<1> QED BY <1>1, LimiterInductive, PTL

(***************************************************************************)
(* No attempt is lost: the row of a key holds the admissions of its last   *)
(* window, and a key without a row has no window that could still run.     *)
(***************************************************************************)
THEOREM NoAttemptLost == Spec => []AttemptsKept
<1>1. LInv => AttemptsKept
  BY DEF LInv
<1> QED BY <1>1, LimiterInductive, PTL

(***************************************************************************)
(* "At most once per process per five minutes": the second look, under the *)
(* lock, sees the stamp of whoever pruned last.                            *)
(***************************************************************************)
THEOREM PrunesOncePerInterval == Spec => PrunedOncePerInterval
<1> DEFINE Apart == \A p \in Procs :
         sweptAt'[p] # sweptAt[p] /\ sweptAt'[p] # Never =>
             sweptAt'[p] - sweptAt[p] >= RATE_LIMIT_CLEANUP_INTERVAL_SECONDS
<1>1. ASSUME LInv, [Next]_vars PROVE Apart
  <2> SUFFICES ASSUME NEW p \in Procs, sweptAt'[p] # sweptAt[p], sweptAt'[p] # Never
               PROVE  sweptAt'[p] - sweptAt[p] >= RATE_LIMIT_CLEANUP_INTERVAL_SECONDS
    OBVIOUS
  <2>0. TypeOK /\ StampIsLast
    BY <1>1 DEF LInv
  <2>1. ~\E q \in Procs : Restart(q)
    BY <2>0 DEF Restart, TypeOK
  <2>2. PICK t \in Threads : Acquire(t) /\ ~RecentlyPruned(ProcOf[t])
    BY <1>1, <2>1 DEF Next, Step, Gate, Acquire, Prune, Stamp, CountFirst, CountNext,
       Refuse, Enter, Tick, vars
  <2>3. /\ lock[ProcOf[t]] = NoThread
        /\ sweptAt' = [sweptAt EXCEPT ![ProcOf[t]] = clock]
    BY <2>2 DEF Acquire
  <2>4. ProcOf[t] = p /\ sweptAt'[p] = clock /\ lastCleanup[p] = sweptAt[p]
    BY <2>0, <2>3 DEF TypeOK, StampIsLast
  <2>5. /\ ~(clock - lastCleanup[p] < RATE_LIMIT_CLEANUP_INTERVAL_SECONDS)
        /\ clock \in Int /\ sweptAt[p] \in Int
        /\ RATE_LIMIT_CLEANUP_INTERVAL_SECONDS \in Int
    BY <2>0, <2>2, <2>4 DEF RecentlyPruned, TypeOK, Time
  <2> QED BY <2>4, <2>5
<1>2. LInv /\ [Next]_vars => [Apart]_vars
  BY <1>1
<1> QED BY <1>2, LimiterInductive, PTL DEF Spec, PrunedOncePerInterval

(***************************************************************************)
(* The limiter implements fixed windows.                                   *)
(***************************************************************************)
THEOREM LimiterImplementation == Spec => ImplementsFixedWindow
<1>1. Init => Limiter!Init
  BY DEF Init, Limiter!Init
<1>2. ASSUME LInv, [Next]_vars PROVE [Limiter!Next]_(Limiter!wvars)
  <2>0. TypeOK /\ AttemptsKept /\ CallKey /\ ReadsThePast
    BY <1>1, <1>2 DEF LInv
  <2>1. CASE Tick
    <3>1. Limiter!Advance
      BY <2>0, <2>1 DEF Tick, Limiter!Advance, TypeOK, Time
    <3> QED BY <3>1 DEF Limiter!Next
  <2>2. ASSUME NEW t \in Threads, CountFirst(t) PROVE Limiter!Next
    <3> DEFINE k == thr[t].key  s == thr[t].now
    <3>1. k \in Keys /\ s \in 0 .. clock /\ s <= clock /\ s \in Int /\ clock \in Int
      BY <2>0, <2>2 DEF CallKey, CountFirst, At, TypeOK, Call, Time, ReadsThePast
    <3>2. opened[k] + WINDOW <= clock
      <4>1. CASE rows[k] = NoRow
        BY <2>0, <3>1, <4>1 DEF AttemptsKept
      <4>2. CASE rows[k] # NoRow
        <5>1. s - rows[k].start >= WINDOW /\ rows[k].start = opened[k]
          BY <2>0, <2>2, <3>1, <4>2 DEF CountFirst, NeedsWindow, AttemptsKept
        <5>2. opened[k] \in Int /\ WINDOW \in Int
          BY <2>0, <3>1 DEF TypeOK
        <5> QED BY <3>1, <5>1, <5>2
      <4> QED BY <4>1, <4>2
    <3>3. Limiter!Open(k, s)
      BY <2>2, <3>1, <3>2 DEF CountFirst, Limiter!Open
    <3> QED BY <3>1, <3>3 DEF Limiter!Next
  <2>3. ASSUME NEW t \in Threads, CountNext(t) PROVE Limiter!Next
    <3> DEFINE k == thr[t].key
    <3>1. k \in Keys /\ rows[k] # NoRow
      BY <2>0, <2>3 DEF CallKey, CountNext, At, NeedsWindow
    <3>2. granted[k] < Limit
      BY <2>0, <2>3, <3>1 DEF CountNext, AttemptsKept
    <3>3. Limiter!Admit(k)
      BY <2>3, <3>2 DEF CountNext, Limiter!Admit
    <3> QED BY <3>1, <3>3 DEF Limiter!Next
  <2>4. ASSUME NEW t \in Threads, \/ Gate(t) \/ Acquire(t) \/ Prune(t) \/ Stamp(t)
                                  \/ Refuse(t) \/ \E k \in Keys : Enter(t, k)
        PROVE  UNCHANGED <<clock, opened, granted>>
    BY <2>4 DEF Gate, Acquire, Prune, Stamp, Refuse, Enter
  <2>5. ASSUME NEW p \in Procs, Restart(p) PROVE UNCHANGED <<clock, opened, granted>>
    BY <2>5 DEF Restart
  <2>6. CASE UNCHANGED vars
    BY <2>6 DEF vars, Limiter!wvars
  <2> QED BY <1>2, <2>1, <2>2, <2>3, <2>4, <2>5, <2>6 DEF Next, Step, Limiter!wvars
<1>3. LInv /\ [Next]_vars => [Limiter!Next]_(Limiter!wvars)
  BY <1>2
<1> QED BY <1>1, <1>3, LimiterInductive, PTL DEF Spec, ImplementsFixedWindow, Limiter!Spec
=============================================================================
