----------------------------- MODULE RateLimiter -----------------------------
(***************************************************************************)
(* The rate limiter of the passkey views (profile/passkeys.py):            *)
(* _consume_rate_limit and _maybe_cleanup_rate_limits, called by the       *)
(* threads of several web processes on one table of windows.               *)
(*                                                                         *)
(* A call reads the clock first.  It may then wait, for the cleanup lock   *)
(* of its process and for the lock of its row, and decides with the time   *)
(* it read.  Meanwhile the row can be counted in, renewed or swept away.   *)
(***************************************************************************)
EXTENDS Integers

CONSTANTS
    Keys,           \* HMACs of a scope and an identity
    Threads, Procs,
    ProcOf,         \* [Threads -> Procs]
    Limit, WINDOW, RATE_LIMIT_CLEANUP_INTERVAL_SECONDS,
    MaxTime,        \* bound of the clock
    NoRow, NoThread, NoKey

ASSUME LimiterAssumption ==
    /\ ProcOf \in [Threads -> Procs]
    /\ Limit \in Nat \ {0}
    /\ WINDOW \in Nat
    /\ RATE_LIMIT_CLEANUP_INTERVAL_SECONDS \in Nat
    /\ MaxTime \in Nat
    /\ NoThread \notin Threads
    /\ NoKey \notin Keys

VARIABLES
    clock,
    rows,           \* PasskeyRateLimit rows, by key_hash
    thr,            \* the call each thread is in
    lock,           \* holder of _rate_limit_cleanup_lock, by process
    lastCleanup,    \* _last_rate_limit_cleanup, by process
    opened,         \* history: window_started_at of a key's last window
    granted,        \* history: attempts admitted in that window
    sweptAt         \* history: when each process last began to prune

vars == <<clock, rows, thr, lock, lastCleanup, opened, granted, sweptAt>>
-----------------------------------------------------------------------------
Time == 0 .. MaxTime
Row == [start : Time, attempts : 0 .. Limit]
Call == [pc : {"idle", "gate", "lock", "prune", "stamp", "count"},
         key : Keys \cup {NoKey}, now : Time, mono : Time]
IdleCall == [pc |-> "idle", key |-> NoKey, now |-> 0, mono |-> 0]
Never == -(WINDOW + RATE_LIMIT_CLEANUP_INTERVAL_SECONDS)

ASSUME RowAssumption == NoRow \notin Row

TypeOK ==
    /\ clock \in Time
    /\ rows \in [Keys -> Row \cup {NoRow}]
    /\ thr \in [Threads -> Call]
    /\ lock \in [Procs -> Threads \cup {NoThread}]
    /\ lastCleanup \in [Procs -> Int]
    /\ opened \in [Keys -> Int]
    /\ granted \in [Keys -> 0 .. Limit]
    /\ sweptAt \in [Procs -> Int]

Init ==
    /\ clock = 0
    /\ rows = [k \in Keys |-> NoRow]
    /\ thr = [t \in Threads |-> IdleCall]
    /\ lock = [p \in Procs |-> NoThread]
    /\ lastCleanup = [p \in Procs |-> Never]
    /\ opened = [k \in Keys |-> -WINDOW]
    /\ granted = [k \in Keys |-> 0]
    /\ sweptAt = [p \in Procs |-> Never]
-----------------------------------------------------------------------------
At(t, pc) == thr[t].pc = pc
Goto(t, pc) == thr' = [thr EXCEPT ![t].pc = pc]
Return(t) == thr' = [thr EXCEPT ![t] = IdleCall]

\* now = timezone.now()
Enter(t, k) ==
    /\ At(t, "idle")
    /\ thr' = [thr EXCEPT ![t] = [pc |-> "gate", key |-> k, now |-> clock, mono |-> 0]]
    /\ UNCHANGED <<clock, rows, lock, lastCleanup, opened, granted, sweptAt>>

RecentlyPruned(p) == clock - lastCleanup[p] < RATE_LIMIT_CLEANUP_INTERVAL_SECONDS

\* The look at the last cleanup without the lock.
Gate(t) ==
    /\ At(t, "gate")
    /\ Goto(t, IF RecentlyPruned(ProcOf[t]) THEN "count" ELSE "lock")
    /\ UNCHANGED <<clock, rows, lock, lastCleanup, opened, granted, sweptAt>>

\* Mutant: no second look once the lock is held.
AcquireUnchecked(t) ==
    LET p == ProcOf[t]  IN
    /\ At(t, "lock") /\ lock[p] = NoThread
    /\ thr' = [thr EXCEPT ![t].pc = "prune", ![t].mono = clock]
    /\ lock' = [lock EXCEPT ![p] = t]
    /\ sweptAt' = [sweptAt EXCEPT ![p] = clock]
    /\ UNCHANGED <<clock, rows, lastCleanup, opened, granted>>
\* The lock is taken, and the second look, with the lock.
Acquire(t) ==
    LET p == ProcOf[t]  IN
    /\ At(t, "lock")
    /\ lock[p] = NoThread
    /\ IF RecentlyPruned(p)
       THEN Goto(t, "count") /\ UNCHANGED <<lock, sweptAt>>
       ELSE /\ thr' = [thr EXCEPT ![t].pc = "prune", ![t].mono = clock]
            /\ lock' = [lock EXCEPT ![p] = t]
            /\ sweptAt' = [sweptAt EXCEPT ![p] = clock]
    /\ UNCHANGED <<clock, rows, lastCleanup, opened, granted>>

\* Mutant: the cutoff is one unit late, and the comparison not strict.
PrunableEarly(row, now) == row # NoRow /\ row.start <= now - WINDOW + 1
Prunable(row, now) == row # NoRow /\ row.start < now - WINDOW

\* The rows older than the window are deleted, or the database fails.
Prune(t) ==
    /\ At(t, "prune")
    /\ \/ rows' = [k \in Keys |-> IF Prunable(rows[k], thr[t].now) THEN NoRow
                                  ELSE rows[k]]
       \/ UNCHANGED rows
    /\ Goto(t, "stamp")
    /\ UNCHANGED <<clock, lock, lastCleanup, opened, granted, sweptAt>>

\* Mutant: a database failure leaves the cleanup with the lock held.
StampLeak(t) ==
    /\ At(t, "stamp")
    /\ lastCleanup' = [lastCleanup EXCEPT ![ProcOf[t]] = thr[t].mono]
    /\ Goto(t, "count")
    /\ UNCHANGED <<clock, rows, lock, opened, granted, sweptAt>>
\* The stamp is set, whether the rows could be deleted or not.
Stamp(t) ==
    LET p == ProcOf[t]  IN
    /\ At(t, "stamp")
    /\ lastCleanup' = [lastCleanup EXCEPT ![p] = thr[t].mono]
    /\ lock' = [lock EXCEPT ![p] = NoThread]
    /\ Goto(t, "count")
    /\ UNCHANGED <<clock, rows, opened, granted, sweptAt>>

\* Mutant: the window ends one unit early.
NeedsWindowAge(row, now) == row # NoRow => now - row.start + 1 >= WINDOW
\* No row, or one whose window is over at the time the call was made.
NeedsWindow(row, now) == row # NoRow => now - row.start >= WINDOW

\* The transaction on the locked row opens a window ...
CountFirst(t) ==
    LET k == thr[t].key  now == thr[t].now  IN
    /\ At(t, "count")
    /\ NeedsWindow(rows[k], now)
    /\ rows' = [rows EXCEPT ![k] = [start |-> now, attempts |-> 1]]
    /\ opened' = [opened EXCEPT ![k] = now]
    /\ granted' = [granted EXCEPT ![k] = 1]
    /\ Return(t)
    /\ UNCHANGED <<clock, lock, lastCleanup, sweptAt>>

\* Mutant: the limit is passed by one.
CountNextOver(t) ==
    LET k == thr[t].key  IN
    /\ At(t, "count") /\ ~NeedsWindow(rows[k], thr[t].now)
    /\ rows[k].attempts <= Limit
    /\ rows' = [rows EXCEPT ![k].attempts = @ + 1]
    /\ granted' = [granted EXCEPT ![k] = @ + 1]
    /\ Return(t)
    /\ UNCHANGED <<clock, lock, lastCleanup, opened, sweptAt>>
\* ... or counts the attempt in the window there is ...
CountNext(t) ==
    LET k == thr[t].key  IN
    /\ At(t, "count")
    /\ ~NeedsWindow(rows[k], thr[t].now)
    /\ rows[k].attempts < Limit
    /\ rows' = [rows EXCEPT ![k].attempts = @ + 1]
    /\ granted' = [granted EXCEPT ![k] = @ + 1]
    /\ Return(t)
    /\ UNCHANGED <<clock, lock, lastCleanup, opened, sweptAt>>

\* ... or refuses it; and a failing database refuses everything.
Refuse(t) ==
    /\ At(t, "count")
    /\ Return(t)
    /\ UNCHANGED <<clock, rows, lock, lastCleanup, opened, granted, sweptAt>>

Tick ==
    /\ clock < MaxTime
    /\ clock' = clock + 1
    /\ UNCHANGED <<rows, thr, lock, lastCleanup, opened, granted, sweptAt>>

\* A process is replaced: its calls, its lock and its stamp are gone.
Restart(p) ==
    /\ thr' = [t \in Threads |-> IF ProcOf[t] = p THEN IdleCall ELSE thr[t]]
    /\ lock' = [lock EXCEPT ![p] = NoThread]
    /\ lastCleanup' = [lastCleanup EXCEPT ![p] = Never]
    /\ sweptAt' = [sweptAt EXCEPT ![p] = Never]
    /\ UNCHANGED <<clock, rows, opened, granted>>

Step(t) == \/ Gate(t) \/ Acquire(t) \/ Prune(t) \/ Stamp(t)
           \/ CountFirst(t) \/ CountNext(t) \/ Refuse(t)

Next == \/ \E t \in Threads : Step(t) \/ \E k \in Keys : Enter(t, k)
        \/ Tick
        \/ \E p \in Procs : Restart(p)

Spec == Init /\ [][Next]_vars

\* The scheduler runs every thread; clients need not call, processes need
\* not be replaced.
FairSpec == Spec /\ \A t \in Threads : WF_vars(Step(t))
-----------------------------------------------------------------------------
(***************************************************************************)
(* No attempt is lost or invented: the row of a key holds the admissions   *)
(* of its last window, whichever calls of whichever processes made them,   *)
(* and a key without a row has no window that could still be running.      *)
(***************************************************************************)
AttemptsKept ==
    \A k \in Keys :
        IF rows[k] = NoRow
        THEN opened[k] + WINDOW <= clock
        ELSE rows[k].start = opened[k] /\ rows[k].attempts = granted[k]

Limiter == INSTANCE FixedWindow WITH time <- clock, start <- opened, count <- granted

(***************************************************************************)
(* The limiter is a fixed-window limiter: at most Limit attempts in a      *)
(* window, the next window not before this one is over by the clock,       *)
(* although calls decide with times they read before they waited, and      *)
(* although the sweep deletes rows under them.                             *)
(***************************************************************************)
ImplementsFixedWindow == Limiter!Spec

(***************************************************************************)
(* "Prune old limiter keys at most once per process per five minutes": two *)
(* threads that both find the last cleanup old do not both prune.          *)
(***************************************************************************)
PrunedOncePerInterval ==
    [][\A p \in Procs :
         sweptAt'[p] # sweptAt[p] /\ sweptAt'[p] # Never =>
             sweptAt'[p] - sweptAt[p] >= RATE_LIMIT_CLEANUP_INTERVAL_SECONDS]_vars

(***************************************************************************)
(* Every call gets its answer: no thread waits forever for the lock, even  *)
(* if its holder met a database failure.                                   *)
(***************************************************************************)
CallsReturn == \A t \in Threads : thr[t].pc # "idle" ~> thr[t].pc = "idle"
=============================================================================
