----------------------------- MODULE FixedWindow -----------------------------
(***************************************************************************)
(* What the rate limiter of profile/passkeys.py promises each key: a       *)
(* window admits at most Limit attempts, and the next one opens only when  *)
(* the last has run its course.                                            *)
(***************************************************************************)
EXTENDS Integers

CONSTANTS Keys, Limit, WINDOW

VARIABLES
    time,
    start,      \* when the last window of a key opened
    count       \* attempts admitted in it

wvars == <<time, start, count>>

Init ==
    /\ time = 0
    /\ start = [k \in Keys |-> -WINDOW]
    /\ count = [k \in Keys |-> 0]

Admit(k) ==
    /\ count[k] < Limit
    /\ count' = [count EXCEPT ![k] = @ + 1]
    /\ UNCHANGED <<time, start>>

\* The first attempt of a window; it may have looked at the clock earlier.
Open(k, s) ==
    /\ start[k] + WINDOW <= time
    /\ s <= time
    /\ start' = [start EXCEPT ![k] = s]
    /\ count' = [count EXCEPT ![k] = 1]
    /\ UNCHANGED time

Advance ==
    /\ time' > time
    /\ UNCHANGED <<start, count>>

Next == \/ \E k \in Keys : Admit(k) \/ \E s \in 0 .. time : Open(k, s)
        \/ Advance

Spec == Init /\ [][Next]_wvars
=============================================================================
