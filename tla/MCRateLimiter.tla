---------------------------- MODULE MCRateLimiter ----------------------------
EXTENDS RateLimiter, TLC

CONSTANTS a1, a2, b1, p1, p2

\* Two threads of one worker, and a thread of a second one.
TwoProcs == [t \in Threads |-> IF t = b1 THEN p2 ELSE p1]
=============================================================================
