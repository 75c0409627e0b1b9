---------------------------- MODULE MCDustSignals ----------------------------
(***************************************************************************)
(* Instances of DustSignals: a critical group and a warning that comes     *)
(* before it by symbol and may be worth more.                              *)
(***************************************************************************)
EXTENDS DustSignals, TLC

CONSTANTS c1, w1, o1, o2

CriticalAndWarning == c1 :> "critical" @@ w1 :> "warning"
WarningIsWorthMore == c1 :> {1} @@ w1 :> {2}
Alphabetic == c1 :> 1 @@ w1 :> 0
\* Bound: two operators; one while the overview is read or a group has been
\* reviewed, none after the reading.
TwoAtATime ==
    LET open == {o \in Operators : page[o].stage # "none"}  IN
    \/ At("idle") /\ (reviewed = 0 \/ Cardinality(open) <= 1)
    \/ Len(corrections) <= 1 /\ Cardinality(open) <= IF At("done") THEN 0 ELSE 1
OperatorsSymmetric == Permutations(Operators)
=============================================================================
