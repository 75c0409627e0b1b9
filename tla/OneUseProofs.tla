---------------------------- MODULE OneUseProofs ----------------------------
(***************************************************************************)
(* What the proof rows of profile/passkeys.py promise: a proof is issued,  *)
(* and then spent on one registration ceremony, or lapses.  The proofs of  *)
(* a ceremony are spent together, and none of them is ever valid again.    *)
(***************************************************************************)
CONSTANTS Tokens, Ceremonies

VARIABLES
    drawn,      \* tokens issued so far
    valid,      \* tokens that can still be spent
    spentOn     \* what each ceremony was paid with; {} while it has not begun

pvars == <<drawn, valid, spentOn>>

Init ==
    /\ drawn = {}
    /\ valid = {}
    /\ spentOn = [e \in Ceremonies |-> {}]

Issue(t) ==
    /\ t \notin drawn
    /\ drawn' = drawn \cup {t}
    /\ valid' = valid \cup {t}
    /\ UNCHANGED spentOn

Spend(e, T) ==
    /\ spentOn[e] = {}
    /\ T # {} /\ T \subseteq valid
    /\ spentOn' = [spentOn EXCEPT ![e] = T]
    /\ valid' = valid \ T
    /\ UNCHANGED drawn

Lapse(T) ==
    /\ T # {} /\ T \subseteq valid
    /\ valid' = valid \ T
    /\ UNCHANGED <<drawn, spentOn>>

Next ==
    \/ \E t \in Tokens : Issue(t)
    \/ \E e \in Ceremonies, T \in SUBSET Tokens : Spend(e, T)
    \/ \E T \in SUBSET Tokens : Lapse(T)

Spec == Init /\ [][Next]_pvars
=============================================================================
