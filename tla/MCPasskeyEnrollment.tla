------------------------ MODULE MCPasskeyEnrollment ------------------------
EXTENDS PasskeyEnrollment, TLC

CONSTANTS u1, u2, s1, s2, r1, r2, t1, t2, t3, t4, c1, c2, c3

\* One user in one browser, two requests at a time.
OneUser == [s \in Sessions |-> u1]
TwoUsers == [s \in Sessions |-> IF s = s1 THEN u1 ELSE u2]
OnePasskey == [u \in Users |-> IF u = u1 THEN {c1} ELSE {}]
NoPasskey == [u \in Users |-> {}]
Symmetric == {p @@ q @@ f : p \in Permutations(Requests), q \in Permutations(Tokens),
                              f \in Permutations(Ceremonies)}
=============================================================================
