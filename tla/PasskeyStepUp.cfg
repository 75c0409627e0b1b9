SPECIFICATION Spec
CONSTANTS
    u1 = u1
    u2 = u2
    s1 = s1
    s2 = s2
    r1 = r1
    r2 = r2
    t1 = t1
    t2 = t2
    t3 = t3
    t4 = t4
    c1 = c1
    c2 = c2
    c3 = c3
    None = None
    Users = {u1}
    Sessions = {s1}
    SessionUser <- OneUser
    Requests = {r1, r2}
    Views = {"reauth_admit", "begin_admit", "options_exists", "assert_save", "revoke_admit"}
    Tokens = {t1, t2}
    Ceremonies = {e1, e2}
    Creds = {c1, c2}
    InitialCreds <- OnePasskey
    REAUTH_TTL_SECONDS = 0
    PASSKEY_CHALLENGE_TTL_SECONDS = 0
    WINDOW = 0
    RATE_LIMIT_CLEANUP_INTERVAL_SECONDS = 0
    MaxTime = 0
SYMMETRY Symmetric
INVARIANTS ProofPaysOnce ChallengeGrantsOnce
PROPERTIES  ImplementsOneUseProofs
