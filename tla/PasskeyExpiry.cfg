SPECIFICATION Spec
CONSTANTS
    u1 = u1
    u2 = u2
    s1 = s1
    s2 = s2
    r1 = r1
    r2 = r2
    t1 = t1
    t2 = t2
    t3 = t3
    t4 = t4
    c1 = c1
    c2 = c2
    c3 = c3
    None = None
    Users = {u1, u2}
    Sessions = {s1, s2}
    SessionUser <- TwoUsers
    Requests = {r1}
    Views = {"reauth_admit", "begin_admit", "complete_save", "options_exists", "assert_save"}
    Tokens = {t1, t2}
    Ceremonies = {e1}
    Creds = {c1, c2}
    InitialCreds <- OnePasskey
    REAUTH_TTL_SECONDS = 1
    PASSKEY_CHALLENGE_TTL_SECONDS = 1
    WINDOW = 1
    RATE_LIMIT_CLEANUP_INTERVAL_SECONDS = 1
    MaxTime = 2
SYMMETRY Symmetric
INVARIANTS TypeOK CeremonyPaid EnrolledOnPassword 
PROPERTIES SweepSparesUsable
