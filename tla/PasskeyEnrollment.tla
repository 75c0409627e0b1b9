-------------------------- MODULE PasskeyEnrollment --------------------------
(***************************************************************************)
(* Enrolment and revocation of passkeys (profile/passkeys.py).             *)
(*                                                                         *)
(* Requests are served by the threads of one gunicorn worker.  A request   *)
(* loads a copy of its session row, works on the copy and writes the whole *)
(* copy back when it responds, so two requests of one session overwrite    *)
(* each other's writes.  What must happen once is therefore recorded in    *)
(* database rows that are locked and marked as consumed: the proofs of a   *)
(* password check or of a passkey assertion, and the step-up challenges.   *)
(*                                                                         *)
(* Every action is one database transaction, or one save of a session; the *)
(* program counter of a request says which one comes next.                 *)
(***************************************************************************)
EXTENDS Integers, FiniteSets

CONSTANTS
    Users, Sessions,
    SessionUser,        \* [Sessions -> Users]: who is signed in
    Requests,           \* worker threads
    Views,              \* the first steps of the views that are called
    Tokens,             \* pool of the random tokens of proofs and challenges
    Ceremonies,         \* pool of the registration states of the library
    Creds,              \* pool of credential primary keys
    InitialCreds,       \* [Users -> SUBSET Creds]: passkeys owned at first
    REAUTH_TTL_SECONDS, PASSKEY_CHALLENGE_TTL_SECONDS, WINDOW,
    RATE_LIMIT_CLEANUP_INTERVAL_SECONDS,
    MaxTime,            \* bound of the clock
    None

ASSUME TimeAssumption ==
    /\ REAUTH_TTL_SECONDS \in Nat
    /\ PASSKEY_CHALLENGE_TTL_SECONDS \in Nat
    /\ WINDOW \in Nat
    /\ RATE_LIMIT_CLEANUP_INTERVAL_SECONDS \in Nat
    /\ MaxTime \in Nat
    /\ REAUTH_TTL_SECONDS <= WINDOW
    /\ PASSKEY_CHALLENGE_TTL_SECONDS <= WINDOW

ASSUME SessionAssumption == SessionUser \in [Sessions -> Users]

Entry == {"reauth_admit", "begin_admit", "complete_save", "options_exists",
          "assert_save", "revoke_admit"}
ASSUME ViewsAssumption == Views \subseteq Entry

ASSUME CredsAssumption ==
    /\ InitialCreds \in [Users -> SUBSET Creds]
    /\ \A u, v \in Users : u # v => InitialCreds[u] \cap InitialCreds[v] = {}

ASSUME NoneAssumption ==
    None \notin Users \cup Sessions \cup Tokens \cup Ceremonies \cup Creds

VARIABLES
    clock,
    creds,          \* WebAuthnCredential rows, by primary key
    proofs,         \* PasskeyEnrollmentProof rows, by token
    challenges,     \* PasskeyEnrollmentChallenge rows, by token
    ceremonies,     \* registration states handed out, with what paid for them
    store,          \* session rows
    req,            \* the request each thread is serving
    lastCleanup     \* _last_rate_limit_cleanup of the worker process

vars == <<clock, creds, proofs, challenges, ceremonies, store, req, lastCleanup>>
-----------------------------------------------------------------------------
Opt(S) == S \cup {None}
Time == 0 .. MaxTime

\* A primary key, token or state is "unused" until it is drawn.
Credential == [status : {"unused", "live", "revoked"}, user : Opt(Users),
               ceremony : Opt(Ceremonies)]
RowStatus == {"unused", "open", "consumed", "deleted"}
Proof == [status : RowStatus, kind : {"password", "passkey"},
          session : Opt(Sessions), cred : Opt(Creds), at : Time,      \* verified_at
          source : Opt(Tokens)]     \* the challenge behind a passkey proof
Challenge == [status : RowStatus, session : Opt(Sessions),
              at : Time]            \* started_at
Ceremony == [status : {"unused", "open"}, session : Opt(Sessions),
             pw : Opt(Tokens), pk : Opt(Tokens), cred : Opt(Creds),
             started_at : Time]

\* The keys the views keep in a session.
SessionData == [reauth : Opt(Tokens), grant : Opt(Tokens),
                stepup : Opt(Tokens), registration : Opt(Ceremonies)]
EmptySession == [reauth |-> None, grant |-> None, stepup |-> None,
                 registration |-> None]

PC == Entry \cup
      {"idle", "respond", "reauth_create", "begin_read", "begin_consume",
       "complete_check", "complete_verify", "options_admit",
       "options_create", "assert_consume", "assert_admit", "assert_verify",
       "assert_grant", "revoke_delete"}
Request == [pc : PC, session : Opt(Sessions), data : SessionData,
            modified : BOOLEAN, require : BOOLEAN, token : Opt(Tokens),
            ceremony : Opt(Ceremonies), cred : Opt(Creds)]
IdleRequest == [pc |-> "idle", session |-> None, data |-> EmptySession,
                modified |-> FALSE, require |-> FALSE, token |-> None,
                ceremony |-> None, cred |-> None]

TypeOK ==
    /\ clock \in Time
    /\ creds \in [Creds -> Credential]
    /\ proofs \in [Tokens -> Proof]
    /\ challenges \in [Tokens -> Challenge]
    /\ ceremonies \in [Ceremonies -> Ceremony]
    /\ store \in [Sessions -> SessionData]
    /\ req \in [Requests -> Request]
    /\ \A r \in Requests : req[r].pc # "idle" => req[r].session \in Sessions
    /\ lastCleanup \in Int

InitialCredential(c) ==
    IF \E u \in Users : c \in InitialCreds[u]
    THEN [status |-> "live", user |-> CHOOSE u \in Users : c \in InitialCreds[u],
          ceremony |-> None]
    ELSE [status |-> "unused", user |-> None, ceremony |-> None]

Init ==
    /\ clock = 0
    /\ creds = [c \in Creds |-> InitialCredential(c)]
    /\ proofs = [t \in Tokens |->
           [status |-> "unused", kind |-> "password", session |-> None,
            cred |-> None, at |-> 0, source |-> None]]
    /\ challenges = [t \in Tokens |->
           [status |-> "unused", session |-> None, at |-> 0]]
    /\ ceremonies = [e \in Ceremonies |->
           [status |-> "unused", session |-> None, pw |-> None, pk |-> None,
            cred |-> None, started_at |-> 0]]
    /\ store = [s \in Sessions |-> EmptySession]
    /\ req = [r \in Requests |-> IdleRequest]
    /\ lastCleanup = -RATE_LIMIT_CLEANUP_INTERVAL_SECONDS
-----------------------------------------------------------------------------
UserOf(r) == SessionUser[req[r].session]

\* WebAuthnCredential.objects.filter(pk=c, user_id=u).exists()
Owns(u, c) == creds[c].status = "live" /\ creds[c].user = u

\* _within_ttl and the age tests of the consume functions.
WithinTtl(stamp, ttl) == 0 <= clock - stamp /\ clock - stamp <= ttl

At(r, p) == req[r].pc = p
Goto(r, p) == req' = [req EXCEPT ![r].pc = p]
\* The response is sent with the session unmodified: nothing is saved.
Finish(r) == req' = [req EXCEPT ![r] = IdleRequest]
\* Mutant: the middleware has lost the session it must save.
RespondWithoutSession(r, d) ==
    req' = [req EXCEPT ![r] = [IdleRequest EXCEPT !.pc = "respond", !.data = d]]
\* The response is sent with the session modified to d: it will be saved.
RespondWith(r, d) ==
    req' = [req EXCEPT ![r] = [IdleRequest EXCEPT
               !.pc = "respond", !.session = req[r].session, !.data = d]]
\* The response saves what an earlier step of the request has modified.
RespondAsIs(r) ==
    IF req[r].modified THEN RespondWith(r, req[r].data) ELSE Finish(r)

\* The authentication middleware loads the session row of the request.
Arrive(r, s, p) ==
    /\ At(r, "idle")
    /\ req' = [req EXCEPT ![r] = [IdleRequest EXCEPT
                   !.pc = p, !.session = s, !.data = store[s]]]
    /\ UNCHANGED <<clock, creds, proofs, challenges, ceremonies, store, lastCleanup>>

\* The session middleware writes the request's whole copy over the row.
Respond(r) ==
    /\ At(r, "respond")
    /\ store' = [store EXCEPT ![req[r].session] = req[r].data]
    /\ Finish(r)
    /\ UNCHANGED <<clock, creds, proofs, challenges, ceremonies, lastCleanup>>

\* Mutant: rows are swept as soon as they reach the time to live.
ExpiredAtTtl(stamp) == clock - stamp >= REAUTH_TTL_SECONDS
Expired(stamp) == clock - stamp > WINDOW
Swept(rows) ==
    [t \in Tokens |->
        IF rows[t].status \in {"open", "consumed"} /\ Expired(rows[t].at)
        THEN [rows[t] EXCEPT !.status = "deleted"] ELSE rows[t]]

\* _maybe_cleanup_rate_limits, run by every call of the rate limiter.
MaybeCleanup ==
    IF clock - lastCleanup < RATE_LIMIT_CLEANUP_INTERVAL_SECONDS
    THEN UNCHANGED <<proofs, challenges, lastCleanup>>
    ELSE /\ lastCleanup' = clock
         /\ \/ proofs' = Swept(proofs) /\ challenges' = Swept(challenges)
            \/ UNCHANGED <<proofs, challenges>>     \* DatabaseError

AdmittedTo == [reauth_admit |-> "reauth_create", begin_admit |-> "begin_read",
               options_admit |-> "options_create",
               assert_admit |-> "assert_verify",
               revoke_admit |-> "revoke_delete"]

\* A view dies of an exception it does not handle: the session middleware
\* saves nothing after a response 500.
Abort(r) ==
    /\ ~At(r, "idle")
    /\ Finish(r)
    /\ UNCHANGED <<clock, creds, proofs, challenges, ceremonies, store, lastCleanup>>

\* _consume_rate_limit: admitted, or refused (429).  The step-up completion
\* has already emptied its session keys, so its refusal saves the session.
Admit(r) ==
    /\ req[r].pc \in DOMAIN AdmittedTo
    /\ MaybeCleanup
    /\ \/ Goto(r, AdmittedTo[req[r].pc])
       \/ At(r, "assert_admit") /\ RespondAsIs(r)
       \/ ~At(r, "assert_admit") /\ Finish(r)
    /\ UNCHANGED <<clock, creds, ceremonies, store>>
-----------------------------------------------------------------------------
\* reauthenticate: the password is right and a proof is stored, or not.
ReauthCreate(r) ==
    /\ At(r, "reauth_create")
    /\ \/ \E t \in Tokens :
             /\ proofs[t].status = "unused"
             /\ proofs' = [proofs EXCEPT ![t] =
                    [status |-> "open", kind |-> "password",
                     session |-> req[r].session, cred |-> None,
                     at |-> clock, source |-> None]]
             /\ RespondWith(r, [req[r].data EXCEPT !.reauth = t])
       \/ Finish(r) /\ UNCHANGED proofs
    /\ UNCHANGED <<clock, creds, challenges, ceremonies, store, lastCleanup>>

\* RegistrationBeginView.post up to the decision whether a step-up is needed.
BeginRead(r) ==
    LET need == \E c \in Creds : Owns(UserOf(r), c)
        ready == /\ req[r].data.reauth # None
                 /\ need => req[r].data.grant # None
    IN  /\ At(r, "begin_read")
        /\ \/ /\ ready
              /\ req' = [req EXCEPT ![r].pc = "begin_consume", ![r].require = need]
           \/ Finish(r)     \* 428, or 400 for the name
        /\ UNCHANGED <<clock, creds, proofs, challenges, ceremonies, store, lastCleanup>>

\* Mutants: the consumed mark, and the age, are not looked at.
UsableProofSpent(t, kind, s) ==
    /\ t # None /\ proofs[t].kind = kind /\ proofs[t].session = s
    /\ WithinTtl(proofs[t].at, REAUTH_TTL_SECONDS)
UsableProofStale(t, kind, s) ==
    /\ t # None /\ proofs[t].status = "open"
    /\ proofs[t].kind = kind /\ proofs[t].session = s
UsableProof(t, kind, s) ==
    /\ t # None
    /\ proofs[t].status = "open"
    /\ proofs[t].kind = kind
    /\ proofs[t].session = s
    /\ WithinTtl(proofs[t].at, REAUTH_TTL_SECONDS)

\* Mutant: a grant is good although its passkey was revoked since.
ProofsOkRevoked(r) ==
    /\ UsableProof(req[r].data.reauth, "password", req[r].session)
    /\ req[r].require => UsableProof(req[r].data.grant, "passkey", req[r].session)
\* What _consume_enrollment_proofs verifies of the locked rows.
ProofsOk(r) ==
    LET d == req[r].data  IN
    /\ UsableProof(d.reauth, "password", req[r].session)
    /\ req[r].require =>
          /\ UsableProof(d.grant, "passkey", req[r].session)
          /\ proofs[d.grant].cred # None
          /\ Owns(UserOf(r), proofs[d.grant].cred)

\* Mutant: the step-up grant is marked, the password proof is forgotten.
SpentInPart(r) == IF req[r].require THEN {req[r].data.grant} ELSE {req[r].data.reauth}
Spent(r) == IF req[r].require THEN {req[r].data.reauth, req[r].data.grant}
            ELSE {req[r].data.reauth}
\* Mutant: consumed_at is set and the row not saved.
ConsumeUnsaved(rows, T) == rows
Consume(rows, T) ==
    [t \in Tokens |-> IF t \in T THEN [rows[t] EXCEPT !.status = "consumed"]
                      ELSE rows[t]]

\* The proofs pay for one ceremony, in one transaction ...
BeginCeremony(r) ==
    LET d == req[r].data
        pk == IF req[r].require THEN d.grant ELSE None
    IN  /\ At(r, "begin_consume")
        /\ ProofsOk(r)
        /\ proofs' = Consume(proofs, Spent(r))
        /\ \E e \in Ceremonies :
              /\ ceremonies[e].status = "unused"
              /\ ceremonies' = [ceremonies EXCEPT ![e] =
                     [status |-> "open", session |-> req[r].session,
                      pw |-> d.reauth, pk |-> pk,
                      cred |-> IF pk = None THEN None ELSE proofs[pk].cred,
                      started_at |-> clock]]
              /\ RespondWith(r, [d EXCEPT !.reauth = None, !.grant = None,
                                          !.registration = e])
        /\ UNCHANGED <<clock, creds, challenges, store, lastCleanup>>

\* ... or they are refused (or the database fails) and leave the session.
BeginRefused(r) ==
    LET d == req[r].data  IN
    /\ At(r, "begin_consume")
    /\ RespondWith(r, [d EXCEPT !.reauth = None,
                                !.grant = IF req[r].require THEN None ELSE d.grant])
    /\ UNCHANGED <<clock, creds, proofs, challenges, ceremonies, store, lastCleanup>>

\* Mutant: the state is popped, and left for the middleware to save.
CompleteUnsaved(r) ==
    LET d == [req[r].data EXCEPT !.registration = None]  IN
    /\ At(r, "complete_save")
    /\ req' = [req EXCEPT ![r].pc = "complete_check", ![r].data = d,
                          ![r].modified = d # req[r].data,
                          ![r].ceremony = req[r].data.registration]
    /\ UNCHANGED <<clock, creds, proofs, challenges, ceremonies, store, lastCleanup>>
\* RegistrationCompleteView.post: the state is popped and the session saved.
CompleteSave(r) ==
    LET d == [req[r].data EXCEPT !.registration = None]  IN
    /\ At(r, "complete_save")
    /\ store' = [store EXCEPT ![req[r].session] = d]
    /\ req' = [req EXCEPT ![r].pc = "complete_check", ![r].data = d,
                          ![r].modified = d # req[r].data,
                          ![r].ceremony = req[r].data.registration]
    /\ UNCHANGED <<clock, creds, proofs, challenges, ceremonies, lastCleanup>>

CeremonyOk(r) ==
    LET e == req[r].ceremony  IN
    /\ e # None
    /\ ceremonies[e].session = req[r].session
    /\ WithinTtl(ceremonies[e].started_at, PASSKEY_CHALLENGE_TTL_SECONDS)
    /\ ceremonies[e].cred # None => Owns(UserOf(r), ceremonies[e].cred)

CompleteCheck(r) ==
    /\ At(r, "complete_check")
    /\ IF CeremonyOk(r) THEN Goto(r, "complete_verify") ELSE RespondAsIs(r)
    /\ UNCHANGED <<clock, creds, proofs, challenges, ceremonies, store, lastCleanup>>

\* helper.register_complete stores the new passkey, and its name is saved in
\* a second transaction: the passkey stays if that one fails.  Nothing ties
\* the state to the passkeys made with it, so another authenticator may answer.
Register(r) ==
    LET e == req[r].ceremony  IN
    /\ At(r, "complete_verify")
    /\ \/ \E c \in Creds :
             /\ creds[c].status = "unused"
             /\ creds' = [creds EXCEPT ![c] =
                    [status |-> "live", user |-> UserOf(r), ceremony |-> e]]
       \/ UNCHANGED creds       \* refused by the library or the database
    /\ RespondAsIs(r)
    /\ UNCHANGED <<clock, proofs, challenges, ceremonies, store, lastCleanup>>
-----------------------------------------------------------------------------
\* EnrollmentStepUpBeginView.post
OptionsExists(r) ==
    /\ At(r, "options_exists")
    /\ IF \E c \in Creds : Owns(UserOf(r), c) THEN Goto(r, "options_admit")
                                              ELSE Finish(r)
    /\ UNCHANGED <<clock, creds, proofs, challenges, ceremonies, store, lastCleanup>>

OptionsCreate(r) ==
    LET d == [req[r].data EXCEPT !.stepup = None, !.grant = None]  IN
    /\ At(r, "options_create")
    /\ \/ \E t \in Tokens :
             /\ challenges[t].status = "unused"
             /\ challenges' = [challenges EXCEPT ![t] =
                    [status |-> "open", session |-> req[r].session,
                     at |-> clock]]
             /\ RespondWith(r, [d EXCEPT !.stepup = t])
       \/ /\ IF d = req[r].data THEN Finish(r) ELSE RespondWith(r, d)     \* 503
          /\ UNCHANGED challenges
    /\ UNCHANGED <<clock, creds, proofs, ceremonies, store, lastCleanup>>

\* EnrollmentStepUpCompleteView.post: pop the keys and save the session.
AssertSave(r) ==
    LET d == [req[r].data EXCEPT !.stepup = None, !.grant = None]  IN
    /\ At(r, "assert_save")
    /\ store' = [store EXCEPT ![req[r].session] = d]
    /\ req' = [req EXCEPT ![r].pc = "assert_consume", ![r].data = d,
                          ![r].modified = d # req[r].data,
                          ![r].token = req[r].data.stepup]
    /\ UNCHANGED <<clock, creds, proofs, challenges, ceremonies, lastCleanup>>

\* Mutant: a challenge may be answered again.
UsableChallengeSpent(t, s) ==
    /\ t # None /\ challenges[t].session = s
    /\ WithinTtl(challenges[t].at, PASSKEY_CHALLENGE_TTL_SECONDS)
UsableChallenge(t, s) ==
    /\ t # None
    /\ challenges[t].status = "open"
    /\ challenges[t].session = s
    /\ WithinTtl(challenges[t].at, PASSKEY_CHALLENGE_TTL_SECONDS)

\* _consume_enrollment_challenge, before anything is verified with it.
AssertConsume(r) ==
    /\ At(r, "assert_consume")
    /\ \/ /\ UsableChallenge(req[r].token, req[r].session)
          /\ challenges' = Consume(challenges, {req[r].token})
          /\ Goto(r, "assert_admit")
       \/ RespondAsIs(r) /\ UNCHANGED challenges    \* refused, or DatabaseError
    /\ UNCHANGED <<clock, creds, proofs, ceremonies, store, lastCleanup>>

\* helper.authenticate_complete names the credential that signed.
AssertVerify(r) ==
    /\ At(r, "assert_verify")
    /\ \/ \E c \in Creds :
             /\ Owns(UserOf(r), c)
             /\ req' = [req EXCEPT ![r].pc = "assert_grant", ![r].cred = c]
       \/ RespondAsIs(r)
    /\ UNCHANGED <<clock, creds, proofs, challenges, ceremonies, store, lastCleanup>>

AssertGrant(r) ==
    /\ At(r, "assert_grant")
    /\ \/ \E t \in Tokens :
             /\ proofs[t].status = "unused"
             /\ proofs' = [proofs EXCEPT ![t] =
                    [status |-> "open", kind |-> "passkey",
                     session |-> req[r].session, cred |-> req[r].cred,
                     at |-> clock, source |-> req[r].token]]
             /\ RespondWith(r, [req[r].data EXCEPT !.grant = t])
       \/ RespondAsIs(r) /\ UNCHANGED proofs        \* 503
    /\ UNCHANGED <<clock, creds, challenges, ceremonies, store, lastCleanup>>

\* revoke: the right password deletes the row; the session is not modified.
RevokeDelete(r) ==
    /\ At(r, "revoke_delete")
    /\ \/ \E c \in Creds :
             /\ Owns(UserOf(r), c)
             /\ creds' = [creds EXCEPT ![c].status = "revoked"]
       \/ UNCHANGED creds       \* wrong password, or no such passkey
    /\ Finish(r)
    /\ UNCHANGED <<clock, proofs, challenges, ceremonies, store, lastCleanup>>
-----------------------------------------------------------------------------
Tick ==
    /\ clock < MaxTime
    /\ clock' = clock + 1
    /\ UNCHANGED <<creds, proofs, challenges, ceremonies, store, req, lastCleanup>>

\* The worker is replaced (deploy, crash, timeout): its requests are gone,
\* what they committed stays, and the next process has not swept yet.
Restart ==
    /\ req' = [r \in Requests |-> IdleRequest]
    /\ lastCleanup' = -RATE_LIMIT_CLEANUP_INTERVAL_SECONDS
    /\ UNCHANGED <<clock, creds, proofs, challenges, ceremonies, store>>

Step(r) ==
    \/ \E s \in Sessions, p \in Views : Arrive(r, s, p)
    \/ Respond(r) \/ Abort(r) \/ Admit(r)
    \/ ReauthCreate(r)
    \/ BeginRead(r) \/ BeginCeremony(r) \/ BeginRefused(r)
    \/ CompleteSave(r) \/ CompleteCheck(r) \/ Register(r)
    \/ OptionsExists(r) \/ OptionsCreate(r)
    \/ AssertSave(r) \/ AssertConsume(r) \/ AssertVerify(r) \/ AssertGrant(r)
    \/ RevokeDelete(r)

Next == (\E r \in Requests : Step(r)) \/ Tick \/ Restart

Spec == Init /\ [][Next]_vars
-----------------------------------------------------------------------------
Opened == {e \in Ceremonies : ceremonies[e].status = "open"}

\* By the rows P, proof t was spent on ceremony x in time, by the session it
\* was issued to.
Paid(P, t, kind, x) ==
    /\ t # None
    /\ P[t].status \in {"consumed", "deleted"}
    /\ P[t].kind = kind
    /\ P[t].session = x.session
    /\ 0 <= x.started_at - P[t].at
    /\ x.started_at - P[t].at <= REAUTH_TTL_SECONDS

(***************************************************************************)
(* Every registration ceremony was paid for by a password check at most    *)
(* five minutes old, made in the very session the ceremony belongs to, and *)
(* a ceremony that names a step-up passkey by an assertion of that passkey *)
(* of the same user: whatever stale copies of the session row requests     *)
(* wrote back (_consume_enrollment_proofs).                                *)
(***************************************************************************)
CeremonyPaid ==
    \A e \in Opened :
        LET x == ceremonies[e]  IN
        /\ Paid(proofs, x.pw, "password", x)
        /\ x.pk = None <=> x.cred = None
        /\ x.pk # None =>
              /\ Paid(proofs, x.pk, "passkey", x)
              /\ proofs[x.pk].cred = x.cred
              /\ creds[x.cred].user = SessionUser[x.session]

(***************************************************************************)
(* "Password and passkey proof each authorize only one registration        *)
(* ceremony": no proof pays for two, although two requests of a session    *)
(* may hold copies of the same tokens.                                     *)
(***************************************************************************)
ProofPaysOnce ==
    \A e, f \in Opened :
        e # f => {ceremonies[e].pw, ceremonies[e].pk}
                   \cap {ceremonies[f].pw, ceremonies[f].pk} \subseteq {None}

(***************************************************************************)
(* One step-up challenge yields at most one grant, and only after it was   *)
(* marked as consumed (_consume_enrollment_challenge).                     *)
(***************************************************************************)
ChallengeGrantsOnce ==
    \A t \in Tokens :
        proofs[t].status # "unused" /\ proofs[t].kind = "passkey" =>
            /\ proofs[t].source # None
            /\ challenges[proofs[t].source].status \in {"consumed", "deleted"}
            /\ challenges[proofs[t].source].session = proofs[t].session
            /\ \A u \in Tokens :
                  proofs[u].source = proofs[t].source => u = t

(***************************************************************************)
(* From end to end: every passkey enrolled belongs to the user in whose    *)
(* session its ceremony began, and that session had proved the password at *)
(* most five minutes before and spent the proof on it.                     *)
(***************************************************************************)
EnrolledOnPassword ==
    \A c \in Creds :
        LET e == creds[c].ceremony  IN
        e # None =>
            /\ e \in Opened
            /\ creds[c].user = SessionUser[ceremonies[e].session]
            /\ Paid(proofs, ceremonies[e].pw, "password", ceremonies[e])

(***************************************************************************)
(* The sweep of old rows never takes a proof or a challenge that a request *)
(* could still consume: its window is longer than both times to live.      *)
(***************************************************************************)
SweepSparesUsable ==
    [][\A t \in Tokens :
         /\ proofs[t].status = "open" /\ proofs'[t].status = "deleted"
               => ~WithinTtl(proofs[t].at, REAUTH_TTL_SECONDS)
         /\ challenges[t].status = "open" /\ challenges'[t].status = "deleted"
               => ~WithinTtl(challenges[t].at, PASSKEY_CHALLENGE_TTL_SECONDS)
      ]_vars

(***************************************************************************)
(* A revoked passkey vouches for nothing any more: a ceremony that starts  *)
(* on its grant finds the passkey still enrolled, even if the grant was    *)
(* issued before the revocation.                                           *)
(***************************************************************************)
RevokedCannotVouch ==
    [][\A e \in Ceremonies :
         ceremonies[e].status = "unused" /\ ceremonies'[e].cred # None
           => Owns(SessionUser[ceremonies'[e].session], ceremonies'[e].cred)
      ]_vars
-----------------------------------------------------------------------------
\* The abstract state of the proof table.
Drawn == {t \in Tokens : proofs[t].status # "unused"}
Valid == {t \in Tokens : proofs[t].status = "open"}
SpentOn == [e \in Ceremonies |->
                IF ceremonies[e].status = "open"
                THEN {ceremonies[e].pw, ceremonies[e].pk} \ {None} ELSE {}]

Ledger == INSTANCE OneUseProofs
              WITH drawn <- Drawn, valid <- Valid, spentOn <- SpentOn

(***************************************************************************)
(* The rows of the proof table implement one-use proofs: consumption is    *)
(* atomic over all the proofs of a ceremony, and no sweep, restart, failed *)
(* request or stale session copy makes a spent proof valid again.          *)
(***************************************************************************)
ImplementsOneUseProofs == Ledger!Spec

(***************************************************************************)
(* The strengthenings that make the invariants above inductive: what the   *)
(* program counters and the unused rows say of the tables.                 *)
(***************************************************************************)
RowsWellFormed ==
    /\ \A e \in Ceremonies :
          ceremonies[e].session # None \/ ceremonies[e].cred # None => e \in Opened
    /\ \A e \in Opened : ceremonies[e].session \in Sessions
    /\ \A e \in Opened :
          ceremonies[e].cred # None => creds[ceremonies[e].cred].status # "unused"
    /\ \A t \in Tokens : proofs[t].source # None =>
          proofs[t].status # "unused" /\ proofs[t].kind = "passkey"

AssertPC == {"assert_admit", "assert_verify", "assert_grant"}
\* A request that verifies an assertion is the only one with its challenge.
ChallengeHeldOnce ==
    \A r \in Requests : req[r].pc \in AssertPC =>
        /\ req[r].token # None
        /\ challenges[req[r].token].status \in {"consumed", "deleted"}
        /\ challenges[req[r].token].session = req[r].session
        /\ \A q \in Requests : req[q].pc \in AssertPC
                                  /\ req[q].token = req[r].token => q = r
        /\ \A t \in Tokens : proofs[t].source # req[r].token

\* A request that completes a ceremony has passed the checks of its state.
CeremonyHeld ==
    \A r \in Requests : At(r, "complete_verify") =>
        /\ req[r].ceremony # None
        /\ ceremonies[req[r].ceremony].session = req[r].session

IInv == /\ TypeOK /\ RowsWellFormed /\ ChallengeHeldOnce /\ CeremonyHeld
        /\ CeremonyPaid /\ ProofPaysOnce /\ ChallengeGrantsOnce
        /\ EnrolledOnPassword
-----------------------------------------------------------------------------
(***************************************************************************)
(* README.md: "adding a later credential also requires a dedicated,       *)
(* five-minute WebAuthn step-up".  The need is decided when a registration *)
(* begins; a passkey enrolled since then is not seen when it completes.    *)
(***************************************************************************)
LaterCredentialSteppedUp ==
    [][\A c \in Creds :
         /\ creds[c].status = "unused" /\ creds'[c].status = "live"
         /\ ceremonies[creds'[c].ceremony].cred = None
         => ~\E d \in Creds : Owns(creds'[c].user, d)
      ]_vars

(***************************************************************************)
(* "consume ceremony before verification, including failures": a state     *)
(* handed to the verifier is not handed to it again, whatever crash comes  *)
(* between.  For requests served one at a time: a concurrent request of    *)
(* the session may have copied the state before it was consumed.           *)
(***************************************************************************)
CeremonyVerifiedOnce ==
    \A r, q \in Requests :
        At(r, "complete_verify") =>
            /\ r # q => ~(At(q, "complete_verify")
                            /\ req[q].ceremony = req[r].ceremony)
            /\ \A c \in Creds : creds[c].ceremony # req[r].ceremony
=============================================================================
