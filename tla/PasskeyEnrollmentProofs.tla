----------------------- MODULE PasskeyEnrollmentProofs -----------------------
(***************************************************************************)
(* Proofs about PasskeyEnrollment: its types, the one-use and freshness    *)
(* properties of the proofs that pay for registrations, the one-use        *)
(* property of step-up challenges, and that the proof table implements     *)
(* OneUseProofs.                                                           *)
(***************************************************************************)
EXTENDS PasskeyEnrollment, TLAPS

\* The initial rows: every credential is well typed.
LEMMA InitialCredentialType ==
    ASSUME NEW c \in Creds
    PROVE  InitialCredential(c) \in Credential
<1>1. CASE \E u \in Users : c \in InitialCreds[u]
  BY <1>1 DEF InitialCredential, Credential, Opt
<1>2. CASE ~\E u \in Users : c \in InitialCreds[u]
  BY <1>2 DEF InitialCredential, Credential, Opt
<1> QED BY <1>1, <1>2

LEMMA IdleRequestType == IdleRequest \in Request
BY DEF IdleRequest, Request, EmptySession, SessionData, PC, Opt

LEMMA InitTypeOK == Init => TypeOK
<1> SUFFICES ASSUME Init PROVE TypeOK
  OBVIOUS
<1>1. clock \in Time
  BY TimeAssumption DEF Init, Time
<1>2. creds \in [Creds -> Credential]
  BY InitialCredentialType DEF Init
<1>3. proofs \in [Tokens -> Proof]
  BY TimeAssumption DEF Init, Proof, RowStatus, Opt, Time
<1>4. challenges \in [Tokens -> Challenge]
  BY TimeAssumption DEF Init, Challenge, RowStatus, Opt, Time
<1>5. ceremonies \in [Ceremonies -> Ceremony]
  BY TimeAssumption DEF Init, Ceremony, Opt, Time
<1>6. store \in [Sessions -> SessionData]
  BY DEF Init, EmptySession, SessionData, Opt
<1>7. req \in [Requests -> Request]
  BY IdleRequestType DEF Init
<1>8. \A r \in Requests : req[r].pc = "idle"
  BY DEF Init, IdleRequest
<1>9. lastCleanup \in Int
  BY TimeAssumption DEF Init
<1> QED BY <1>1, <1>2, <1>3, <1>4, <1>5, <1>6, <1>7, <1>8, <1>9 DEF TypeOK

(***************************************************************************)
(* The three ways a request moves on keep the type of the request table.   *)
(***************************************************************************)
ReqOK == /\ req \in [Requests -> Request]
         /\ \A r \in Requests : req[r].pc # "idle" => req[r].session \in Sessions

LEMMA ReqUpdate ==
    ASSUME ReqOK, NEW r \in Requests, NEW x \in Request,
           x.pc # "idle" => x.session \in Sessions,
           req' = [req EXCEPT ![r] = x]
    PROVE  ReqOK'
BY DEF ReqOK

LEMMA GotoType ==
    ASSUME ReqOK, NEW r \in Requests, NEW p \in PC,
           req[r].pc # "idle", Goto(r, p)
    PROVE  ReqOK'
BY DEF ReqOK, Goto, Request

LEMMA FinishType ==
    ASSUME ReqOK, NEW r \in Requests, Finish(r)
    PROVE  ReqOK'
BY IdleRequestType DEF ReqOK, Finish, IdleRequest

LEMMA RespondWithType ==
    ASSUME ReqOK, NEW r \in Requests, NEW d \in SessionData,
           req[r].pc # "idle", RespondWith(r, d)
    PROVE  ReqOK'
<1>1. [IdleRequest EXCEPT !.pc = "respond", !.session = req[r].session,
                          !.data = d] \in Request
  BY DEF ReqOK, IdleRequest, Request, PC, Opt
<1> QED BY <1>1 DEF ReqOK, RespondWith, IdleRequest

LEMMA RespondAsIsType ==
    ASSUME ReqOK, NEW r \in Requests, req[r].pc # "idle", RespondAsIs(r)
    PROVE  ReqOK'
<1>1. req[r].data \in SessionData
  BY DEF ReqOK, Request
<1> QED BY <1>1, FinishType, RespondWithType DEF RespondAsIs

LEMMA SweptType ==
    /\ proofs \in [Tokens -> Proof] => Swept(proofs) \in [Tokens -> Proof]
    /\ challenges \in [Tokens -> Challenge]
         => Swept(challenges) \in [Tokens -> Challenge]
BY DEF Swept, Proof, Challenge, RowStatus

LEMMA ConsumeType ==
    ASSUME NEW T
    PROVE  /\ proofs \in [Tokens -> Proof] => Consume(proofs, T) \in [Tokens -> Proof]
           /\ challenges \in [Tokens -> Challenge]
                => Consume(challenges, T) \in [Tokens -> Challenge]
BY DEF Consume, Proof, Challenge, RowStatus
-----------------------------------------------------------------------------
(***************************************************************************)
(* Type correctness of every step of a request.                            *)
(***************************************************************************)
LEMMA MaybeCleanupType ==
    ASSUME TypeOK, MaybeCleanup
    PROVE  /\ proofs' \in [Tokens -> Proof]
           /\ challenges' \in [Tokens -> Challenge]
           /\ lastCleanup' \in Int
BY SweptType DEF TypeOK, MaybeCleanup, Time

LEMMA TypeReq == TypeOK <=> /\ clock \in Time
                            /\ creds \in [Creds -> Credential]
                            /\ proofs \in [Tokens -> Proof]
                            /\ challenges \in [Tokens -> Challenge]
                            /\ ceremonies \in [Ceremonies -> Ceremony]
                            /\ store \in [Sessions -> SessionData]
                            /\ ReqOK
                            /\ lastCleanup \in Int
BY DEF TypeOK, ReqOK

LEMMA StepTypeOK ==
    ASSUME TypeOK, NEW r \in Requests, Step(r)
    PROVE  TypeOK'
<1>0. ReqOK /\ req[r] \in Request /\ req[r].data \in SessionData
  BY TypeReq DEF ReqOK, Request
<1> DEFINE d == req[r].data
<1>1. ASSUME NEW s \in Sessions, NEW p \in Views, Arrive(r, s, p) PROVE TypeOK'
  <2>1. [IdleRequest EXCEPT !.pc = p, !.session = s, !.data = store[s]] \in Request
    BY ViewsAssumption DEF TypeOK, IdleRequest, Request, PC, Opt
  <2>2. ReqOK'
    BY <1>0, <1>1, <2>1 DEF Arrive, ReqOK, IdleRequest
  <2> QED BY <1>1, <2>2 DEF Arrive, TypeOK, ReqOK
<1>2. ASSUME Respond(r) PROVE TypeOK'
  <2>1. ReqOK'
    BY <1>0, <1>2, FinishType DEF Respond
  <2>2. store' \in [Sessions -> SessionData]
    BY <1>0, <1>2 DEF Respond, TypeOK
  <2> QED BY <1>2, <2>1, <2>2 DEF Respond, TypeOK, ReqOK
<1>3. ASSUME Admit(r) PROVE TypeOK'
  <2>1. req[r].pc # "idle" /\ AdmittedTo[req[r].pc] \in PC
    BY <1>3 DEF Admit, AdmittedTo, PC, Entry
  <2>2. ReqOK'
    BY <1>0, <1>3, <2>1, GotoType, FinishType, RespondAsIsType DEF Admit, At
  <2> QED BY <1>3, <2>2, MaybeCleanupType DEF Admit, TypeOK, ReqOK
<1>4. ASSUME ReauthCreate(r) PROVE TypeOK'
  <2>1. req[r].pc # "idle" /\ req[r].session \in Sessions
    BY <1>0, <1>4 DEF ReauthCreate, At, ReqOK
  <2>a. [status |-> "open", kind |-> "password", session |-> req[r].session,
         cred |-> None, at |-> clock, source |-> None] \in Proof
    BY <2>1 DEF TypeOK, Proof, RowStatus, Opt
  <2>2. proofs' \in [Tokens -> Proof]
    BY <1>4, <2>a DEF ReauthCreate, TypeOK
  <2>3. \A t \in Tokens : [d EXCEPT !.reauth = t] \in SessionData
    BY <1>0 DEF SessionData, Opt
  <2>4. ReqOK'
    BY <1>0, <1>4, <2>1, <2>3, FinishType, RespondWithType DEF ReauthCreate
  <2> QED BY <1>4, <2>2, <2>4 DEF ReauthCreate, TypeOK, ReqOK
<1>5. ASSUME BeginRead(r) PROVE TypeOK'
  <2> DEFINE need == \E c \in Creds : Owns(UserOf(r), c)
  <2>1. need \in BOOLEAN
    OBVIOUS
  <2> HIDE DEF need
  <2>2. ASSUME req' = [req EXCEPT ![r].pc = "begin_consume", ![r].require = need]
        PROVE  ReqOK'
    BY <1>0, <1>5, <2>1, <2>2 DEF ReqOK, Request, PC, BeginRead, At
  <2>3. ReqOK'
    BY <1>0, <1>5, <2>2, FinishType DEF BeginRead, need
  <2> QED BY <1>5, <2>3 DEF BeginRead, TypeOK, ReqOK
<1>6. ASSUME BeginCeremony(r) PROVE TypeOK'
  <2>1. req[r].pc # "idle" /\ req[r].session \in Sessions
    BY <1>0, <1>6 DEF BeginCeremony, At, ReqOK
  <2>2. proofs' \in [Tokens -> Proof]
    BY <1>6, ConsumeType DEF BeginCeremony, TypeOK
  <2>3. \A e \in Ceremonies :
           [d EXCEPT !.reauth = None, !.grant = None, !.registration = e] \in SessionData
    BY <1>0 DEF SessionData, Opt
  <2>4. ReqOK'
    BY <1>0, <1>6, <2>1, <2>3, RespondWithType DEF BeginCeremony
  <2>5. \A t \in Tokens : proofs[t].cred \in Opt(Creds)
    BY DEF TypeOK, Proof
  <2>6. d.reauth \in Opt(Tokens) /\ d.grant \in Opt(Tokens)
    BY <1>0 DEF SessionData
  <2>7. ceremonies' \in [Ceremonies -> Ceremony]
    BY <1>6, <2>1, <2>5, <2>6 DEF BeginCeremony, TypeOK, Ceremony, Opt
  <2> QED BY <1>6, <2>2, <2>4, <2>7 DEF BeginCeremony, TypeOK, ReqOK
<1>7. ASSUME BeginRefused(r) PROVE TypeOK'
  <2>1. [d EXCEPT !.reauth = None, !.grant = IF req[r].require THEN None ELSE d.grant]
          \in SessionData
    BY <1>0 DEF SessionData, Opt
  <2>2. ReqOK'
    BY <1>0, <1>7, <2>1, RespondWithType DEF BeginRefused, At
  <2> QED BY <1>7, <2>2 DEF BeginRefused, TypeOK, ReqOK
<1>8. ASSUME CompleteSave(r) PROVE TypeOK'
  <2> DEFINE e == [d EXCEPT !.registration = None]
  <2> DEFINE m == e # d
  <2>1. e \in SessionData /\ d.registration \in Opt(Ceremonies) /\ m \in BOOLEAN
    BY <1>0 DEF SessionData, Opt
  <2> HIDE DEF e, m
  <2>2. store' = [store EXCEPT ![req[r].session] = e]
    BY <1>8 DEF CompleteSave, e
  <2>3. req' = [req EXCEPT ![r].pc = "complete_check", ![r].data = e,
                           ![r].modified = m, ![r].ceremony = d.registration]
    BY <1>8 DEF CompleteSave, e, m
  <2> DEFINE x == [req[r] EXCEPT !.pc = "complete_check", !.data = e,
                                !.modified = m, !.ceremony = d.registration]
  <2>4. x \in Request /\ x.session = req[r].session
    BY <1>0, <2>1 DEF Request, PC
  <2>5. req' = [req EXCEPT ![r] = x]
    BY <1>0, <2>3 DEF ReqOK
  <2>6. req[r].session \in Sessions
    BY <1>0, <1>8 DEF ReqOK, CompleteSave, At
  <2>7. ReqOK'
    BY <1>0, <2>4, <2>5, <2>6, ReqUpdate
  <2>8. store' \in [Sessions -> SessionData]
    BY <2>1, <2>2 DEF TypeOK
  <2> QED BY <1>8, <2>7, <2>8 DEF CompleteSave, TypeOK, ReqOK
<1>9. ASSUME CompleteCheck(r) PROVE TypeOK'
  <2>1. req[r].pc # "idle" /\ "complete_verify" \in PC
    BY <1>9 DEF CompleteCheck, At, PC
  <2>2. ReqOK'
    BY <1>0, <1>9, <2>1, GotoType, RespondAsIsType DEF CompleteCheck
  <2> QED BY <1>9, <2>2 DEF CompleteCheck, TypeOK, ReqOK
<1>10. ASSUME Register(r) PROVE TypeOK'
  <2>1. req[r].pc # "idle" /\ req[r].session \in Sessions
    BY <1>0, <1>10 DEF Register, At, ReqOK
  <2>2. ReqOK'
    BY <1>0, <1>10, <2>1, RespondAsIsType DEF Register
  <2>3. UserOf(r) \in Users /\ req[r].ceremony \in Opt(Ceremonies)
    BY <1>0, <2>1, SessionAssumption DEF UserOf, Request
  <2>4. creds' \in [Creds -> Credential]
    BY <1>10, <2>3 DEF Register, TypeOK, Credential, Opt
  <2> QED BY <1>10, <2>2, <2>4 DEF Register, TypeOK, ReqOK
<1>11. ASSUME OptionsExists(r) PROVE TypeOK'
  <2>1. req[r].pc # "idle" /\ "options_admit" \in PC
    BY <1>11 DEF OptionsExists, At, PC
  <2>2. ReqOK'
    BY <1>0, <1>11, <2>1, GotoType, FinishType DEF OptionsExists
  <2> QED BY <1>11, <2>2 DEF OptionsExists, TypeOK, ReqOK
<1>12. ASSUME OptionsCreate(r) PROVE TypeOK'
  <2> DEFINE e == [d EXCEPT !.stepup = None, !.grant = None]
  <2>1. e \in SessionData /\ \A t \in Tokens : [e EXCEPT !.stepup = t] \in SessionData
    BY <1>0 DEF SessionData, Opt
  <2>2. req[r].pc # "idle" /\ req[r].session \in Sessions
    BY <1>0, <1>12 DEF OptionsCreate, At, ReqOK
  <2>a. [status |-> "open", session |-> req[r].session, at |-> clock] \in Challenge
    BY <2>2 DEF TypeOK, Challenge, RowStatus, Opt
  <2>3. challenges' \in [Tokens -> Challenge]
    BY <1>12, <2>a DEF OptionsCreate, TypeOK
  <2>4. ReqOK'
    BY <1>0, <1>12, <2>1, <2>2, FinishType, RespondWithType DEF OptionsCreate
  <2> QED BY <1>12, <2>3, <2>4 DEF OptionsCreate, TypeOK, ReqOK
<1>13. ASSUME AssertSave(r) PROVE TypeOK'
  <2> DEFINE e == [d EXCEPT !.stepup = None, !.grant = None]
  <2> DEFINE m == e # d
  <2>1. e \in SessionData /\ d.stepup \in Opt(Tokens) /\ m \in BOOLEAN
    BY <1>0 DEF SessionData, Opt
  <2> HIDE DEF e, m
  <2>2. store' = [store EXCEPT ![req[r].session] = e]
    BY <1>13 DEF AssertSave, e
  <2>3. req' = [req EXCEPT ![r].pc = "assert_consume", ![r].data = e,
                           ![r].modified = m, ![r].token = d.stepup]
    BY <1>13 DEF AssertSave, e, m
  <2> DEFINE x == [req[r] EXCEPT !.pc = "assert_consume", !.data = e,
                                !.modified = m, !.token = d.stepup]
  <2>4. x \in Request /\ x.session = req[r].session
    BY <1>0, <2>1 DEF Request, PC
  <2>5. req' = [req EXCEPT ![r] = x]
    BY <1>0, <2>3 DEF ReqOK
  <2>6. req[r].session \in Sessions
    BY <1>0, <1>13 DEF ReqOK, AssertSave, At
  <2>7. ReqOK'
    BY <1>0, <2>4, <2>5, <2>6, ReqUpdate
  <2>8. store' \in [Sessions -> SessionData]
    BY <2>1, <2>2 DEF TypeOK
  <2> QED BY <1>13, <2>7, <2>8 DEF AssertSave, TypeOK, ReqOK
<1>14. ASSUME AssertConsume(r) PROVE TypeOK'
  <2>1. req[r].pc # "idle" /\ "assert_admit" \in PC
    BY <1>14 DEF AssertConsume, At, PC, Entry
  <2>2. ReqOK'
    BY <1>0, <1>14, <2>1, GotoType, RespondAsIsType DEF AssertConsume
  <2>3. challenges' \in [Tokens -> Challenge]
    BY <1>14, ConsumeType DEF AssertConsume, TypeOK
  <2> QED BY <1>14, <2>2, <2>3 DEF AssertConsume, TypeOK, ReqOK
<1>15. ASSUME AssertVerify(r) PROVE TypeOK'
  <2>1. ASSUME NEW c \in Creds,
               req' = [req EXCEPT ![r].pc = "assert_grant", ![r].cred = c]
        PROVE  ReqOK'
    BY <1>0, <1>15, <2>1 DEF ReqOK, Request, PC, Opt, AssertVerify, At
  <2>2. req[r].pc # "idle"
    BY <1>15 DEF AssertVerify, At
  <2>3. ReqOK'
    BY <1>0, <1>15, <2>1, <2>2, RespondAsIsType DEF AssertVerify
  <2> QED BY <1>15, <2>3 DEF AssertVerify, TypeOK, ReqOK
<1>16. ASSUME AssertGrant(r) PROVE TypeOK'
  <2>1. /\ req[r].pc # "idle" /\ req[r].session \in Sessions
        /\ req[r].cred \in Opt(Creds) /\ req[r].token \in Opt(Tokens)
    BY <1>0, <1>16 DEF AssertGrant, At, ReqOK, Request
  <2>a. [status |-> "open", kind |-> "passkey", session |-> req[r].session,
         cred |-> req[r].cred, at |-> clock, source |-> req[r].token] \in Proof
    BY <2>1 DEF TypeOK, Proof, RowStatus, Opt
  <2>2. proofs' \in [Tokens -> Proof]
    BY <1>16, <2>a DEF AssertGrant, TypeOK
  <2>3. \A t \in Tokens : [d EXCEPT !.grant = t] \in SessionData
    BY <1>0 DEF SessionData, Opt
  <2>4. ReqOK'
    BY <1>0, <1>16, <2>1, <2>3, RespondWithType, RespondAsIsType DEF AssertGrant
  <2> QED BY <1>16, <2>2, <2>4 DEF AssertGrant, TypeOK, ReqOK
<1>17. ASSUME RevokeDelete(r) PROVE TypeOK'
  <2>1. ReqOK'
    BY <1>0, <1>17, FinishType DEF RevokeDelete
  <2>2. creds' \in [Creds -> Credential]
    BY <1>17 DEF RevokeDelete, TypeOK, Credential
  <2> QED BY <1>17, <2>1, <2>2 DEF RevokeDelete, TypeOK, ReqOK
<1>18. ASSUME Abort(r) PROVE TypeOK'
  <2>1. ReqOK'
    BY <1>0, <1>18, FinishType DEF Abort
  <2> QED BY <1>18, <2>1 DEF Abort, TypeOK, ReqOK
<1> QED
  BY <1>1, <1>2, <1>3, <1>4, <1>5, <1>6, <1>7, <1>8, <1>9, <1>10, <1>11, <1>12,
     <1>13, <1>14, <1>15, <1>16, <1>17, <1>18 DEF Step

LEMMA NextTypeOK == TypeOK /\ [Next]_vars => TypeOK'
<1> SUFFICES ASSUME TypeOK, [Next]_vars PROVE TypeOK'
  OBVIOUS
<1>1. CASE Tick
  BY <1>1, TimeAssumption DEF Tick, TypeOK, Time
<1>2. CASE Restart
  BY <1>2, IdleRequestType, TimeAssumption DEF Restart, TypeOK, IdleRequest
<1>3. CASE UNCHANGED vars
  BY <1>3 DEF vars, TypeOK
<1> QED BY <1>1, <1>2, <1>3, StepTypeOK DEF Next

\* Every reachable state is well typed.
THEOREM TypeCorrect == Spec => []TypeOK
<1> QED BY InitTypeOK, NextTypeOK, PTL DEF Spec
-----------------------------------------------------------------------------
(***************************************************************************)
(* What a step may do to rows that exist: nothing but move them on.        *)
(***************************************************************************)
ProofHistory == \A t \in Tokens :
    /\ proofs[t].status # "unused" =>
         /\ proofs'[t].status # "unused"
         /\ proofs'[t].kind = proofs[t].kind
         /\ proofs'[t].session = proofs[t].session
         /\ proofs'[t].cred = proofs[t].cred
         /\ proofs'[t].at = proofs[t].at
         /\ proofs'[t].source = proofs[t].source
    /\ proofs[t].status \in {"consumed", "deleted"} =>
         proofs'[t].status \in {"consumed", "deleted"}

ChallengeHistory == \A t \in Tokens :
    /\ challenges[t].status # "unused" => challenges'[t].session = challenges[t].session
    /\ challenges[t].status \in {"consumed", "deleted"} =>
         challenges'[t].status \in {"consumed", "deleted"}

CeremonyHistory ==
    \A e \in Opened : ceremonies'[e] = ceremonies[e]

CredHistory == \A c \in Creds : creds[c].status # "unused" =>
    /\ creds'[c].status # "unused"
    /\ creds'[c].user = creds[c].user
    /\ creds'[c].ceremony = creds[c].ceremony

LEMMA SweptHistory ==
    ASSUME TypeOK, MaybeCleanup
    PROVE  ProofHistory /\ ChallengeHistory
BY DEF TypeOK, MaybeCleanup, Swept, ProofHistory, ChallengeHistory, Proof,
       Challenge, RowStatus

LEMMA ConsumeHistory ==
    ASSUME TypeOK, NEW T
    PROVE  /\ proofs' = Consume(proofs, T)
              /\ (\A t \in T \cap Tokens : proofs[t].status = "open")
                => ProofHistory
           /\ challenges' = Consume(challenges, T)
              /\ (\A t \in T \cap Tokens : challenges[t].status = "open")
                => ChallengeHistory
BY DEF TypeOK, Consume, ProofHistory, ChallengeHistory, Proof, Challenge, RowStatus

LEMMA StepHistory ==
    ASSUME TypeOK, [Next]_vars
    PROVE  ProofHistory /\ ChallengeHistory /\ CeremonyHistory /\ CredHistory
<1> DEFINE H == ProofHistory /\ ChallengeHistory /\ CeremonyHistory /\ CredHistory
<1>0. /\ UNCHANGED proofs => ProofHistory
      /\ UNCHANGED challenges => ChallengeHistory
      /\ UNCHANGED ceremonies => CeremonyHistory
      /\ UNCHANGED creds => CredHistory
  BY DEF ProofHistory, ChallengeHistory, CeremonyHistory, CredHistory
<1>1. ASSUME NEW r \in Requests, Step(r) PROVE H
  <2>1. CASE Admit(r)
    BY <1>0, <2>1, SweptHistory DEF Admit
  <2>2. CASE ReauthCreate(r)
    BY <1>0, <2>2 DEF ReauthCreate, TypeOK, ProofHistory
  <2>3. CASE BeginCeremony(r)
    <3>1. \A t \in Spent(r) : proofs[t].status = "open"
      BY <2>3 DEF BeginCeremony, ProofsOk, UsableProof, Spent
    <3>2. ProofHistory
      BY <2>3, <3>1, ConsumeHistory DEF BeginCeremony
    <3>3. CeremonyHistory
      BY <2>3 DEF BeginCeremony, CeremonyHistory, Opened, TypeOK
    <3> QED BY <1>0, <2>3, <3>2, <3>3 DEF BeginCeremony
  <2>4. CASE Register(r)
    <3>1. CredHistory
      BY <2>4 DEF Register, CredHistory, TypeOK
    <3> QED BY <1>0, <2>4, <3>1 DEF Register
  <2>5. CASE OptionsCreate(r)
    <3>1. ChallengeHistory
      BY <2>5 DEF OptionsCreate, ChallengeHistory, TypeOK
    <3> QED BY <1>0, <2>5, <3>1 DEF OptionsCreate
  <2>6. CASE AssertConsume(r)
    <3>1. ChallengeHistory
      BY <1>0, <2>6, ConsumeHistory DEF AssertConsume, UsableChallenge
    <3> QED BY <1>0, <2>6, <3>1 DEF AssertConsume
  <2>7. CASE AssertGrant(r)
    <3>1. ProofHistory
      BY <2>7 DEF AssertGrant, TypeOK, ProofHistory
    <3> QED BY <1>0, <2>7, <3>1 DEF AssertGrant
  <2>8. CASE RevokeDelete(r)
    <3>1. CredHistory
      BY <2>8 DEF RevokeDelete, CredHistory, TypeOK, Credential
    <3> QED BY <1>0, <2>8, <3>1 DEF RevokeDelete
  <2>9. CASE \/ \E s \in Sessions, p \in Views : Arrive(r, s, p)
             \/ Respond(r) \/ Abort(r) \/ BeginRead(r) \/ BeginRefused(r)
             \/ CompleteSave(r) \/ CompleteCheck(r) \/ OptionsExists(r)
             \/ AssertSave(r) \/ AssertVerify(r)
    BY <1>0, <2>9 DEF Arrive, Respond, Abort, BeginRead, BeginRefused, CompleteSave,
       CompleteCheck, OptionsExists, AssertSave, AssertVerify
  <2> QED
    BY <1>1, <2>1, <2>2, <2>3, <2>4, <2>5, <2>6, <2>7, <2>8, <2>9 DEF Step
<1>2. CASE Tick
  BY <1>0, <1>2 DEF Tick
<1>3. CASE Restart
  BY <1>0, <1>3 DEF Restart
<1>4. CASE UNCHANGED vars
  BY <1>0, <1>4 DEF vars
<1> QED BY <1>1, <1>2, <1>3, <1>4 DEF Next
-----------------------------------------------------------------------------
(***************************************************************************)
(* Which actions write the ceremonies, the credentials and new proofs.     *)
(***************************************************************************)
LEMMA WhoWrites ==
    ASSUME TypeOK, [Next]_vars
    PROVE  /\ ceremonies' = ceremonies \/ \E r \in Requests : BeginCeremony(r)
           /\ \/ creds' = creds
              \/ \E r \in Requests : Register(r) \/ RevokeDelete(r)
           /\ \A t \in Tokens : proofs[t].status = "unused" =>
                \/ proofs'[t] = proofs[t]
                \/ \E r \in Requests : ReauthCreate(r) \/ AssertGrant(r)
<1>1. ASSUME NEW r \in Requests, Step(r),
             ~BeginCeremony(r), ~Register(r), ~RevokeDelete(r),
             ~ReauthCreate(r), ~AssertGrant(r)
      PROVE  /\ ceremonies' = ceremonies /\ creds' = creds
             /\ \A t \in Tokens : proofs[t].status = "unused" => proofs'[t] = proofs[t]
  <2>1. CASE Admit(r)
    BY <2>1 DEF Admit, MaybeCleanup, Swept, TypeOK
  <2>2. CASE ~Admit(r)
    BY <1>1, <2>2 DEF Step, Arrive, Respond, Abort, BeginRead, BeginRefused, CompleteSave,
       CompleteCheck, OptionsExists, OptionsCreate, AssertSave, AssertConsume,
       AssertVerify
  <2> QED BY <2>1, <2>2
<1>2. ASSUME NEW r \in Requests, BeginCeremony(r)
      PROVE  /\ creds' = creds
             /\ \A t \in Tokens : proofs[t].status = "unused" => proofs'[t] = proofs[t]
  <2>1. \A t \in Spent(r) : proofs[t].status = "open"
    BY <1>2 DEF BeginCeremony, ProofsOk, UsableProof, Spent
  <2> QED BY <1>2, <2>1 DEF BeginCeremony, Consume, TypeOK
<1>3. ASSUME NEW r \in Requests, Register(r) \/ RevokeDelete(r)
      PROVE  ceremonies' = ceremonies /\ proofs' = proofs
  BY <1>3 DEF Register, RevokeDelete
<1>4. ASSUME NEW r \in Requests, ReauthCreate(r) \/ AssertGrant(r)
      PROVE  ceremonies' = ceremonies /\ creds' = creds
  BY <1>4 DEF ReauthCreate, AssertGrant
<1>5. CASE Tick \/ Restart \/ UNCHANGED vars
  BY <1>5 DEF Tick, Restart, vars
<1> QED BY <1>1, <1>2, <1>3, <1>4, <1>5 DEF Next

\* The ceremony a request has just begun, and its proofs.
LEMMA NewCeremony ==
    ASSUME TypeOK, NEW r \in Requests, BeginCeremony(r),
           NEW e \in Opened', e \notin Opened
    PROVE  LET x == ceremonies'[e]  IN
           /\ x.session = req[r].session /\ x.session \in Sessions
           /\ x.pw = req[r].data.reauth
           /\ x.pk = IF req[r].require THEN req[r].data.grant ELSE None
           /\ x.cred = IF x.pk = None THEN None ELSE proofs[x.pk].cred
           /\ x.started_at = clock
           /\ \A f \in Opened' : f # e => f \in Opened
<1>1. req[r].session \in Sessions
  BY DEF BeginCeremony, At, TypeOK
<1>2. PICK f \in Ceremonies :
        /\ ceremonies[f].status = "unused"
        /\ ceremonies' = [ceremonies EXCEPT ![f] =
               [status |-> "open", session |-> req[r].session,
                pw |-> req[r].data.reauth,
                pk |-> IF req[r].require THEN req[r].data.grant ELSE None,
                cred |-> IF (IF req[r].require THEN req[r].data.grant ELSE None) = None
                         THEN None
                         ELSE proofs[IF req[r].require THEN req[r].data.grant
                                     ELSE None].cred,
                started_at |-> clock]]
  BY DEF BeginCeremony
<1>3. e = f /\ \A g \in Opened' : g # f => g \in Opened
  BY <1>2 DEF Opened, TypeOK
<1> QED BY <1>1, <1>2, <1>3 DEF TypeOK

LEMMA PaidStays ==
    ASSUME TypeOK, [Next]_vars, NEW t, t = None \/ t \in Tokens, NEW k, NEW x,
           Paid(proofs, t, k, x)
    PROVE  Paid(proofs', t, k, x)
BY StepHistory DEF Paid, ProofHistory

\* What the transaction of _consume_enrollment_proofs writes counts as paid.
LEMMA PaidNow ==
    ASSUME TypeOK, NEW r \in Requests, BeginCeremony(r), NEW t \in Spent(r),
           NEW k, UsableProof(t, k, req[r].session),
           NEW x, x.session = req[r].session, x.started_at = clock
    PROVE  Paid(proofs', t, k, x)
<1>1. t \in Tokens
  BY NoneAssumption DEF TypeOK, Request, SessionData, Opt, UsableProof, Spent
<1>2. proofs'[t] = [proofs[t] EXCEPT !.status = "consumed"]
  BY <1>1 DEF BeginCeremony, Consume
<1> QED BY <1>1, <1>2 DEF Paid, UsableProof, WithinTtl, TypeOK, Proof

LEMMA CeremonyPaidStep ==
    ASSUME TypeOK, RowsWellFormed, CeremonyPaid, [Next]_vars
    PROVE  CeremonyPaid'
<1> SUFFICES ASSUME NEW e \in Opened'
             PROVE  LET x == ceremonies'[e]  IN
                    /\ Paid(proofs', x.pw, "password", x)
                    /\ x.pk = None <=> x.cred = None
                    /\ x.pk # None =>
                          /\ Paid(proofs', x.pk, "passkey", x)
                          /\ proofs'[x.pk].cred = x.cred
                          /\ creds'[x.cred].user = SessionUser[x.session]
  BY DEF CeremonyPaid, Paid
<1> DEFINE x == ceremonies'[e]
<1>0. e \in Ceremonies
  BY DEF Opened
<1>1. CASE e \in Opened
  <2>1. x = ceremonies[e]
    BY <1>1, StepHistory DEF CeremonyHistory
  <2>2. /\ x.pw = None \/ x.pw \in Tokens
        /\ x.pk = None \/ x.pk \in Tokens
        /\ x.cred = None \/ x.cred \in Creds
    BY <1>0, <2>1 DEF TypeOK, Ceremony, Opt
  <2>3. Paid(proofs', x.pw, "password", x)
    BY <1>1, <2>1, <2>2, PaidStays DEF CeremonyPaid
  <2>4. ASSUME x.pk # None
        PROVE  /\ Paid(proofs', x.pk, "passkey", x)
               /\ proofs'[x.pk].cred = x.cred
               /\ creds'[x.cred].user = SessionUser[x.session]
    <3>1. /\ Paid(proofs, x.pk, "passkey", x) /\ proofs[x.pk].cred = x.cred
          /\ creds[x.cred].user = SessionUser[x.session]
          /\ creds[x.cred].status # "unused" /\ x.cred \in Creds
      BY <1>1, <2>1, <2>2, <2>4 DEF CeremonyPaid, RowsWellFormed
    <3>2. proofs'[x.pk].cred = proofs[x.pk].cred
      BY <2>2, <2>4, <3>1, StepHistory DEF ProofHistory, Paid
    <3>3. creds'[x.cred].user = creds[x.cred].user
      BY <3>1, StepHistory DEF CredHistory
    <3> QED BY <2>2, <3>1, <3>2, <3>3, PaidStays
  <2> QED BY <1>1, <2>1, <2>3, <2>4 DEF CeremonyPaid
<1>2. CASE e \notin Opened
  <2>1. PICK r \in Requests : BeginCeremony(r)
    BY <1>2, WhoWrites DEF Opened
  <2>2. /\ x.session = req[r].session
        /\ x.pw = req[r].data.reauth
        /\ x.pk = IF req[r].require THEN req[r].data.grant ELSE None
        /\ x.cred = IF x.pk = None THEN None ELSE proofs[x.pk].cred
        /\ x.started_at = clock
    BY <1>2, <2>1, NewCeremony
  <2>3. ProofsOk(r) /\ creds' = creds
    BY <2>1 DEF BeginCeremony
  <2>4. Paid(proofs', x.pw, "password", x)
    BY <2>1, <2>2, <2>3, PaidNow DEF ProofsOk, Spent
  <2>5. ASSUME x.pk # None
        PROVE  /\ x.cred # None
               /\ Paid(proofs', x.pk, "passkey", x)
               /\ proofs'[x.pk].cred = x.cred
               /\ creds'[x.cred].user = SessionUser[x.session]
    <3>1. /\ req[r].require /\ x.pk = req[r].data.grant
          /\ UsableProof(x.pk, "passkey", req[r].session)
          /\ x.cred # None /\ Owns(UserOf(r), x.cred)
      BY <2>2, <2>3, <2>5 DEF ProofsOk
    <3>2. x.pk \in Spent(r)
      BY <3>1 DEF Spent
    <3>3. Paid(proofs', x.pk, "passkey", x)
      BY <2>1, <2>2, <3>1, <3>2, PaidNow
    <3>4. x.pk \in Tokens
      BY <2>5, <3>1, NoneAssumption DEF TypeOK, Request, SessionData, Opt
    <3>5. proofs'[x.pk].cred = proofs[x.pk].cred
      BY <2>1, <3>4 DEF BeginCeremony, Consume, TypeOK, Proof
    <3> QED BY <2>2, <2>3, <2>5, <3>1, <3>3, <3>5 DEF Owns, UserOf
  <2> QED BY <2>2, <2>4, <2>5
<1> QED BY <1>1, <1>2

LEMMA ProofPaysOnceStep ==
    ASSUME TypeOK, CeremonyPaid, ProofPaysOnce, [Next]_vars
    PROVE  ProofPaysOnce'
<1> DEFINE PaidWith(C, e) == {C[e].pw, C[e].pk}
<1>1. SUFFICES ASSUME NEW e \in Opened', NEW f \in Opened', e # f
               PROVE  PaidWith(ceremonies', e) \cap PaidWith(ceremonies', f) \subseteq {None}
  BY DEF ProofPaysOnce
<1>2. \A g \in Opened : PaidWith(ceremonies', g) = PaidWith(ceremonies, g)
  BY StepHistory DEF CeremonyHistory
<1>3. ASSUME NEW g \in Opened', g \notin Opened, NEW h \in Opened
      PROVE  PaidWith(ceremonies', g) \cap PaidWith(ceremonies', h) \subseteq {None}
  <2>1. PICK r \in Requests : BeginCeremony(r)
    BY <1>3, WhoWrites DEF Opened
  <2>2. PaidWith(ceremonies', g) \subseteq Spent(r) \cup {None}
    BY <1>3, <2>1, NewCeremony DEF Spent
  <2>3. \A t \in Spent(r) : proofs[t].status = "open"
    BY <2>1 DEF BeginCeremony, ProofsOk, UsableProof, Spent
  <2>4. \A t \in PaidWith(ceremonies, h) \ {None} :
           proofs[t].status \in {"consumed", "deleted"}
    BY <1>3 DEF CeremonyPaid, Paid
  <2> HIDE DEF PaidWith
  <2> QED BY <1>2, <1>3, <2>2, <2>3, <2>4
<1>4. CASE e \in Opened /\ f \in Opened
  BY <1>1, <1>2, <1>4 DEF ProofPaysOnce
<1>5. CASE e \notin Opened /\ f \in Opened
  BY <1>1, <1>3, <1>5
<1>6. CASE e \in Opened /\ f \notin Opened
  BY <1>1, <1>3, <1>6
<1>7. CASE e \notin Opened /\ f \notin Opened
  <2>1. PICK r \in Requests : BeginCeremony(r)
    BY <1>7, WhoWrites DEF Opened
  <2> QED BY <1>1, <1>7, <2>1, NewCeremony
<1> QED BY <1>4, <1>5, <1>6, <1>7

LEMMA RowsWellFormedStep ==
    ASSUME TypeOK, RowsWellFormed, CeremonyPaid, [Next]_vars
    PROVE  RowsWellFormed'
<1>1. ASSUME NEW e \in Ceremonies,
             ceremonies'[e].session # None \/ ceremonies'[e].cred # None
      PROVE  e \in Opened'
  <2>1. CASE \E r \in Requests : BeginCeremony(r)
    BY <1>1, <2>1 DEF BeginCeremony, RowsWellFormed, Opened, TypeOK
  <2>2. CASE ceremonies' = ceremonies
    BY <1>1, <2>2 DEF RowsWellFormed, Opened
  <2> QED BY <2>1, <2>2, WhoWrites
<1>2. ASSUME NEW e \in Opened'
      PROVE  /\ ceremonies'[e].session \in Sessions
             /\ ceremonies'[e].cred # None
                  => creds'[ceremonies'[e].cred].status # "unused"
  <2>1. CASE e \in Opened
    <3>1. ceremonies'[e] = ceremonies[e] /\ ceremonies[e] \in Ceremony
      BY <2>1, StepHistory DEF CeremonyHistory, Opened, TypeOK
    <3> QED BY <2>1, <3>1, StepHistory
            DEF RowsWellFormed, CredHistory, Ceremony, Opt
  <2>2. CASE e \notin Opened
    <3>1. PICK r \in Requests : BeginCeremony(r)
      BY <2>2, WhoWrites DEF Opened
    <3>2. LET x == ceremonies'[e]  IN
          /\ x.session \in Sessions
          /\ x.pk = IF req[r].require THEN req[r].data.grant ELSE None
          /\ x.cred = IF x.pk = None THEN None ELSE proofs[x.pk].cred
      BY <2>2, <3>1, NewCeremony
    <3>3. ProofsOk(r) /\ creds' = creds
      BY <3>1 DEF BeginCeremony
    <3> QED BY <3>2, <3>3 DEF ProofsOk, Owns
  <2> QED BY <2>1, <2>2
<1>3. ASSUME NEW t \in Tokens, proofs'[t].source # None
      PROVE  proofs'[t].status # "unused" /\ proofs'[t].kind = "passkey"
  <2>1. CASE proofs[t].status # "unused"
    BY <1>3, <2>1, StepHistory DEF ProofHistory, RowsWellFormed
  <2>2. CASE proofs[t].status = "unused" /\ proofs'[t] = proofs[t]
    BY <1>3, <2>2 DEF RowsWellFormed
  <2>3. ASSUME NEW r \in Requests, ReauthCreate(r) \/ AssertGrant(r)
        PROVE  proofs'[t].status # "unused" /\ proofs'[t].kind = "passkey"
    <3>1. CASE proofs' = proofs
      BY <1>3, <3>1 DEF RowsWellFormed
    <3>2. ASSUME NEW u \in Tokens, NEW row,
                 proofs' = [proofs EXCEPT ![u] = row],
                 \/ row.source = None
                 \/ row.status = "open" /\ row.kind = "passkey"
          PROVE  proofs'[t].status # "unused" /\ proofs'[t].kind = "passkey"
      <4>1. CASE u = t
        BY <1>3, <3>2, <4>1 DEF TypeOK
      <4>2. CASE u # t
        BY <1>3, <3>2, <4>2 DEF TypeOK, RowsWellFormed
      <4> QED BY <4>1, <4>2
    <3>3. CASE ReauthCreate(r)
      BY <3>1, <3>2, <3>3 DEF ReauthCreate
    <3>4. CASE AssertGrant(r)
      BY <3>1, <3>2, <3>4 DEF AssertGrant
    <3> QED BY <2>3, <3>3, <3>4
  <2> QED BY <2>1, <2>2, <2>3, WhoWrites
<1> QED BY <1>1, <1>2, <1>3 DEF RowsWellFormed
-----------------------------------------------------------------------------
\* Where a request stands after a step, and that the others stand still.
LEMMA PcAfter ==
    ASSUME TypeOK, NEW r \in Requests
    PROVE  /\ \A p : Goto(r, p) => /\ req'[r].pc = p
                                   /\ req'[r].token = req[r].token
                                   /\ req'[r].session = req[r].session
                                   /\ req'[r].ceremony = req[r].ceremony
                                   /\ \A q \in Requests : q # r => req'[q] = req[q]
           /\ Finish(r) => /\ req'[r].pc = "idle"
                           /\ \A q \in Requests : q # r => req'[q] = req[q]
           /\ \A d : RespondWith(r, d) =>
                  /\ req'[r].pc = "respond"
                  /\ \A q \in Requests : q # r => req'[q] = req[q]
           /\ RespondAsIs(r) =>
                  /\ req'[r].pc \in {"idle", "respond"}
                  /\ \A q \in Requests : q # r => req'[q] = req[q]
<1>1. req \in [Requests -> Request] /\ req[r] \in Request
  BY DEF TypeOK
<1>2. ASSUME NEW p, Goto(r, p)
      PROVE  /\ req'[r] = [req[r] EXCEPT !.pc = p]
             /\ \A q \in Requests : q # r => req'[q] = req[q]
  BY <1>1, <1>2 DEF Goto
<1>3. ASSUME NEW d, RespondWith(r, d)
      PROVE  /\ req'[r].pc = "respond"
             /\ \A q \in Requests : q # r => req'[q] = req[q]
  BY <1>1, <1>3 DEF RespondWith, IdleRequest
<1>4. ASSUME NEW p, Goto(r, p)
      PROVE  /\ req'[r].pc = p /\ req'[r].token = req[r].token
             /\ req'[r].session = req[r].session
             /\ req'[r].ceremony = req[r].ceremony
  <2>1. req'[r] = [req[r] EXCEPT !.pc = p]
    BY <1>2, <1>4
  <2> QED BY <1>1, <2>1 DEF Request
<1>5. ASSUME Finish(r)
      PROVE  /\ req'[r].pc = "idle"
             /\ \A q \in Requests : q # r => req'[q] = req[q]
  BY <1>1, <1>5 DEF Finish, IdleRequest
<1>6. \A p : Goto(r, p) => /\ req'[r].pc = p
                            /\ req'[r].token = req[r].token
                            /\ req'[r].session = req[r].session
                            /\ req'[r].ceremony = req[r].ceremony
                            /\ \A q \in Requests : q # r => req'[q] = req[q]
  BY <1>2, <1>4
<1>7. \A d : RespondWith(r, d) =>
           /\ req'[r].pc = "respond"
           /\ \A q \in Requests : q # r => req'[q] = req[q]
  BY <1>3
<1>8. RespondAsIs(r) => /\ req'[r].pc \in {"idle", "respond"}
                        /\ \A q \in Requests : q # r => req'[q] = req[q]
  BY <1>5, <1>7 DEF RespondAsIs
<1> QED BY <1>5, <1>6, <1>7, <1>8

LEMMA OthersStandStill ==
    ASSUME TypeOK, NEW r \in Requests, Step(r), NEW q \in Requests, q # r
    PROVE  req'[q] = req[q]
<1>1. CASE \/ Respond(r) \/ Abort(r) \/ Admit(r) \/ ReauthCreate(r) \/ BeginCeremony(r)
           \/ BeginRefused(r) \/ CompleteCheck(r) \/ Register(r) \/ OptionsExists(r)
           \/ OptionsCreate(r) \/ AssertConsume(r) \/ AssertGrant(r)
           \/ RevokeDelete(r)
  BY <1>1, PcAfter DEF Respond, Abort, Admit, ReauthCreate, BeginCeremony, BeginRefused,
     CompleteCheck, Register, OptionsExists, OptionsCreate, AssertConsume,
     AssertGrant, RevokeDelete
<1>2. CASE \E s \in Sessions, p \in Views : Arrive(r, s, p)
  BY <1>2 DEF Arrive, TypeOK
<1>3. CASE BeginRead(r)
  BY <1>3, PcAfter DEF BeginRead, TypeOK
<1>4. CASE CompleteSave(r) \/ AssertSave(r)
  BY <1>4 DEF CompleteSave, AssertSave, TypeOK
<1>5. CASE AssertVerify(r)
  BY <1>5, PcAfter DEF AssertVerify, TypeOK
<1> QED BY <1>1, <1>2, <1>3, <1>4, <1>5 DEF Step

\* Where the steps that write more of a request than its pc take it.
LEMMA MovesOn ==
    ASSUME TypeOK, NEW q \in Requests
    PROVE  /\ CompleteSave(q) => req'[q].pc = "complete_check"
           /\ AssertSave(q) => req'[q].pc = "assert_consume"
           /\ BeginRead(q) => req'[q].pc \in {"begin_consume", "idle"}
           /\ AssertVerify(q) => req'[q].pc \in {"assert_grant", "respond", "idle"}
           /\ \A s \in Sessions, p \in Views : Arrive(q, s, p) => req'[q].pc \in Entry
<1>0. req[q] \in Request
  BY DEF TypeOK
<1>1. ASSUME CompleteSave(q) PROVE req'[q].pc = "complete_check"
  <2> DEFINE d == [req[q].data EXCEPT !.registration = None]
  <2>1. req' = [req EXCEPT ![q].pc = "complete_check", ![q].data = d,
                           ![q].modified = d # req[q].data,
                           ![q].ceremony = req[q].data.registration]
    BY <1>1 DEF CompleteSave
  <2> HIDE DEF d
  <2>2. req'[q] = [req[q] EXCEPT !.pc = "complete_check", !.data = d,
                                 !.modified = d # req[q].data,
                                 !.ceremony = req[q].data.registration]
    BY <2>1 DEF TypeOK
  <2> QED BY <1>0, <2>2 DEF Request
<1>2. ASSUME AssertSave(q) PROVE req'[q].pc = "assert_consume"
  <2> DEFINE d == [req[q].data EXCEPT !.stepup = None, !.grant = None]
  <2>1. req' = [req EXCEPT ![q].pc = "assert_consume", ![q].data = d,
                           ![q].modified = d # req[q].data,
                           ![q].token = req[q].data.stepup]
    BY <1>2 DEF AssertSave
  <2> HIDE DEF d
  <2>2. req'[q] = [req[q] EXCEPT !.pc = "assert_consume", !.data = d,
                                 !.modified = d # req[q].data,
                                 !.token = req[q].data.stepup]
    BY <2>1 DEF TypeOK
  <2> QED BY <1>0, <2>2 DEF Request
<1>3. ASSUME BeginRead(q) PROVE req'[q].pc \in {"begin_consume", "idle"}
  <2>1. ASSUME NEW x, req' = [req EXCEPT ![q].pc = "begin_consume", ![q].require = x]
        PROVE  req'[q].pc = "begin_consume"
    <3>1. req'[q] = [req[q] EXCEPT !.pc = "begin_consume", !.require = x]
      BY <2>1 DEF TypeOK
    <3> QED BY <1>0, <3>1 DEF Request
  <2> QED BY <1>3, <2>1, PcAfter DEF BeginRead
<1>4. ASSUME AssertVerify(q) PROVE req'[q].pc \in {"assert_grant", "respond", "idle"}
  <2>1. ASSUME NEW c, req' = [req EXCEPT ![q].pc = "assert_grant", ![q].cred = c]
        PROVE  req'[q].pc = "assert_grant"
    <3>1. req'[q] = [req[q] EXCEPT !.pc = "assert_grant", !.cred = c]
      BY <2>1 DEF TypeOK
    <3> QED BY <1>0, <3>1 DEF Request
  <2> QED BY <1>4, <2>1, PcAfter DEF AssertVerify
<1>5. ASSUME NEW s \in Sessions, NEW p \in Views, Arrive(q, s, p)
      PROVE  req'[q].pc \in Entry
  <2>1. req'[q] = [IdleRequest EXCEPT !.pc = p, !.session = s, !.data = store[s]]
    BY <1>5 DEF Arrive, TypeOK
  <2> QED BY <2>1, ViewsAssumption DEF IdleRequest
<1> QED BY <1>1, <1>2, <1>3, <1>4, <1>5

\* A request gets to hold a challenge by consuming it, and keeps that one.
LEMMA AssertEntry ==
    ASSUME TypeOK, [Next]_vars, NEW q \in Requests, req'[q].pc \in AssertPC
    PROVE  /\ req'[q].token = req[q].token
           /\ req'[q].session = req[q].session
           /\ \/ req[q].pc \in AssertPC
              \/ /\ AssertConsume(q) /\ UsableChallenge(req[q].token, req[q].session)
                 /\ challenges' = Consume(challenges, {req[q].token})
<1> DEFINE Same == /\ req[q].pc \in AssertPC
                   /\ req'[q].token = req[q].token
                   /\ req'[q].session = req[q].session
<1>0. req'[q] = req[q] => Same
  OBVIOUS
<1>1. ASSUME NEW r \in Requests, Step(r), r # q PROVE Same
  BY <1>0, <1>1, OthersStandStill
<1>2. CASE AssertConsume(q)
  <2>1. ~RespondAsIs(q)
    BY PcAfter DEF AssertPC
  <2> QED BY <1>2, <2>1, PcAfter DEF AssertConsume
<1>3. CASE AssertVerify(q)
  <2>1. ~RespondAsIs(q)
    BY PcAfter DEF AssertPC
  <2>2. PICK c \in Creds : req' = [req EXCEPT ![q].pc = "assert_grant", ![q].cred = c]
    BY <1>3, <2>1 DEF AssertVerify
  <2>3. req'[q] = [req[q] EXCEPT !.pc = "assert_grant", !.cred = c]
    BY <2>2 DEF TypeOK
  <2>4. req[q] \in Request /\ req[q].pc = "assert_verify"
    BY <1>3 DEF AssertVerify, At, TypeOK
  <2> QED BY <2>3, <2>4 DEF AssertPC, Request
<1>4. CASE Admit(q)
  <2>1. Goto(q, AdmittedTo[req[q].pc])
    BY <1>4, PcAfter DEF Admit, AssertPC
  <2>2. req[q].pc = "assert_admit"
    BY <1>4, <2>1, PcAfter DEF Admit, AdmittedTo, AssertPC
  <2> QED BY <2>1, <2>2, PcAfter DEF AssertPC
<1>5. CASE \E s \in Sessions, p \in Views : Arrive(q, s, p)
  BY <1>5, MovesOn DEF AssertPC, Entry
<1>6. ~(CompleteSave(q) \/ AssertSave(q) \/ BeginRead(q))
  BY MovesOn DEF AssertPC
<1>8. ~(\/ CompleteCheck(q) \/ OptionsExists(q) \/ Respond(q) \/ Abort(q) \/ ReauthCreate(q)
        \/ BeginCeremony(q) \/ BeginRefused(q) \/ Register(q) \/ OptionsCreate(q)
        \/ AssertGrant(q) \/ RevokeDelete(q))
  <2>1. /\ ~Finish(q) /\ ~RespondAsIs(q) /\ \A x : ~RespondWith(q, x)
        /\ \A p : Goto(q, p) => p \in AssertPC
    BY PcAfter DEF AssertPC
  <2>2. ~(\/ CompleteCheck(q) \/ OptionsExists(q) \/ Respond(q) \/ Abort(q)
          \/ Register(q) \/ BeginRefused(q) \/ RevokeDelete(q))
    BY <2>1 DEF CompleteCheck, OptionsExists, Respond, Abort, BeginRefused, Register,
       RevokeDelete, AssertPC
  <2>3. ~(ReauthCreate(q) \/ BeginCeremony(q) \/ OptionsCreate(q) \/ AssertGrant(q))
    BY <2>1 DEF ReauthCreate, BeginCeremony, OptionsCreate, AssertGrant
  <2> QED BY <2>2, <2>3
<1>9. CASE Restart
  BY <1>9 DEF Restart, IdleRequest, AssertPC
<1>10. CASE Tick \/ UNCHANGED vars
  BY <1>0, <1>10 DEF Tick, vars
<1> QED
  BY <1>0, <1>1, <1>2, <1>3, <1>4, <1>5, <1>6, <1>8, <1>9, <1>10 DEF Next, Step

\* What the two steps that store a proof put into the table.
LEMMA StoredByReauth ==
    ASSUME TypeOK, NEW r \in Requests, ReauthCreate(r), NEW t \in Tokens
    PROVE  \/ proofs'[t] = proofs[t]
           \/ proofs'[t].source = None /\ proofs'[t].kind = "password"
<1>1. CASE proofs' = proofs
  BY <1>1
<1>2. CASE proofs' # proofs
  <2>1. PICK u \in Tokens : proofs' = [proofs EXCEPT ![u] =
              [status |-> "open", kind |-> "password", session |-> req[r].session,
               cred |-> None, at |-> clock, source |-> None]]
    BY <1>2 DEF ReauthCreate
  <2> QED BY <2>1 DEF TypeOK
<1> QED BY <1>1, <1>2

LEMMA StoredByGrant ==
    ASSUME TypeOK, NEW r \in Requests, AssertGrant(r), NEW t \in Tokens
    PROVE  proofs'[t] = proofs[t] \/ proofs'[t].source = req[r].token
<1>1. CASE proofs' = proofs
  BY <1>1
<1>2. CASE proofs' # proofs
  <2>1. PICK u \in Tokens : proofs' = [proofs EXCEPT ![u] =
              [status |-> "open", kind |-> "passkey", session |-> req[r].session,
               cred |-> req[r].cred, at |-> clock, source |-> req[r].token]]
    BY <1>2 DEF AssertGrant
  <2> QED BY <2>1 DEF TypeOK
<1> QED BY <1>1, <1>2

LEMMA ChallengeHeldOnceStep ==
    ASSUME TypeOK, RowsWellFormed, ChallengeHeldOnce, ChallengeGrantsOnce, [Next]_vars
    PROVE  ChallengeHeldOnce'
<1> SUFFICES ASSUME NEW r \in Requests, req'[r].pc \in AssertPC
             PROVE  /\ req'[r].token # None
                    /\ challenges'[req'[r].token].status \in {"consumed", "deleted"}
                    /\ challenges'[req'[r].token].session = req'[r].session
                    /\ \A q \in Requests : req'[q].pc \in AssertPC
                          /\ req'[q].token = req'[r].token => q = r
                    /\ \A t \in Tokens : proofs'[t].source # req'[r].token
  BY DEF ChallengeHeldOnce
<1> DEFINE k == req[r].token
<1>0. /\ req'[r].token = k /\ req'[r].session = req[r].session
      /\ k # None => k \in Tokens
  BY AssertEntry DEF TypeOK, Request, Opt
<1> DEFINE Taken(q) == req'[q].pc \in AssertPC /\ req'[q].token = k
<1>1. CASE req[r].pc \in AssertPC
  <2>1. /\ k # None /\ k \in Tokens
        /\ challenges[k].status \in {"consumed", "deleted"}
        /\ challenges[k].session = req[r].session
        /\ \A q \in Requests : req[q].pc \in AssertPC /\ req[q].token = k => q = r
        /\ \A t \in Tokens : proofs[t].source # k
    BY <1>0, <1>1 DEF ChallengeHeldOnce
  <2>2. /\ challenges'[k].status \in {"consumed", "deleted"}
        /\ challenges'[k].session = challenges[k].session
    BY <2>1, StepHistory DEF ChallengeHistory
  <2>3. ASSUME NEW q \in Requests, Taken(q) PROVE q = r
    <3>1. CASE req[q].pc \in AssertPC
      BY <2>1, <2>3, <3>1, AssertEntry
    <3>2. CASE UsableChallenge(req[q].token, req[q].session)
      BY <2>1, <2>3, <3>2, AssertEntry DEF UsableChallenge
    <3> QED BY <2>3, <3>1, <3>2, AssertEntry
  <2>4. ASSUME NEW t \in Tokens PROVE proofs'[t].source # k
    <3>1. CASE proofs[t].status # "unused"
      BY <2>1, <3>1, StepHistory DEF ProofHistory
    <3>2. CASE proofs'[t] = proofs[t]
      BY <2>1, <3>2
    <3>3. ASSUME NEW q \in Requests, ReauthCreate(q) PROVE proofs'[t].source # k
      BY <2>1, <3>3, StoredByReauth
    <3>4. ASSUME NEW q \in Requests, AssertGrant(q) PROVE proofs'[t].source # k
      <4>2. CASE proofs' = proofs
        BY <2>1, <4>2
      <4>3. CASE q # r
        <5>1. req[q].pc \in AssertPC
          BY <3>4 DEF AssertGrant, At, AssertPC
        <5> QED BY <2>1, <3>4, <4>3, <5>1, StoredByGrant
      <4>4. CASE q = r /\ proofs' # proofs
        <5>1. req'[r].pc = "respond"
          BY <3>4, <4>4, PcAfter DEF AssertGrant
        <5> QED BY <5>1 DEF AssertPC
      <4> QED BY <4>2, <4>3, <4>4
    <3> QED BY <3>1, <3>2, <3>3, <3>4, WhoWrites
  <2> QED BY <1>0, <2>1, <2>2, <2>3, <2>4
<1>2. CASE req[r].pc \notin AssertPC
  <2>1. /\ AssertConsume(r) /\ UsableChallenge(k, req[r].session)
        /\ challenges' = Consume(challenges, {k})
    BY <1>2, AssertEntry
  <2>2. k # None /\ k \in Tokens /\ challenges[k].status = "open"
        /\ challenges[k].session = req[r].session
    BY <1>0, <2>1 DEF UsableChallenge
  <2>3. /\ challenges'[k].status \in {"consumed", "deleted"}
        /\ challenges'[k].session = challenges[k].session
    BY <2>1, <2>2 DEF Consume, TypeOK, Challenge
  <2>4. ASSUME NEW q \in Requests, Taken(q), q # r PROVE FALSE
    <3>1. req'[q] = req[q]
      BY <2>1, <2>4, OthersStandStill DEF Step
    <3> QED BY <2>2, <2>4, <3>1 DEF ChallengeHeldOnce
  <2>5. proofs' = proofs
    BY <2>1 DEF AssertConsume
  <2>6. \A t \in Tokens : proofs[t].source # k
    BY <2>2 DEF RowsWellFormed, ChallengeGrantsOnce
  <2> QED BY <1>0, <2>2, <2>3, <2>4, <2>5, <2>6
<1> QED BY <1>1, <1>2

LEMMA ChallengeGrantsOnceStep ==
    ASSUME TypeOK, RowsWellFormed, ChallengeHeldOnce, ChallengeGrantsOnce, [Next]_vars
    PROVE  ChallengeGrantsOnce'
<1> DEFINE Grants(P, t) == P[t].status # "unused" /\ P[t].kind = "passkey"
<1> DEFINE Backed(P, C, t) == /\ P[t].source # None
                              /\ C[P[t].source].status \in {"consumed", "deleted"}
                              /\ C[P[t].source].session = P[t].session
<1>0. \A t \in Tokens : proofs[t].source = None \/ proofs[t].source \in Tokens
  BY DEF TypeOK, Proof, Opt
<1>1. \A t \in Tokens : Grants(proofs, t) => Backed(proofs, challenges, t)
  BY DEF ChallengeGrantsOnce
<1>2. ASSUME NEW t \in Tokens, proofs[t].status # "unused", Grants(proofs', t)
      PROVE  Backed(proofs', challenges', t)
  BY <1>0, <1>1, <1>2, StepHistory DEF ProofHistory, ChallengeHistory
<1>3. CASE \E q \in Requests : AssertGrant(q) /\ proofs' # proofs
  <2>1. PICK q \in Requests : AssertGrant(q) /\ proofs' # proofs
    BY <1>3
  <2>2. PICK u \in Tokens :
          /\ proofs[u].status = "unused"
          /\ proofs' = [proofs EXCEPT ![u] =
                [status |-> "open", kind |-> "passkey", session |-> req[q].session,
                 cred |-> req[q].cred, at |-> clock, source |-> req[q].token]]
    BY <2>1 DEF AssertGrant
  <2>3. req[q].pc \in AssertPC /\ challenges' = challenges
    BY <2>1 DEF AssertGrant, At, AssertPC
  <2>4. /\ proofs'[u].source = req[q].token /\ proofs'[u].session = req[q].session
        /\ \A t \in Tokens : t # u => proofs'[t] = proofs[t]
    BY <2>2 DEF TypeOK
  <2>5. Backed(proofs', challenges', u)
    BY <2>3, <2>4 DEF ChallengeHeldOnce
  <2>6. \A t \in Tokens : t # u => proofs'[t].source # proofs'[u].source
    BY <2>3, <2>4 DEF ChallengeHeldOnce
  <2> QED BY <1>1, <2>3, <2>4, <2>5, <2>6 DEF ChallengeGrantsOnce
<1>4. CASE ~\E q \in Requests : AssertGrant(q) /\ proofs' # proofs
  <2>1. \A t \in Tokens : proofs[t].status = "unused" =>
            proofs'[t].source = None /\ ~Grants(proofs', t)
    <3> SUFFICES ASSUME NEW t \in Tokens, proofs[t].status = "unused"
                 PROVE  proofs'[t].source = None /\ ~Grants(proofs', t)
      OBVIOUS
    <3>1. CASE proofs'[t] = proofs[t]
      BY <3>1 DEF RowsWellFormed
    <3>2. ASSUME NEW q \in Requests, ReauthCreate(q)
          PROVE  proofs'[t].source = None /\ ~Grants(proofs', t)
      BY <3>1, <3>2, StoredByReauth
    <3> QED BY <1>4, <3>1, <3>2, WhoWrites
  <2>2. \A t \in Tokens : proofs[t].status # "unused" => proofs'[t].source = proofs[t].source
    BY StepHistory DEF ProofHistory
  <2>3. \A t \in Tokens : proofs[t].status = "unused" => proofs[t].source = None
    BY DEF RowsWellFormed
  <2>4. \A t \in Tokens : Grants(proofs', t) =>
           /\ Backed(proofs', challenges', t) /\ Grants(proofs, t)
           /\ \A u \in Tokens : proofs'[u].source = proofs'[t].source => u = t
    BY <1>2, <2>1, <2>2, <2>3, StepHistory DEF ChallengeGrantsOnce, ProofHistory
  <2> QED BY <2>4 DEF ChallengeGrantsOnce
<1> QED BY <1>3, <1>4
-----------------------------------------------------------------------------
\* A request gets to the verifier by passing the checks of its ceremony.
LEMMA VerifyEntry ==
    ASSUME TypeOK, [Next]_vars, NEW q \in Requests, req'[q].pc = "complete_verify"
    PROVE  /\ req'[q].ceremony = req[q].ceremony
           /\ req'[q].session = req[q].session
           /\ req[q].pc = "complete_verify" \/ CeremonyOk(q)
<1> DEFINE Same == /\ req[q].pc = "complete_verify"
                   /\ req'[q].ceremony = req[q].ceremony
                   /\ req'[q].session = req[q].session
<1>0. req'[q] = req[q] => Same
  OBVIOUS
<1>1. ASSUME NEW r \in Requests, Step(r), r # q PROVE Same
  BY <1>0, <1>1, OthersStandStill
<1>2. ~Finish(q) /\ ~RespondAsIs(q) /\ \A x : ~RespondWith(q, x)
  BY PcAfter
<1>3. CASE CompleteCheck(q)
  BY <1>2, <1>3, PcAfter DEF CompleteCheck
<1>4. \A p : Goto(q, p) => p = "complete_verify"
  BY PcAfter
<1>5. ~Admit(q)
  BY <1>2, <1>4 DEF Admit, AdmittedTo
<1>6. ~(CompleteSave(q) \/ AssertSave(q) \/ BeginRead(q) \/ AssertVerify(q))
  BY MovesOn
<1>7. ~\E s \in Sessions, p \in Views : Arrive(q, s, p)
  BY MovesOn DEF Entry
<1>8. ~(\/ OptionsExists(q) \/ Respond(q) \/ Abort(q) \/ Register(q) \/ BeginRefused(q)
        \/ RevokeDelete(q) \/ AssertConsume(q))
  BY <1>2, <1>4 DEF OptionsExists, Respond, Abort, BeginRefused, Register, RevokeDelete,
     AssertConsume
<1>9. ~(ReauthCreate(q) \/ BeginCeremony(q) \/ OptionsCreate(q) \/ AssertGrant(q))
  BY <1>2 DEF ReauthCreate, BeginCeremony, OptionsCreate, AssertGrant
<1>10. ~Restart
  BY DEF Restart, IdleRequest
<1>11. CASE Tick \/ UNCHANGED vars
  BY <1>0, <1>11 DEF Tick, vars
<1> QED
  BY <1>1, <1>3, <1>5, <1>6, <1>7, <1>8, <1>9, <1>10, <1>11 DEF Next, Step

LEMMA CeremonyHeldStep ==
    ASSUME TypeOK, RowsWellFormed, CeremonyHeld, [Next]_vars
    PROVE  CeremonyHeld'
<1> SUFFICES ASSUME NEW r \in Requests, req'[r].pc = "complete_verify"
             PROVE  /\ req'[r].ceremony # None
                    /\ ceremonies'[req'[r].ceremony].session = req'[r].session
  BY DEF CeremonyHeld, At
<1> DEFINE e == req[r].ceremony
<1>1. /\ req'[r].ceremony = e /\ req'[r].session = req[r].session
      /\ e # None /\ ceremonies[e].session = req[r].session
  BY VerifyEntry DEF CeremonyHeld, CeremonyOk, At
<1>2. req[r].pc # "idle"
  <2>1. CASE \E q \in Requests : Step(q) /\ q # r
    BY <2>1, OthersStandStill
  <2>2. CASE Tick \/ UNCHANGED vars
    BY <2>2 DEF Tick, vars
  <2>3. ~Restart
    BY DEF Restart, IdleRequest
  <2>4. CASE Step(r) /\ req[r].pc = "idle"
    <3>1. ~\E s \in Sessions, p \in Views : Arrive(r, s, p)
      BY MovesOn DEF Entry
    <3> QED BY <2>4, <3>1 DEF Step, Respond, Abort, Admit, AdmittedTo, ReauthCreate, BeginRead,
          BeginCeremony, BeginRefused, CompleteSave, CompleteCheck, Register,
          OptionsExists, OptionsCreate, AssertSave, AssertConsume, AssertVerify,
          AssertGrant, RevokeDelete, At
  <2> QED BY <2>1, <2>2, <2>3, <2>4 DEF Next
<1>3. e \in Ceremonies /\ req[r].session \in Sessions
  BY <1>1, <1>2 DEF TypeOK, Request, Opt
<1>4. e \in Opened
  BY <1>1, <1>3, NoneAssumption DEF RowsWellFormed
<1> QED BY <1>1, <1>4, StepHistory DEF CeremonyHistory

LEMMA EnrolledOnPasswordStep ==
    ASSUME TypeOK, RowsWellFormed, CeremonyHeld, CeremonyPaid, EnrolledOnPassword,
           [Next]_vars
    PROVE  EnrolledOnPassword'
<1>0. ASSUME NEW e \in Opened,
             Paid(proofs, ceremonies[e].pw, "password", ceremonies[e])
      PROVE  e \in Opened' /\ ceremonies'[e] = ceremonies[e]
             /\ Paid(proofs', ceremonies'[e].pw, "password", ceremonies'[e])
  <2>0. ceremonies[e].pw = None \/ ceremonies[e].pw \in Tokens
    BY DEF Opened, TypeOK, Ceremony, Opt
  <2>1. e \in Opened' /\ ceremonies'[e] = ceremonies[e]
    BY StepHistory DEF CeremonyHistory, Opened
  <2> QED BY <1>0, <2>0, <2>1, PaidStays
<1> DEFINE Good(c) == LET e == creds'[c].ceremony  IN
                      /\ e \in Opened'
                      /\ creds'[c].user = SessionUser[ceremonies'[e].session]
                      /\ Paid(proofs', ceremonies'[e].pw, "password", ceremonies'[e])
<1> SUFFICES ASSUME NEW c \in Creds, creds'[c].ceremony # None PROVE Good(c)
  BY DEF EnrolledOnPassword
<1>1. CASE creds'[c].user = creds[c].user /\ creds'[c].ceremony = creds[c].ceremony
  BY <1>0, <1>1 DEF EnrolledOnPassword
<1>2. CASE creds[c].status # "unused" \/ creds' = creds
  BY <1>1, <1>2, StepHistory DEF CredHistory
<1>3. ASSUME NEW r \in Requests, RevokeDelete(r), creds[c].status = "unused"
      PROVE  Good(c)
  <2>1. creds'[c] = creds[c]
    BY <1>3 DEF RevokeDelete, Owns, TypeOK
  <2> QED BY <1>1, <2>1
<1>4. ASSUME NEW r \in Requests, Register(r) PROVE Good(c)
  <2> DEFINE e == req[r].ceremony
  <2>1. e \in Ceremonies /\ ceremonies[e].session = req[r].session
        /\ req[r].session \in Sessions
    BY <1>4 DEF CeremonyHeld, Register, At, TypeOK, Request, Opt
  <2>2. e \in Opened
    BY <2>1, NoneAssumption DEF RowsWellFormed
  <2>3. Paid(proofs, ceremonies[e].pw, "password", ceremonies[e])
    BY <2>2 DEF CeremonyPaid
  <2>4. CASE creds'[c] = creds[c]
    BY <1>1, <2>4
  <2>5. CASE creds'[c] # creds[c]
    <3>1. PICK b \in Creds : creds' = [creds EXCEPT ![b] =
                  [status |-> "live", user |-> UserOf(r), ceremony |-> e]]
      BY <1>4, <2>5 DEF Register
    <3>2. creds'[c].ceremony = e /\ creds'[c].user = UserOf(r)
      BY <2>5, <3>1 DEF TypeOK
    <3> HIDE DEF e
    <3> QED BY <1>0, <2>1, <2>2, <2>3, <3>2 DEF UserOf
  <2> QED BY <2>4, <2>5
<1> QED BY <1>2, <1>3, <1>4, WhoWrites
-----------------------------------------------------------------------------
LEMMA InitIInv == ASSUME Init PROVE IInv
<1>1. TypeOK
  BY InitTypeOK
<1>2. Opened = {}
  BY DEF Init, Opened
<1>3. RowsWellFormed
  BY <1>2 DEF Init, RowsWellFormed
<1>4. \A r \in Requests : req[r].pc = "idle"
  BY DEF Init, IdleRequest
<1>5. ChallengeHeldOnce /\ CeremonyHeld
  BY <1>4 DEF ChallengeHeldOnce, CeremonyHeld, AssertPC, At
<1>6. CeremonyPaid /\ ProofPaysOnce
  BY <1>2 DEF CeremonyPaid, ProofPaysOnce
<1>7. ChallengeGrantsOnce
  BY DEF Init, ChallengeGrantsOnce
<1>8. EnrolledOnPassword
  BY DEF Init, EnrolledOnPassword, InitialCredential
<1> QED BY <1>1, <1>3, <1>5, <1>6, <1>7, <1>8 DEF IInv

(***************************************************************************)
(* The inductive invariant: what the rows and program counters say of each *)
(* other, together with the four properties that follow from it.           *)
(***************************************************************************)
THEOREM Inductive == Spec => []IInv
<1>1. Init => IInv
  BY InitIInv
<1>2. IInv /\ [Next]_vars => IInv'
  <2> SUFFICES ASSUME IInv, [Next]_vars PROVE IInv'
    OBVIOUS
  <2>1. TypeOK'
    BY NextTypeOK DEF IInv
  <2>2. RowsWellFormed' /\ CeremonyPaid' /\ ProofPaysOnce'
    BY RowsWellFormedStep, CeremonyPaidStep, ProofPaysOnceStep DEF IInv
  <2>3. ChallengeHeldOnce' /\ ChallengeGrantsOnce'
    BY ChallengeHeldOnceStep, ChallengeGrantsOnceStep DEF IInv
  <2>4. CeremonyHeld' /\ EnrolledOnPassword'
    BY CeremonyHeldStep, EnrolledOnPasswordStep DEF IInv
  <2> QED BY <2>1, <2>2, <2>3, <2>4 DEF IInv
<1> QED BY <1>1, <1>2, PTL DEF Spec

(***************************************************************************)
(* No ceremony starts without the proofs it needs, however requests of a   *)
(* session interleave and overwrite its row.                               *)
(***************************************************************************)
THEOREM CeremoniesArePaid == Spec => []CeremonyPaid
<1>1. IInv => CeremonyPaid
  BY DEF IInv
<1> QED BY <1>1, Inductive, PTL

(***************************************************************************)
(* A password check or passkey assertion pays for one ceremony at most.    *)
(***************************************************************************)
THEOREM ProofsPayOnce == Spec => []ProofPaysOnce
<1>1. IInv => ProofPaysOnce
  BY DEF IInv
<1> QED BY <1>1, Inductive, PTL

(***************************************************************************)
(* A step-up challenge is consumed before it grants, and grants once.      *)
(***************************************************************************)
THEOREM ChallengesGrantOnce == Spec => []ChallengeGrantsOnce
<1>1. IInv => ChallengeGrantsOnce
  BY DEF IInv
<1> QED BY <1>1, Inductive, PTL

(***************************************************************************)
(* Each passkey was enrolled by a ceremony of its own user, in a session   *)
(* that spent a fresh password proof on it, however requests interleave.   *)
(***************************************************************************)
THEOREM PasskeysEnrolledOnPassword == Spec => []EnrolledOnPassword
<1>1. IInv => EnrolledOnPassword
  BY DEF IInv
<1> QED BY <1>1, Inductive, PTL
-----------------------------------------------------------------------------
(***************************************************************************)
(* The sweep deletes open rows only when they are older than the window,   *)
(* which is at least as long as the times to live (_maybe_cleanup_...).    *)
(***************************************************************************)
THEOREM SweepSparesWhatIsUsable == Spec => SweepSparesUsable
<1> DEFINE Spares ==
       \A t \in Tokens :
         /\ proofs[t].status = "open" /\ proofs'[t].status = "deleted"
               => ~WithinTtl(proofs[t].at, REAUTH_TTL_SECONDS)
         /\ challenges[t].status = "open" /\ challenges'[t].status = "deleted"
               => ~WithinTtl(challenges[t].at, PASSKEY_CHALLENGE_TTL_SECONDS)
<1>1. ASSUME TypeOK, [Next]_vars PROVE Spares
  <2> SUFFICES ASSUME NEW t \in Tokens PROVE
         /\ proofs[t].status = "open" /\ proofs'[t].status = "deleted"
               => ~WithinTtl(proofs[t].at, REAUTH_TTL_SECONDS)
         /\ challenges[t].status = "open" /\ challenges'[t].status = "deleted"
               => ~WithinTtl(challenges[t].at, PASSKEY_CHALLENGE_TTL_SECONDS)
    OBVIOUS
  <2>0. /\ proofs[t].at \in Int /\ challenges[t].at \in Int /\ clock \in Int
        /\ REAUTH_TTL_SECONDS <= WINDOW /\ PASSKEY_CHALLENGE_TTL_SECONDS <= WINDOW
        /\ {REAUTH_TTL_SECONDS, PASSKEY_CHALLENGE_TTL_SECONDS, WINDOW} \subseteq Int
    BY <1>1, TimeAssumption DEF TypeOK, Proof, Challenge, Time
  <2>1. ASSUME NEW stamp \in Int, Expired(stamp)
        PROVE  /\ ~WithinTtl(stamp, REAUTH_TTL_SECONDS)
               /\ ~WithinTtl(stamp, PASSKEY_CHALLENGE_TTL_SECONDS)
    BY <2>0, <2>1 DEF Expired, WithinTtl
  <2>2. CASE MaybeCleanup
    <3>1. /\ proofs'[t].status = proofs[t].status \/ Expired(proofs[t].at)
          /\ challenges'[t].status = challenges[t].status \/ Expired(challenges[t].at)
      BY <2>2 DEF MaybeCleanup, Swept
    <3> QED BY <2>0, <2>1, <3>1
  <2>3. ASSUME NEW r \in Requests, Step(r), ~Admit(r)
        PROVE  /\ proofs[t].status = "open" => proofs'[t].status # "deleted"
               /\ challenges[t].status = "open" => challenges'[t].status # "deleted"
    <3>1. CASE UNCHANGED <<proofs, challenges>>
      BY <3>1
    <3>2. CASE ReauthCreate(r)
      <4>1. challenges' = challenges /\ (proofs[t].status = "open" => proofs'[t] = proofs[t])
        BY <1>1, <3>2 DEF ReauthCreate, TypeOK
      <4> QED BY <4>1
    <3>3. CASE AssertGrant(r)
      <4>1. challenges' = challenges /\ (proofs[t].status = "open" => proofs'[t] = proofs[t])
        BY <1>1, <3>3 DEF AssertGrant, TypeOK
      <4> QED BY <4>1
    <3>4. CASE OptionsCreate(r)
      <4>1. proofs' = proofs
        BY <3>4 DEF OptionsCreate
      <4>2. challenges[t].status = "open" => challenges'[t] = challenges[t]
        BY <1>1, <3>4 DEF OptionsCreate, TypeOK
      <4> QED BY <4>1, <4>2
    <3>5. CASE BeginCeremony(r)
      <4>1. challenges' = challenges /\ proofs' = Consume(proofs, Spent(r))
        BY <3>5 DEF BeginCeremony
      <4> QED BY <1>1, <4>1 DEF Consume, TypeOK, Proof
    <3>6. CASE AssertConsume(r)
      <4>1. proofs' = proofs /\ (challenges' = challenges
                \/ challenges' = Consume(challenges, {req[r].token}))
        BY <3>6 DEF AssertConsume
      <4> QED BY <1>1, <4>1 DEF Consume, TypeOK, Challenge
    <3> QED BY <2>3, <3>1, <3>2, <3>3, <3>4, <3>5, <3>6 DEF Step, Arrive, Respond, Abort,
          BeginRead, BeginRefused, CompleteSave, CompleteCheck, Register,
          OptionsExists, AssertSave, AssertVerify, RevokeDelete
  <2>4. CASE Tick \/ Restart \/ UNCHANGED vars
    BY <2>4 DEF Tick, Restart, vars
  <2> QED BY <1>1, <2>2, <2>3, <2>4 DEF Next, Admit
<1>2. TypeOK /\ [Next]_vars => [Spares]_vars
  BY <1>1
<1> QED BY <1>2, TypeCorrect, PTL DEF Spec, SweepSparesUsable

(***************************************************************************)
(* A ceremony that names a step-up passkey starts while the user owns it.  *)
(***************************************************************************)
THEOREM RevokedPasskeysCannotVouch == Spec => RevokedCannotVouch
<1> DEFINE Vouched == \A e \in Ceremonies :
              ceremonies[e].status = "unused" /\ ceremonies'[e].cred # None
                => Owns(SessionUser[ceremonies'[e].session], ceremonies'[e].cred)
<1>1. ASSUME IInv, [Next]_vars PROVE Vouched
  <2> SUFFICES ASSUME NEW e \in Ceremonies, ceremonies[e].status = "unused",
                      ceremonies'[e].cred # None
               PROVE  Owns(SessionUser[ceremonies'[e].session], ceremonies'[e].cred)
    OBVIOUS
  <2>0. TypeOK
    BY <1>1 DEF IInv
  <2>1. CASE ceremonies' = ceremonies
    BY <1>1, <2>1 DEF IInv, RowsWellFormed, Opened
  <2>2. ASSUME NEW r \in Requests, BeginCeremony(r)
        PROVE  Owns(SessionUser[ceremonies'[e].session], ceremonies'[e].cred)
    <3>1. RowsWellFormed'
      BY <1>1, RowsWellFormedStep DEF IInv
    <3>2. e \in Opened' /\ e \notin Opened
      BY <3>1 DEF RowsWellFormed, Opened
    <3>3. LET x == ceremonies'[e]  IN
          /\ x.session = req[r].session
          /\ x.pk = IF req[r].require THEN req[r].data.grant ELSE None
          /\ x.cred = IF x.pk = None THEN None ELSE proofs[x.pk].cred
      BY <2>0, <2>2, <3>2, NewCeremony
    <3>4. ProofsOk(r)
      BY <2>2 DEF BeginCeremony
    <3> QED BY <3>3, <3>4 DEF ProofsOk, UserOf
  <2> QED BY <2>0, <1>1, <2>1, <2>2, WhoWrites
<1>2. IInv /\ [Next]_vars => [Vouched]_vars
  BY <1>1
<1> QED BY <1>2, Inductive, PTL DEF Spec, RevokedCannotVouch
-----------------------------------------------------------------------------
\* What a step does to the abstract state of the proof table.
LEMMA LedgerStep ==
    ASSUME TypeOK, [Next]_vars
    PROVE  [Ledger!Next]_(Ledger!pvars)
<1>0. SUFFICES ASSUME <<Drawn, Valid, SpentOn>>' # <<Drawn, Valid, SpentOn>>
               PROVE  Ledger!Next
  BY DEF Ledger!pvars
<1>1. (UNCHANGED <<proofs, ceremonies>>) => FALSE
  BY <1>0 DEF Drawn, Valid, SpentOn
<1>2. ASSUME NEW t \in Tokens, NEW row, row.status = "open",
             proofs[t].status = "unused",
             proofs' = [proofs EXCEPT ![t] = row], ceremonies' = ceremonies
      PROVE  Ledger!Issue(t)
  <2>1. /\ proofs'[t].status = "open"
        /\ \A u \in Tokens : u # t => proofs'[u] = proofs[u]
    BY <1>2 DEF TypeOK
  <2>2. t \notin Drawn /\ Drawn' = Drawn \cup {t} /\ Valid' = Valid \cup {t}
    BY <1>2, <2>1 DEF Drawn, Valid
  <2>3. SpentOn' = SpentOn
    BY <1>2 DEF SpentOn
  <2> QED BY <2>2, <2>3 DEF Ledger!Issue
<1>3. CASE MaybeCleanup /\ ceremonies' = ceremonies
  <2>1. proofs' = Swept(proofs)
    BY <1>1, <1>3 DEF MaybeCleanup
  <2>2. \A t \in Tokens : \/ proofs'[t] = proofs[t]
                          \/ /\ proofs[t].status \in {"open", "consumed"}
                             /\ proofs'[t].status = "deleted"
    BY <2>1 DEF Swept, TypeOK, Proof
  <2>3. Drawn' = Drawn /\ Valid' \subseteq Valid
    BY <2>2 DEF Drawn, Valid
  <2>4. SpentOn' = SpentOn
    BY <1>3 DEF SpentOn
  <2> DEFINE T == Valid \ Valid'
  <2>5. T \in SUBSET Tokens /\ T # {} /\ T \subseteq Valid /\ Valid' = Valid \ T
    BY <1>0, <2>3, <2>4 DEF Valid
  <2>6. Ledger!Lapse(T)
    BY <2>3, <2>4, <2>5 DEF Ledger!Lapse
  <2> QED BY <2>5, <2>6 DEF Ledger!Next
<1>4. ASSUME NEW r \in Requests, ReauthCreate(r) PROVE Ledger!Next
  <2>1. ceremonies' = ceremonies /\ proofs' # proofs
    BY <1>1, <1>4 DEF ReauthCreate
  <2>2. PICK t \in Tokens :
          /\ proofs[t].status = "unused"
          /\ proofs' = [proofs EXCEPT ![t] =
               [status |-> "open", kind |-> "password", session |-> req[r].session,
                cred |-> None, at |-> clock, source |-> None]]
    BY <1>4, <2>1 DEF ReauthCreate
  <2>3. Ledger!Issue(t)
    BY <1>2, <2>1, <2>2
  <2> QED BY <2>3 DEF Ledger!Next
<1>5. ASSUME NEW r \in Requests, AssertGrant(r) PROVE Ledger!Next
  <2>1. ceremonies' = ceremonies /\ proofs' # proofs
    BY <1>1, <1>5 DEF AssertGrant
  <2>2. PICK t \in Tokens :
          /\ proofs[t].status = "unused"
          /\ proofs' = [proofs EXCEPT ![t] =
               [status |-> "open", kind |-> "passkey", session |-> req[r].session,
                cred |-> req[r].cred, at |-> clock, source |-> req[r].token]]
    BY <1>5, <2>1 DEF AssertGrant
  <2>3. Ledger!Issue(t)
    BY <1>2, <2>1, <2>2
  <2> QED BY <2>3 DEF Ledger!Next
<1>6. ASSUME NEW r \in Requests, BeginCeremony(r) PROVE Ledger!Next
  <2> DEFINE T == Spent(r)
  <2>1. T # {} /\ \A t \in T : t \in Tokens /\ proofs[t].status = "open"
    <3>1. \A t \in T : t # None /\ proofs[t].status = "open"
      BY <1>6 DEF BeginCeremony, ProofsOk, UsableProof, Spent
    <3>2. req[r].data.reauth \in Opt(Tokens) /\ req[r].data.grant \in Opt(Tokens)
      BY DEF TypeOK, Request, SessionData
    <3> QED BY <3>1, <3>2 DEF Spent, Opt
  <2>2. PICK e \in Ceremonies :
          /\ ceremonies[e].status = "unused"
          /\ \A f \in Ceremonies : f # e => ceremonies'[f] = ceremonies[f]
          /\ ceremonies'[e].status = "open"
    BY <1>6 DEF BeginCeremony, TypeOK
  <2>3. {ceremonies'[e].pw, ceremonies'[e].pk} \ {None} = T
    <3>1. e \in Opened' /\ e \notin Opened
      BY <2>2 DEF Opened
    <3>2. /\ ceremonies'[e].pw = req[r].data.reauth
          /\ ceremonies'[e].pk = IF req[r].require THEN req[r].data.grant ELSE None
      BY <1>6, <3>1, NewCeremony
    <3> QED BY <2>1, <3>2, NoneAssumption DEF Spent
  <2>4. SpentOn' = [SpentOn EXCEPT ![e] = T]
    <3>1. SpentOn'[e] = T
      BY <2>2, <2>3 DEF SpentOn
    <3>2. \A f \in Ceremonies : f # e => SpentOn'[f] = SpentOn[f]
      BY <2>2 DEF SpentOn
    <3> QED BY <2>2, <3>1, <3>2 DEF SpentOn
  <2>5. SpentOn[e] = {}
    BY <2>2 DEF SpentOn
  <2>6. proofs' = Consume(proofs, T)
    BY <1>6 DEF BeginCeremony
  <2>7. \A t \in Tokens : proofs'[t] = IF t \in T THEN [proofs[t] EXCEPT !.status = "consumed"]
                                       ELSE proofs[t]
    BY <2>6 DEF Consume
  <2>8. \A t \in T : proofs'[t].status = "consumed"
    BY <2>1, <2>7 DEF TypeOK, Proof
  <2> HIDE DEF T
  <2>9. Drawn' = Drawn /\ Valid' = Valid \ T /\ T \subseteq Valid
    BY <2>1, <2>7, <2>8 DEF Drawn, Valid
  <2>10. Ledger!Spend(e, T)
    BY <2>1, <2>4, <2>5, <2>9 DEF Ledger!Spend
  <2> QED BY <2>1, <2>10 DEF Ledger!Next
<1>7. ASSUME NEW r \in Requests, Step(r), ~Admit(r), ~ReauthCreate(r),
             ~AssertGrant(r), ~BeginCeremony(r)
      PROVE  UNCHANGED <<proofs, ceremonies>>
  BY <1>7 DEF Step, Arrive, Respond, Abort, BeginRead, BeginRefused, CompleteSave,
     CompleteCheck, Register, OptionsExists, OptionsCreate, AssertSave, AssertConsume,
     AssertVerify, RevokeDelete
<1>8. CASE Tick \/ Restart \/ UNCHANGED vars
  BY <1>1, <1>8 DEF Tick, Restart, vars
<1> QED BY <1>1, <1>3, <1>4, <1>5, <1>6, <1>7, <1>8 DEF Next, Admit

(***************************************************************************)
(* The tables, sessions and requests together implement one-use proofs.    *)
(***************************************************************************)
THEOREM Implementation == Spec => ImplementsOneUseProofs
<1>1. Init => Ledger!Init
  <2> SUFFICES ASSUME Init PROVE Ledger!Init
    OBVIOUS
  <2>1. Drawn = {} /\ Valid = {}
    BY DEF Init, Drawn, Valid
  <2>2. SpentOn = [e \in Ceremonies |-> {}]
    BY DEF Init, SpentOn
  <2> QED BY <2>1, <2>2 DEF Ledger!Init
<1>2. TypeOK /\ [Next]_vars => [Ledger!Next]_(Ledger!pvars)
  BY LedgerStep
<1> QED BY <1>1, <1>2, TypeCorrect, PTL DEF Spec, ImplementsOneUseProofs, Ledger!Spec
-----------------------------------------------------------------------------
(***************************************************************************)
(* A registration state is kept in the session until a request completes   *)
(* it.  No two requests of one session at a time is what the code relies   *)
(* on to hand it to the verifier once.                                     *)
(***************************************************************************)
SessionsApart ==
    \A r, q \in Requests :
        r # q /\ ~At(r, "idle") /\ ~At(q, "idle") => req[r].session # req[q].session

\* A state of session s that no passkey was enrolled with.
Fresh(e, s) ==
    /\ e \in Opened /\ ceremonies[e].session = s
    /\ \A c \in Creds : creds[c].ceremony # e

CompletePC == {"complete_check", "complete_verify"}
StoredFresh == \A s \in Sessions :
    store[s].registration # None => Fresh(store[s].registration, s)
CopiesFresh == \A r \in Requests :
    ~At(r, "idle") /\ req[r].data.registration # None =>
        Fresh(req[r].data.registration, req[r].session)
PoppedFresh == \A r \in Requests : req[r].pc \in CompletePC =>
    /\ req[r].data.registration = None
    /\ store[req[r].session].registration = None
    /\ req[r].ceremony # None => Fresh(req[r].ceremony, req[r].session)

StatesFresh == StoredFresh /\ CopiesFresh /\ PoppedFresh

\* A step of a request leaves its session, and draws no old state.
LEMMA RegistrationAfter ==
    ASSUME TypeOK, NEW r \in Requests, Step(r), ~At(r, "idle"), req'[r].pc # "idle"
    PROVE  /\ req'[r].session = req[r].session
           /\ \/ req'[r].data.registration \in {None, req[r].data.registration}
              \/ BeginCeremony(r) /\ req'[r].data.registration \in Opened' \ Opened
<1> DEFINE d == req[r].data
           Kept == /\ req'[r].session = req[r].session
                   /\ req'[r].data.registration \in {None, d.registration}
<1>0. req[r] \in Request /\ d \in SessionData
  BY DEF TypeOK, Request
<1>1. ASSUME NEW x \in SessionData, RespondWith(r, x)
      PROVE  req'[r].session = req[r].session /\ req'[r].data = x
  BY <1>1 DEF RespondWith, TypeOK, IdleRequest
<1>2. ~Finish(r)
  BY PcAfter
<1>3. ASSUME RespondAsIs(r) PROVE Kept
  BY <1>0, <1>1, <1>2, <1>3 DEF RespondAsIs
<1>4. ASSUME NEW p, Goto(r, p) PROVE Kept
  <2>1. req'[r] = [req[r] EXCEPT !.pc = p]
    BY <1>4 DEF Goto, TypeOK
  <2> QED BY <1>0, <2>1 DEF Request
<1>5. CASE Admit(r) \/ CompleteCheck(r) \/ Register(r) \/ OptionsExists(r) \/ AssertConsume(r)
  BY <1>2, <1>3, <1>4, <1>5 DEF Admit, CompleteCheck, Register, OptionsExists, AssertConsume
<1>6. ~(\E s \in Sessions, p \in Views : Arrive(r, s, p))
  BY DEF Arrive
<1>7. CASE Respond(r) \/ Abort(r) \/ RevokeDelete(r)
  BY <1>2, <1>7 DEF Respond, Abort, RevokeDelete
<1>8. CASE ReauthCreate(r)
  <2>1. \A t \in Tokens : [d EXCEPT !.reauth = t] \in SessionData
                           /\ [d EXCEPT !.reauth = t].registration = d.registration
    BY <1>0 DEF SessionData, Opt
  <2>2. PICK t \in Tokens : RespondWith(r, [d EXCEPT !.reauth = t])
    BY <1>2, <1>8 DEF ReauthCreate
  <2> QED BY <1>1, <2>1, <2>2
<1>9. CASE BeginRead(r)
  <2>1. ASSUME NEW x, req' = [req EXCEPT ![r].pc = "begin_consume", ![r].require = x]
        PROVE  Kept
    <3>1. req'[r] = [req[r] EXCEPT !.pc = "begin_consume", !.require = x]
      BY <2>1 DEF TypeOK
    <3> QED BY <1>0, <3>1 DEF Request
  <2> QED BY <1>2, <1>9, <2>1 DEF BeginRead
<1>10. CASE BeginCeremony(r)
  <2> DEFINE pk == IF req[r].require THEN d.grant ELSE None
             x == [status |-> "open", session |-> req[r].session, pw |-> d.reauth,
                   pk |-> pk, cred |-> IF pk = None THEN None ELSE proofs[pk].cred,
                   started_at |-> clock]
  <2>0. PICK e \in Ceremonies :
          /\ ceremonies[e].status = "unused"
          /\ ceremonies' = [ceremonies EXCEPT ![e] = x]
          /\ RespondWith(r, [d EXCEPT !.reauth = None, !.grant = None, !.registration = e])
    BY <1>10 DEF BeginCeremony
  <2>1. ceremonies[e].status = "unused" /\ ceremonies'[e].status = "open"
    <3>1. x.status = "open"
      OBVIOUS
    <3> HIDE DEF x
    <3> QED BY <2>0, <3>1 DEF TypeOK
  <2>2. [d EXCEPT !.reauth = None, !.grant = None, !.registration = e] \in SessionData
        /\ [d EXCEPT !.reauth = None, !.grant = None, !.registration = e].registration = e
    BY <1>0 DEF SessionData, Opt
  <2>3. e \in Opened' \ Opened
    BY <2>1 DEF Opened
  <2> QED BY <1>1, <1>10, <2>0, <2>2, <2>3
<1>11. CASE BeginRefused(r)
  <2> DEFINE g == IF req[r].require THEN None ELSE d.grant
             x == [d EXCEPT !.reauth = None, !.grant = g]
  <2>1. x \in SessionData /\ x.registration = d.registration
    <3>1. g \in Opt(Tokens)
      BY <1>0 DEF SessionData, Opt
    <3> HIDE DEF g
    <3> QED BY <1>0, <3>1 DEF SessionData, Opt
  <2>2. RespondWith(r, x)
    BY <1>11 DEF BeginRefused
  <2> HIDE DEF x
  <2> QED BY <1>1, <2>1, <2>2
<1>12. CASE CompleteSave(r)
  <2> DEFINE e == [d EXCEPT !.registration = None]
             m == e # d
  <2>1. e.registration = None
    BY <1>0 DEF SessionData
  <2>2. req' = [req EXCEPT ![r].pc = "complete_check", ![r].data = e,
                           ![r].modified = m, ![r].ceremony = d.registration]
    BY <1>12 DEF CompleteSave
  <2> HIDE DEF e, m
  <2>3. req'[r] = [req[r] EXCEPT !.pc = "complete_check", !.data = e,
                                 !.modified = m, !.ceremony = d.registration]
    BY <2>2 DEF TypeOK
  <2> QED BY <1>0, <2>1, <2>3 DEF Request
<1>13. CASE OptionsCreate(r)
  <2> DEFINE e == [d EXCEPT !.stepup = None, !.grant = None]
  <2>1. /\ e \in SessionData /\ e.registration = d.registration
        /\ \A t \in Tokens : [e EXCEPT !.stepup = t] \in SessionData
                              /\ [e EXCEPT !.stepup = t].registration = d.registration
    BY <1>0 DEF SessionData, Opt
  <2>2. RespondWith(r, e) \/ \E t \in Tokens : RespondWith(r, [e EXCEPT !.stepup = t])
    BY <1>2, <1>13 DEF OptionsCreate
  <2> HIDE DEF e
  <2> QED BY <1>1, <2>1, <2>2
<1>14. CASE AssertSave(r)
  <2> DEFINE e == [d EXCEPT !.stepup = None, !.grant = None]
             m == e # d
  <2>1. e.registration = d.registration
    BY <1>0 DEF SessionData
  <2>2. req' = [req EXCEPT ![r].pc = "assert_consume", ![r].data = e,
                           ![r].modified = m, ![r].token = d.stepup]
    BY <1>14 DEF AssertSave
  <2> HIDE DEF e, m
  <2>3. req'[r] = [req[r] EXCEPT !.pc = "assert_consume", !.data = e,
                                 !.modified = m, !.token = d.stepup]
    BY <2>2 DEF TypeOK
  <2> QED BY <1>0, <2>1, <2>3 DEF Request
<1>15. CASE AssertVerify(r)
  <2>1. ASSUME NEW c, req' = [req EXCEPT ![r].pc = "assert_grant", ![r].cred = c]
        PROVE  Kept
    <3>1. req'[r] = [req[r] EXCEPT !.pc = "assert_grant", !.cred = c]
      BY <2>1 DEF TypeOK
    <3> QED BY <1>0, <3>1 DEF Request
  <2> QED BY <1>3, <1>15, <2>1 DEF AssertVerify
<1>16. CASE AssertGrant(r)
  <2>1. \A t \in Tokens : [d EXCEPT !.grant = t] \in SessionData
                           /\ [d EXCEPT !.grant = t].registration = d.registration
    BY <1>0 DEF SessionData, Opt
  <2>2. RespondAsIs(r) \/ \E t \in Tokens : RespondWith(r, [d EXCEPT !.grant = t])
    BY <1>16 DEF AssertGrant
  <2> QED BY <1>1, <1>3, <2>1, <2>2
<1> QED BY <1>5, <1>6, <1>7, <1>8, <1>9, <1>10, <1>11, <1>12, <1>13, <1>14, <1>15, <1>16
        DEF Step

\* A request completes once its state is popped, and keeps to that state.
LEMMA CompleteEntry ==
    ASSUME TypeOK, NEW r \in Requests, Step(r), req'[r].pc \in CompletePC
    PROVE  \/ /\ CompleteSave(r) /\ req'[r].ceremony = req[r].data.registration
              /\ req'[r].data.registration = None
           \/ /\ req[r].pc \in CompletePC /\ CompleteCheck(r)
              /\ req'[r].ceremony = req[r].ceremony
<1>0. req[r] \in Request
  BY DEF TypeOK
<1>1. ~Finish(r) /\ ~RespondAsIs(r) /\ \A x : ~RespondWith(r, x)
  BY PcAfter DEF CompletePC
<1>2. \A p : Goto(r, p) => p \in CompletePC
  BY PcAfter
<1>3. ~Admit(r)
  BY <1>1, <1>2 DEF Admit, AdmittedTo, CompletePC
<1>4. ~(AssertSave(r) \/ BeginRead(r) \/ AssertVerify(r))
  BY MovesOn DEF CompletePC
<1>5. ~\E s \in Sessions, p \in Views : Arrive(r, s, p)
  BY MovesOn DEF Entry, CompletePC
<1>6. ~(\/ OptionsExists(r) \/ Respond(r) \/ Abort(r) \/ Register(r) \/ BeginRefused(r)
        \/ RevokeDelete(r) \/ AssertConsume(r))
  BY <1>1, <1>2 DEF OptionsExists, Respond, Abort, BeginRefused, Register, RevokeDelete,
     AssertConsume, CompletePC
<1>7. ~(ReauthCreate(r) \/ BeginCeremony(r) \/ OptionsCreate(r) \/ AssertGrant(r))
  BY <1>1 DEF ReauthCreate, BeginCeremony, OptionsCreate, AssertGrant
<1>8. CASE CompleteCheck(r)
  BY <1>1, <1>8, PcAfter DEF CompleteCheck, At, CompletePC
<1>9. CASE CompleteSave(r)
  <2> DEFINE d == [req[r].data EXCEPT !.registration = None]
             m == d # req[r].data
  <2>1. req' = [req EXCEPT ![r].pc = "complete_check", ![r].data = d,
                           ![r].modified = m,
                           ![r].ceremony = req[r].data.registration]
    BY <1>9 DEF CompleteSave
  <2>3. d.registration = None
    BY <1>0 DEF Request, SessionData
  <2> HIDE DEF d, m
  <2>2. req'[r] = [req[r] EXCEPT !.pc = "complete_check", !.data = d,
                                 !.modified = m,
                                 !.ceremony = req[r].data.registration]
    BY <2>1 DEF TypeOK
  <2> QED BY <1>0, <1>9, <2>2, <2>3 DEF Request
<1> QED BY <1>3, <1>4, <1>5, <1>6, <1>7, <1>8, <1>9 DEF Step

\* What a request writes over its session row.
LEMMA StoreAfter ==
    ASSUME TypeOK, NEW r \in Requests, Step(r)
    PROVE  /\ \A s \in Sessions : store'[s] # store[s] =>
                 /\ s = req[r].session /\ ~At(r, "idle")
                 /\ store'[s].registration \in {None, req[r].data.registration}
           /\ CompleteSave(r) => store'[req[r].session].registration = None
<1>0. req[r] \in Request /\ req[r].data \in SessionData
  BY DEF TypeOK, Request
<1>1. CASE Respond(r)
  BY <1>0, <1>1, PcAfter DEF Respond, TypeOK, At, CompleteSave
<1>2. CASE CompleteSave(r)
  <2> DEFINE d == [req[r].data EXCEPT !.registration = None]
  <2>1. d.registration = None
    BY <1>0 DEF SessionData
  <2>2. store' = [store EXCEPT ![req[r].session] = d] /\ req[r].pc = "complete_save"
    BY <1>2 DEF CompleteSave, At
  <2> HIDE DEF d
  <2> QED BY <2>1, <2>2 DEF TypeOK, At
<1>3. CASE AssertSave(r)
  <2> DEFINE d == [req[r].data EXCEPT !.stepup = None, !.grant = None]
  <2>1. d.registration = req[r].data.registration
    BY <1>0 DEF SessionData
  <2>2. store' = [store EXCEPT ![req[r].session] = d] /\ req[r].pc = "assert_save"
    BY <1>3 DEF AssertSave, At
  <2> HIDE DEF d
  <2> QED BY <2>1, <2>2 DEF TypeOK, At, CompleteSave
<1>4. CASE ~(Respond(r) \/ CompleteSave(r) \/ AssertSave(r))
  BY <1>4 DEF Step, Arrive, Abort, Admit, ReauthCreate, BeginRead, BeginCeremony,
     BeginRefused, CompleteCheck, Register, OptionsExists, OptionsCreate, AssertConsume,
     AssertVerify, AssertGrant, RevokeDelete
<1> QED BY <1>1, <1>2, <1>3, <1>4

\* A fresh state is so until a request registers a passkey with it.
LEMMA FreshStays ==
    ASSUME TypeOK, [Next]_vars, NEW e, NEW s, Fresh(e, s),
           \A r \in Requests : Register(r) => req[r].ceremony # e
    PROVE  Fresh(e, s)'
<1>1. e \in Opened' /\ ceremonies'[e].session = s
  BY StepHistory DEF Fresh, CeremonyHistory, Opened
<1>2. ASSUME NEW c \in Creds PROVE creds'[c].ceremony # e
  <2>1. CASE creds' = creds
    BY <2>1 DEF Fresh
  <2>2. CASE \E r \in Requests : RevokeDelete(r)
    BY <2>2 DEF Fresh, RevokeDelete, TypeOK, Credential
  <2>3. ASSUME NEW r \in Requests, Register(r) PROVE creds'[c].ceremony # e
    <3>1. req[r].ceremony # e
      BY <2>3
    <3>2. CASE creds' = creds
      BY <3>2 DEF Fresh
    <3>3. CASE creds' # creds
      <4>1. PICK b \in Creds : creds' = [creds EXCEPT ![b] =
                [status |-> "live", user |-> UserOf(r), ceremony |-> req[r].ceremony]]
        BY <2>3, <3>3 DEF Register
      <4> QED BY <3>1, <4>1 DEF Fresh, TypeOK
    <3> QED BY <3>2, <3>3
  <2> QED BY <2>1, <2>2, <2>3, WhoWrites
<1> QED BY <1>1, <1>2 DEF Fresh

\* A state just begun is fresh: no passkey has a ceremony that was not open.
LEMMA BegunFresh ==
    ASSUME IInv, NEW r \in Requests, BeginCeremony(r), NEW e \in Opened', e \notin Opened
    PROVE  Fresh(e, req[r].session)'  /\ req'[r].session = req[r].session
<1>1. TypeOK
  BY DEF IInv
<1>2. ceremonies'[e].session = req[r].session
  BY <1>1, NewCeremony
<1>3. \A c \in Creds : creds'[c].ceremony # e
  <2>1. e # None
    BY NoneAssumption DEF Opened
  <2>2. creds' = creds
    BY DEF BeginCeremony
  <2> QED BY <2>1, <2>2 DEF IInv, EnrolledOnPassword
<1>4. req'[r].session = req[r].session
  BY <1>1 DEF BeginCeremony, RespondWith, TypeOK, IdleRequest
<1> QED BY <1>2, <1>3, <1>4 DEF Fresh

LEMMA StepStatesFresh ==
    ASSUME IInv, SessionsApart, StatesFresh, NEW r \in Requests, Step(r)
    PROVE  StatesFresh'
<1> USE DEF StatesFresh
<1>0. TypeOK /\ TypeOK'
  BY StepTypeOK DEF IInv
<1>1. [Next]_vars
  BY DEF Next
<1>2. \A q \in Requests : q # r => req'[q] = req[q]
  BY <1>0, OthersStandStill
<1>3. ASSUME NEW q \in Requests, Register(q) PROVE q = r
  <2>1. req[q].pc = "complete_verify" /\ req'[q].pc # "complete_verify"
    BY <1>0, <1>3, PcAfter DEF Register, At
  <2> QED BY <1>2, <2>1
<1>4. Register(r) => /\ store' = store
                     /\ req[r].pc = "complete_verify" /\ req[r].data.registration = None
                     /\ store[req[r].session].registration = None
                     /\ Fresh(req[r].ceremony, req[r].session)
  BY DEF Register, At, PoppedFresh, CompletePC, IInv, CeremonyHeld
<1>5. ASSUME NEW e, NEW s, Fresh(e, s), Register(r) => req[r].ceremony # e
      PROVE  Fresh(e, s)'
  BY <1>0, <1>1, <1>3, <1>5, FreshStays
<1>6. \A e, s, t : Fresh(e, s) /\ Fresh(e, t) => s = t
  BY DEF Fresh
<1>7. ASSUME NEW s \in Sessions, store'[s].registration # None
      PROVE  Fresh(store[s].registration, s)'
  <2>1. PICK e : e = store'[s].registration
    OBVIOUS
  <2>2. CASE store'[s] = store[s]
    <3>1. Fresh(e, s)
      BY <1>7, <2>1, <2>2 DEF StoredFresh
    <3>2. Register(r) => req[r].ceremony # e
      BY <1>4, <1>6, <1>7, <2>1, <2>2, <3>1
    <3>3. Fresh(e, s)'
      BY <1>5, <3>1, <3>2
    <3> QED BY <2>1, <3>3 DEF Fresh
  <2>3. CASE store'[s] # store[s]
    <3>1. s = req[r].session /\ ~At(r, "idle") /\ e = req[r].data.registration
      BY <1>0, <1>7, <2>1, <2>3, StoreAfter
    <3>2. Fresh(e, s)
      BY <1>7, <2>1, <3>1 DEF CopiesFresh
    <3>3. Fresh(e, s)'
      BY <1>4, <1>5, <2>3, <3>2
    <3> QED BY <2>1, <3>3 DEF Fresh
  <2> QED BY <2>2, <2>3
<1>8. ASSUME NEW q \in Requests, req'[q].pc # "idle", req'[q].data.registration # None
      PROVE  Fresh(req[q].data.registration, req[q].session)'
  <2>1. PICK e, s : e = req'[q].data.registration /\ s = req'[q].session
    OBVIOUS
  <2>2. CASE q # r
    <3>1. req'[q] = req[q]
      BY <1>2, <2>2
    <3>2. Fresh(e, s)
      BY <1>8, <2>1, <3>1 DEF CopiesFresh, At
    <3>3. Register(r) => req[r].ceremony # e
      BY <1>4, <1>6, <1>8, <2>1, <2>2, <3>1, <3>2 DEF SessionsApart, At
    <3>4. Fresh(e, s)'
      BY <1>5, <3>2, <3>3
    <3> QED BY <2>1, <3>4 DEF Fresh
  <2>3. CASE q = r /\ At(r, "idle")
    <3>1. PICK z \in Sessions, p \in Views : Arrive(r, z, p)
      BY <2>3 DEF Step, Respond, Abort, Admit, AdmittedTo, ReauthCreate, BeginRead,
         BeginCeremony, BeginRefused, CompleteSave, CompleteCheck, Register,
         OptionsExists, OptionsCreate, AssertSave, AssertConsume, AssertVerify,
         AssertGrant, RevokeDelete, At
    <3>2. req'[r] = [IdleRequest EXCEPT !.pc = p, !.session = z, !.data = store[z]]
      BY <1>0, <3>1 DEF Arrive, TypeOK
    <3>3. e = store[z].registration /\ s = z
      BY <2>1, <2>3, <3>2 DEF IdleRequest
    <3>4. Fresh(e, s)
      BY <1>8, <2>1, <3>1, <3>3 DEF StoredFresh
    <3>5. Fresh(e, s)'
      BY <1>4, <1>5, <2>3, <3>4 DEF At
    <3> QED BY <2>1, <3>5 DEF Fresh
  <2>4. CASE q = r /\ ~At(r, "idle")
    <3>1. s = req[r].session
      BY <1>0, <1>8, <2>1, <2>4, RegistrationAfter
    <3>2. CASE e = req[r].data.registration
      <4>1. Fresh(e, s)
        BY <1>8, <2>1, <2>4, <3>1, <3>2 DEF CopiesFresh
      <4>2. Register(r) => req[r].ceremony # e
        BY <1>4, <1>8, <2>1, <3>2
      <4>3. Fresh(e, s)'
        BY <1>5, <4>1, <4>2
      <4> QED BY <2>1, <4>3 DEF Fresh
    <3>3. CASE BeginCeremony(r) /\ e \in Opened' \ Opened
      <4>1. Fresh(e, req[r].session)' /\ req'[r].session = req[r].session
        BY <3>3, BegunFresh
      <4> QED BY <2>1, <2>4, <4>1 DEF Fresh
    <3> QED BY <1>0, <1>8, <2>1, <2>4, <3>2, <3>3, RegistrationAfter
  <2> QED BY <2>2, <2>3, <2>4
<1>9. ASSUME NEW q \in Requests, req'[q].pc \in CompletePC
      PROVE  /\ req'[q].data.registration = None
             /\ store'[req'[q].session].registration = None
             /\ req'[q].ceremony # None => Fresh(req[q].ceremony, req[q].session)'
  <2>1. PICK e, s : e = req'[q].ceremony /\ s = req'[q].session
    OBVIOUS
  <2>2. CASE q # r
    <3>1. req'[q] = req[q] /\ req[q].pc # "idle"
      BY <1>2, <1>9, <2>2 DEF CompletePC
    <3>2. /\ req[q].data.registration = None /\ store[s].registration = None
          /\ e # None => Fresh(e, s)
      BY <1>9, <2>1, <3>1 DEF PoppedFresh
    <3>3. req[r].pc # "idle" => req[r].session # s
      BY <2>1, <2>2, <3>1 DEF SessionsApart, At
    <3>4. store'[s] = store[s]
      <4>1. s \in Sessions
        BY <1>0, <2>1, <3>1 DEF TypeOK
      <4> QED BY <1>0, <3>3, <4>1, StoreAfter DEF At
    <3>5. e # None => Fresh(e, s)'
      BY <1>4, <1>5, <1>6, <3>2, <3>3
    <3> QED BY <2>1, <3>1, <3>2, <3>4, <3>5 DEF Fresh
  <2>3. CASE q = r
    <3>0. ~At(r, "idle")
      BY <1>0, <1>9, <2>3, CompleteEntry DEF CompleteSave, CompletePC, At
    <3>1. s = req[r].session /\ req'[r].pc # "idle"
      BY <1>0, <1>9, <2>1, <2>3, <3>0, RegistrationAfter DEF CompletePC
    <3>2. CASE /\ CompleteSave(r) /\ req'[r].ceremony = req[r].data.registration
               /\ req'[r].data.registration = None
      <4>1. e # None => Fresh(e, s)
        BY <2>1, <2>3, <3>0, <3>1, <3>2 DEF CopiesFresh
      <4>2. e # None => Fresh(e, s)'
        BY <1>4, <1>5, <3>2, <4>1 DEF CompleteSave, At
      <4> QED BY <1>0, <2>1, <2>3, <3>1, <3>2, <4>2, StoreAfter DEF Fresh
    <3>3. CASE /\ req[r].pc \in CompletePC /\ CompleteCheck(r)
               /\ req'[r].ceremony = req[r].ceremony
      <4>1. /\ req[r].data.registration = None /\ store[s].registration = None
            /\ e # None => Fresh(e, s)
        BY <2>1, <2>3, <3>1, <3>3 DEF PoppedFresh
      <4>2. store' = store /\ ~Register(r) /\ ~BeginCeremony(r)
        BY <3>3 DEF CompleteCheck, Register, BeginCeremony, At
      <4>3. e # None => Fresh(e, s)'
        BY <1>5, <4>1, <4>2
      <4>4. req'[r].data.registration = None
        BY <1>0, <3>0, <3>1, <4>1, <4>2, RegistrationAfter
      <4> QED BY <2>1, <2>3, <4>1, <4>2, <4>3, <4>4 DEF Fresh
    <3> QED BY <1>0, <1>9, <2>3, <3>2, <3>3, CompleteEntry
  <2> QED BY <2>2, <2>3
<1> QED BY <1>7, <1>8, <1>9 DEF StoredFresh, CopiesFresh, PoppedFresh, At

LEMMA NextStatesFresh ==
    ASSUME IInv, SessionsApart, StatesFresh, [Next]_vars
    PROVE  StatesFresh'
<1> USE DEF StatesFresh
<1>1. CASE Tick \/ UNCHANGED vars
  <2>1. UNCHANGED <<creds, ceremonies, store, req>>
    BY <1>1 DEF Tick, vars
  <2> QED BY <2>1 DEF StoredFresh, CopiesFresh, PoppedFresh, Fresh, Opened, At
<1>2. CASE Restart
  <2>1. UNCHANGED <<creds, ceremonies, store>> /\ \A r \in Requests : req'[r].pc = "idle"
    BY <1>2 DEF Restart, IdleRequest
  <2> QED BY <2>1 DEF StoredFresh, CopiesFresh, PoppedFresh, Fresh, Opened, At, CompletePC
<1> QED BY <1>1, <1>2, StepStatesFresh DEF Next

(***************************************************************************)
(* A registration state is handed to the verifier once, and never after a  *)
(* passkey was enrolled with it, as long as the requests of a session do   *)
(* not overlap: whatever the requests of other sessions, the crashes and   *)
(* the failed saves between them.                                          *)
(***************************************************************************)
THEOREM StatesVerifiedOnce == Spec /\ []SessionsApart => []CeremonyVerifiedOnce
<1>1. Init => StatesFresh
  <2> SUFFICES ASSUME Init PROVE StatesFresh
    OBVIOUS
  <2>1. \A r \in Requests : req[r].pc = "idle"
    BY DEF Init, IdleRequest
  <2>2. \A s \in Sessions : store[s].registration = None
    BY DEF Init, EmptySession
  <2> QED BY <2>1, <2>2 DEF StatesFresh, StoredFresh, CopiesFresh, PoppedFresh, At, CompletePC
<1>2. IInv /\ SessionsApart /\ StatesFresh /\ [Next]_vars => StatesFresh'
  BY NextStatesFresh
<1>3. IInv /\ SessionsApart /\ StatesFresh => CeremonyVerifiedOnce
  <2> SUFFICES ASSUME IInv, SessionsApart, StatesFresh, NEW r \in Requests, NEW q \in Requests,
                      At(r, "complete_verify")
               PROVE  /\ r # q => ~(At(q, "complete_verify")
                                      /\ req[q].ceremony = req[r].ceremony)
                      /\ \A c \in Creds : creds[c].ceremony # req[r].ceremony
    BY DEF CeremonyVerifiedOnce
  <2>1. ASSUME NEW p \in Requests, At(p, "complete_verify")
        PROVE  Fresh(req[p].ceremony, req[p].session)
    BY <2>1 DEF IInv, CeremonyHeld, StatesFresh, PoppedFresh, CompletePC, At
  <2> QED BY <2>1 DEF Fresh, SessionsApart, At
<1> QED BY <1>1, <1>2, <1>3, Inductive, PTL DEF Spec
=============================================================================
