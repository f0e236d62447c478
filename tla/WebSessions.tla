----------------------------- MODULE WebSessions -----------------------------
(***************************************************************************)
(* The owner's browser sessions: password login, second factor, recovery   *)
(* codes, re-authentication, password change and the operator's reset.     *)
(*                                                                         *)
(* One request is several transactions: it resolves the session it came    *)
(* with, spends a one-time code, and only then changes the session or the  *)
(* credentials; requests of other browsers and the operator's commands run *)
(* in between (sessions.py, totp.py; authentication_credentials.py,        *)
(* web_session_store.py, totp_store.py).                                   *)
(*                                                                         *)
(* A secret is the number of the rotation that made it, a password the     *)
(* number of the change that set it, a one-time code the time step it is   *)
(* for, and a recovery code the pair of its credential and its issue.      *)
(* Time is left out except for what it ends: windows, locks and sessions   *)
(* run out at any moment, and the time step of the codes advances.         *)
(***************************************************************************)
EXTENDS Naturals, FiniteSets

CONSTANTS
    Sessions,       \* web session rows, 1 .. n
    Enrollments,    \* second-factor credentials, 1 .. n
    Slots,          \* requests under way at once
    MaxRevision,    \* bound on the credential revision
    MaxIssue,       \* bound on the issues of recovery codes of one credential
    MaxStep,        \* bound on the time step of the one-time codes
    MaxSecret,      \* bound on the rotations of one session
    Threshold,      \* failures that lock a bucket
    MaxEffort       \* bound on requests and on what time ends, together

\* A credential can be enrolled, a code issued and a session filled; a bucket is not
\* locked by a single failure.
WebConstants ==
    /\ {MaxRevision, MaxIssue, MaxStep, MaxSecret} \subseteq Nat \ {0}
    /\ Threshold \in Nat \ {0, 1}

VARIABLES
    credential,     \* the owner's row: revision 0 before enrolment
    totp,           \* per enrolment: the second-factor row
    codes,          \* recovery codes not used yet
    session,        \* per session: its row
    bucket,         \* per kind: the throttle bucket
    step,           \* the time step of the one-time codes
    req,            \* requests under way
    spent,          \* per enrolment and step: how often it was accepted
    effort          \* requests and expiries so far

vars == <<credential, totp, codes, session, bucket, step, req, spent, effort>>
rows == <<credential, totp, codes, session>>

Kinds == {"login", "totp", "recovery"}
Steps == 1 .. MaxStep

-------------------------------------------------------------------------------
NoSession    == [state |-> "none", revision |-> 0, secret |-> 0, method |-> "none",
                 recent |-> FALSE, expired |-> FALSE, authenticated |-> FALSE,
                 reauthenticated |-> FALSE]
NoEnrollment == [state |-> "none", expired |-> FALSE, last |-> 0, issue |-> 0,
                 deadline |-> FALSE, activated |-> FALSE, replaced |-> FALSE]
NoBucket     == [count |-> 0, elapsed |-> FALSE, locked |-> FALSE]
Free         == [kind |-> "free", pc |-> "idle", session |-> 0, secret |-> 0, revision |-> 0,
                 code |-> 0, now |-> 0, enrollment |-> 0, from |-> "none"]

Init ==
    /\ credential = [revision |-> 0, password |-> 0]
    /\ totp = [c \in Enrollments |-> NoEnrollment]
    /\ codes = {}
    /\ session = [s \in Sessions |-> NoSession]
    /\ bucket = [k \in Kinds |-> NoBucket]
    /\ step = 1
    /\ req = [r \in Slots |-> Free]
    /\ spent = [c \in Enrollments |-> [n \in Steps |-> 0]]
    /\ effort = 0

ActiveTotp == {c \in Enrollments : totp[c].state = "active"}
HasActiveTotp == ActiveTotp # {}
Effort == effort < MaxEffort /\ effort' = effort + 1
Done(r) == req' = [req EXCEPT ![r] = Free]

-------------------------------------------------------------------------------
(* Throttle buckets: the window ends before a lock that was set in it.     *)

\* One more failure under the lock of the bucket row.  A window that is over starts
\* anew, even when the lock it led to still holds.
NextFailure(b) ==
    CASE b.elapsed              -> [count |-> 1, elapsed |-> FALSE, locked |-> FALSE]
      [] ~b.elapsed /\ b.locked -> b
      [] OTHER                  -> [b EXCEPT !.count = @ + 1, !.locked = b.count + 1 >= Threshold]

RecordFailure(k) == bucket' = [bucket EXCEPT ![k] = NextFailure(@)]
ResetBucket(k)   == bucket' = [bucket EXCEPT ![k] = NoBucket]

WindowElapses(k) ==
    /\ bucket[k].count > 0 /\ ~bucket[k].elapsed
    /\ bucket' = [bucket EXCEPT ![k].elapsed = TRUE]
    /\ Effort
    /\ UNCHANGED <<rows, step, req, spent>>

LockEnds(k) ==
    /\ bucket[k].locked /\ bucket[k].elapsed
    /\ bucket' = [bucket EXCEPT ![k].locked = FALSE]
    /\ Effort
    /\ UNCHANGED <<rows, step, req, spent>>

-------------------------------------------------------------------------------
(* What a session row admits.                                              *)

\* The cookie names the row by the hash of its current secret.
Live(s) == session[s].state \notin {"none", "revoked"} /\ ~session[s].expired

Authenticated(s) == Live(s) /\ session[s].state = "active" /\ session[s].revision = credential.revision

\* Sessions that may still answer a challenge; their revision is not compared.
ChallengeEligible(s) == Live(s) /\ session[s].state \in {"pending_totp", "active", "recovery_limited"}

\* What the request remembers of the row it was resolved to.
Resolved(kind, pc, s) ==
    [Free EXCEPT !.kind = kind, !.pc = pc, !.session = s, !.secret = session[s].secret,
                 !.revision = session[s].revision,
                 !.from = session[s].state, !.now = step]

Begin(r, request) ==
    /\ req[r] = Free /\ \A q \in Slots : req[q] = Free => r <= q
    /\ req' = [req EXCEPT ![r] = request]
    /\ Effort
    /\ UNCHANGED <<rows, bucket, step, spent>>

\* The row still is what the request was resolved to: a rotation by anyone else fails it.
Unrotated(r) == session[req[r].session].secret = req[r].secret

\* A revoked row forgets when it was authenticated.
Revoked(row) == [row EXCEPT !.state = "revoked", !.recent = FALSE,
                            !.authenticated = FALSE, !.reauthenticated = FALSE]

RevokeOthers(s) ==
    [t \in Sessions |->
        IF t # s /\ session[t].state \notin {"none", "revoked"} THEN Revoked(session[t]) ELSE session[t]]

Rotated(row) == [row EXCEPT !.secret = @ + 1]

CanRotate(s) == session[s].secret < MaxSecret

-------------------------------------------------------------------------------
(* Login.                                                                  *)

\* Material and buckets are read in one transaction; a locked bucket ends it here.
Login(r) ==
    /\ credential.revision > 0 /\ ~bucket["login"].locked
    /\ \E s \in Sessions, password \in {0, credential.password} :
          /\ session[s].state = "none" /\ \A t \in Sessions : session[t].state = "none" => s <= t
          /\ \A q \in Slots : req[q].kind = "login" => req[q].session # s
          /\ Begin(r, [Free EXCEPT !.kind = "login", !.session = s, !.revision = credential.revision,
                                   !.pc = IF password = credential.password THEN "commit" ELSE "failed"])

RecordLoginFailure(r) ==
    /\ req[r].kind = "login" /\ req[r].pc = "failed"
    /\ RecordFailure("login") /\ Done(r)
    /\ UNCHANGED <<rows, step, spent, effort>>

\* Mutant: the revision the password was checked against is not compared again.
TrustMaterial(r) == TRUE

MaterialCurrent(r) == credential.revision = req[r].revision

FirstState == IF HasActiveTotp THEN "pending_totp" ELSE "active"

\* The session starts with the second factor pending when one is active by now.
CommitLoginSuccess(r) ==
    LET s == req[r].session
    IN  /\ req[r].kind = "login" /\ req[r].pc = "commit"
        /\ IF ~MaterialCurrent(r) THEN UNCHANGED <<rows, bucket>>
           ELSE /\ session' = [session EXCEPT ![s] =
                      [state |-> FirstState,
                       revision |-> req[r].revision, secret |-> 1, method |-> "password",
                       recent |-> ~HasActiveTotp, expired |-> FALSE,
                       authenticated |-> FirstState = "active", reauthenticated |-> FALSE]]
                /\ ResetBucket("login")
                /\ UNCHANGED <<credential, totp, codes>>
        /\ Done(r)
        /\ UNCHANGED <<step, spent, effort>>

Logout(s) ==
    /\ session[s].state \notin {"none", "revoked"}
    /\ session' = [session EXCEPT ![s] = Revoked(@)]
    /\ UNCHANGED <<credential, totp, codes, bucket, step, req, spent, effort>>

-------------------------------------------------------------------------------
(* One-time codes.                                                         *)

\* The code of a step next to the current one, later than the last accepted.
Accepts(c, code, now) ==
    /\ code + 1 >= now /\ code <= now + 1
    /\ code > totp[c].last

Spend(c, code) == spent' = [spent EXCEPT ![c][code] = @ + 1]

\* The requests that prove a second factor, and where they go on when it is accepted.
NeedsCode == {"challenge", "reauthenticate", "regenerate", "disable"}

\* The verification commits on its own; the bucket is reset with it.
VerifyTotp(r) ==
    LET q == req[r]
    IN  /\ q.kind \in NeedsCode /\ q.pc = "verify"
        /\ IF \E c \in ActiveTotp : q.code \in Steps /\ Accepts(c, q.code, q.now)
           THEN \E c \in ActiveTotp :
                   /\ totp' = [totp EXCEPT ![c].last = q.code]
                   /\ Spend(c, q.code)
                   /\ ResetBucket("totp")
                   /\ req' = [req EXCEPT ![r].pc = "apply"]
           ELSE /\ req' = [req EXCEPT ![r].pc = "rejected"]
                /\ UNCHANGED <<totp, spent, bucket>>
        /\ UNCHANGED <<credential, codes, session, step, effort>>

RecordCodeFailure(r) ==
    /\ req[r].kind \in NeedsCode \cup {"activate", "recover"} /\ req[r].pc = "rejected"
    /\ RecordFailure(IF req[r].kind = "recover" THEN "recovery" ELSE "totp")
    /\ Done(r)
    /\ UNCHANGED <<rows, step, spent, effort>>

\* The code a user types: of this step or of the one before, or a wrong one.
Typed == {0, step} \cup {n \in Steps : n + 1 = step}

-------------------------------------------------------------------------------
(* Changes of a session.                                                   *)

Challenge(r) ==
    \E s \in Sessions, code \in Typed :
        /\ ChallengeEligible(s) /\ session[s].state = "pending_totp" /\ CanRotate(s)
        /\ ~bucket["totp"].locked
        /\ Begin(r, [Resolved("challenge", "verify", s) EXCEPT !.code = code])

\* Re-authentication: without an active second factor the password is enough.
Reauthenticate(r) ==
    \E s \in Sessions, code \in Typed :
        /\ (~HasActiveTotp => code = step)
        /\ Authenticated(s) /\ CanRotate(s) /\ ~(HasActiveTotp /\ bucket["totp"].locked)
        /\ Begin(r, [Resolved("reauthenticate", IF HasActiveTotp THEN "verify" ELSE "apply", s)
                        EXCEPT !.code = code])

SourceState(r) ==
    session[req[r].session].state = IF req[r].kind = "challenge" THEN "pending_totp" ELSE "active"

RotateSessionSecrets(r) ==
    LET s == req[r].session
    IN  /\ req[r].kind \in {"challenge", "reauthenticate"} /\ req[r].pc = "apply"
        /\ session' = IF SourceState(r) /\ Unrotated(r)
                      THEN [session EXCEPT ![s] = [Rotated(@) EXCEPT
                                !.state = "active", !.recent = TRUE, !.authenticated = TRUE,
                                !.reauthenticated = req[r].kind = "reauthenticate",
                                !.method = IF req[r].kind = "challenge" THEN "totp"
                                           ELSE session[s].method]]
                      ELSE session
        /\ Done(r)
        /\ UNCHANGED <<credential, totp, codes, bucket, step, spent, effort>>

-------------------------------------------------------------------------------
(* Changes of the credentials.                                             *)

PasswordChange(r) ==
    \E s \in Sessions :
        /\ Authenticated(s) /\ session[s].recent /\ CanRotate(s) /\ credential.revision < MaxRevision
        /\ Begin(r, Resolved("password", "apply", s))

ChangePassword(r) ==
    LET s == req[r].session
    IN  /\ req[r].kind = "password" /\ req[r].pc = "apply"
        /\ IF credential.revision = req[r].revision /\ Unrotated(r) /\ session[s].state # "revoked"
           THEN /\ credential' = [revision |-> credential.revision + 1, password |-> credential.password + 1]
                /\ session' = [RevokeOthers(s) EXCEPT
                                  ![s] = [Rotated(@) EXCEPT !.revision = credential.revision + 1]]
           ELSE UNCHANGED <<credential, session>>
        /\ Done(r)
        /\ UNCHANGED <<totp, codes, bucket, step, spent, effort>>

StartEnrollment(r) ==
    \E s \in Sessions :
        /\ ChallengeEligible(s) /\ session[s].state \in {"active", "recovery_limited"} /\ session[s].recent
        /\ Begin(r, Resolved("enroll", "apply", s))

Replaced(row) == [row EXCEPT !.state = "replaced", !.replaced = TRUE, !.deadline = FALSE]

\* A second pending enrolment replaces the first; an active one stands in the way unless
\* the session came from recovery.
InsertPendingEnrollment(r) ==
    /\ req[r].kind = "enroll" /\ req[r].pc = "apply"
    /\ IF \/ HasActiveTotp /\ req[r].from # "recovery_limited"
          \/ \A c \in Enrollments : totp[c].state # "none"
       THEN UNCHANGED totp
       ELSE \E c \in Enrollments :
               /\ totp[c].state = "none" /\ \A d \in Enrollments : totp[d].state = "none" => c <= d
               /\ totp' = [d \in Enrollments |->
                              IF d = c THEN [NoEnrollment EXCEPT !.state = "pending", !.issue = 1,
                                                                 !.deadline = TRUE]
                              ELSE IF totp[d].state = "pending" THEN Replaced(totp[d])
                              ELSE totp[d]]
    /\ Done(r)
    /\ UNCHANGED <<credential, codes, session, bucket, step, spent, effort>>

VerifyEnrollment(r) ==
    \E s \in Sessions, c \in Enrollments, code \in Typed :
        /\ ChallengeEligible(s) /\ session[s].state \in {"active", "recovery_limited"}
        /\ CanRotate(s) /\ ~bucket["totp"].locked /\ totp[c].state = "pending"
        /\ Begin(r, [Resolved("activate", "apply", s) EXCEPT !.code = code, !.enrollment = c])

\* The enrolment becomes the one active credential.
Activated(c, code) ==
    [d \in Enrollments |->
        IF d = c THEN [totp[c] EXCEPT !.state = "active", !.last = code, !.activated = TRUE,
                                      !.deadline = FALSE]
        ELSE IF totp[d].state = "active" THEN Replaced(totp[d]) ELSE totp[d]]

\* A recovery that this enrolment completes turns the session into an active one in the
\* same transaction, or the transaction is undone.
ActivateEnrollment(r) ==
    LET q == req[r]
        s == q.session
        completes == q.from = "recovery_limited"
    IN  /\ q.kind = "activate" /\ q.pc = "apply"
        /\ CASE totp[q.enrollment].state # "pending" \/ totp[q.enrollment].expired ->
                    Done(r) /\ UNCHANGED <<totp, codes, session, spent>>
             [] /\ totp[q.enrollment].state = "pending" /\ ~totp[q.enrollment].expired
                /\ ~(q.code \in Steps /\ Accepts(q.enrollment, q.code, q.now)) ->
                    /\ req' = [req EXCEPT ![r].pc = "rejected"]
                    /\ UNCHANGED <<totp, codes, session, spent>>
             [] OTHER ->
                    /\ Done(r)
                    /\ IF completes /\ ~(Unrotated(r) /\ session[s].state = "recovery_limited")
                       THEN UNCHANGED <<totp, codes, session, spent>>
                       ELSE /\ totp' = Activated(q.enrollment, q.code)
                            /\ Spend(q.enrollment, q.code)
                            /\ codes' = codes \cup {<<q.enrollment, totp[q.enrollment].issue>>}
                            /\ session' = IF completes
                                          THEN [session EXCEPT ![s] = [Rotated(@) EXCEPT
                                                   !.state = "active", !.method = "totp", !.recent = TRUE,
                                                   !.authenticated = TRUE, !.reauthenticated = FALSE]]
                                          ELSE session
        /\ UNCHANGED <<credential, bucket, step, effort>>

\* The password is checked on the resolved row; the code is looked up in the transaction.
Recover(r) ==
    \E s \in Sessions, code \in Enrollments \X (1 .. MaxIssue), right \in BOOLEAN :
        /\ ChallengeEligible(s) /\ session[s].state \in {"pending_totp", "active"}
        /\ CanRotate(s) /\ ~bucket["recovery"].locked
        /\ totp[code[1]].state \in {"active", "replaced"} /\ code[2] <= totp[code[1]].issue
        /\ Begin(r, [Resolved("recover", IF right THEN "apply" ELSE "rejected", s)
                        EXCEPT !.enrollment = code[1], !.code = code[2]])

CodeUsed(code) == codes \ {code}

RecoverSession(r) ==
    LET q    == req[r]
        s    == q.session
        code == <<q.enrollment, q.code>>
    IN  /\ q.kind = "recover" /\ q.pc = "apply"
        /\ IF q.enrollment \in ActiveTotp /\ code \in codes
           THEN /\ Done(r)
                /\ IF Unrotated(r) /\ session[s].state \in {"pending_totp", "active"}
                   THEN /\ codes' = CodeUsed(code)
                        /\ session' = [session EXCEPT ![s] = [Rotated(@) EXCEPT
                               !.state = "recovery_limited", !.method = "recovery", !.recent = TRUE,
                               !.authenticated = TRUE, !.reauthenticated = FALSE]]
                   ELSE UNCHANGED <<codes, session>>
           ELSE req' = [req EXCEPT ![r].pc = "rejected"] /\ UNCHANGED <<codes, session>>
        /\ UNCHANGED <<credential, totp, bucket, step, spent, effort>>

\* New codes and switching the factor off ask for an active session of the current
\* revision, the password and a one-time code.
Prove(r, kind) ==
    \E s \in Sessions, code \in Typed :
        /\ Authenticated(s) /\ CanRotate(s) /\ ~bucket["totp"].locked
        /\ Begin(r, [Resolved(kind, "verify", s) EXCEPT !.code = code])

Regenerate(r) == HasActiveTotp /\ Prove(r, "regenerate")
Disable(r)    == HasActiveTotp /\ credential.revision < MaxRevision /\ Prove(r, "disable")

\* Mutant: the codes of the last issue stay good.
Added(c) == codes \cup {<<c, totp[c].issue + 1>>}

Reissued(c) == {k \in codes : k[1] # c} \cup {<<c, totp[c].issue + 1>>}

\* The codes are those of whatever credential is active now; the session is not asked again.
RegenerateRecoveryCodes(r) ==
    /\ req[r].kind = "regenerate" /\ req[r].pc = "apply"
    /\ IF ~\E c \in ActiveTotp : totp[c].issue < MaxIssue THEN UNCHANGED <<totp, codes>>
       ELSE \E c \in ActiveTotp :
               /\ totp' = [totp EXCEPT ![c].issue = @ + 1]
               /\ codes' = Reissued(c)
    /\ Done(r)
    /\ UNCHANGED <<credential, session, bucket, step, spent, effort>>

NoFactor == [c \in Enrollments |->
                IF totp[c].state \in {"active", "pending"} THEN Replaced(totp[c]) ELSE totp[c]]

DisableTotp(r) ==
    LET s == req[r].session
    IN  /\ req[r].kind = "disable" /\ req[r].pc = "apply"
        /\ IF HasActiveTotp /\ Unrotated(r) /\ session[s].state # "revoked"
           THEN /\ totp' = NoFactor /\ codes' = {}
                /\ credential' = [credential EXCEPT !.revision = @ + 1]
                /\ session' = [RevokeOthers(s) EXCEPT
                                  ![s] = [Rotated(@) EXCEPT !.revision = credential.revision + 1,
                                                            !.method = "password"]]
           ELSE UNCHANGED rows
        /\ Done(r)
        /\ UNCHANGED <<bucket, step, spent, effort>>

-------------------------------------------------------------------------------
(* The operator, and time.                                                 *)

EnrollWebCredential ==
    /\ credential.revision = 0
    /\ credential' = [revision |-> 1, password |-> 1]
    /\ UNCHANGED <<totp, codes, session, bucket, step, req, spent, effort>>

RevokeAll == [s \in Sessions |-> IF session[s].state = "none" THEN session[s]
                                 ELSE Revoked(session[s])]

\* The emergency reset: new password, no second factor, no session.
ResetWebAuthentication ==
    /\ credential.revision \in 1 .. MaxRevision - 1
    /\ credential' = [revision |-> credential.revision + 1, password |-> credential.password + 1]
    /\ totp' = NoFactor /\ codes' = {}
    /\ session' = RevokeAll
    /\ UNCHANGED <<bucket, step, req, spent, effort>>

Operator == EnrollWebCredential \/ ResetWebAuthentication

SessionExpires(s) ==
    /\ Live(s)
    /\ session' = [session EXCEPT ![s].expired = TRUE]
    /\ Effort
    /\ UNCHANGED <<credential, totp, codes, bucket, step, req, spent>>

RecentEnds(s) ==
    /\ session[s].recent
    /\ session' = [session EXCEPT ![s].recent = FALSE]
    /\ Effort
    /\ UNCHANGED <<credential, totp, codes, bucket, step, req, spent>>

EnrollmentExpires(c) ==
    /\ totp[c].state = "pending" /\ ~totp[c].expired
    /\ totp' = [totp EXCEPT ![c].expired = TRUE]
    /\ Effort
    /\ UNCHANGED <<credential, codes, session, bucket, step, req, spent>>

StepAdvances ==
    /\ step < MaxStep
    /\ step' = step + 1
    /\ UNCHANGED <<rows, bucket, req, spent, effort>>

SessionRequest(r) == Login(r) \/ Reauthenticate(r) \/ PasswordChange(r)

FactorRequest(r) ==
    \/ Challenge(r) \/ StartEnrollment(r) \/ VerifyEnrollment(r)
    \/ Recover(r) \/ Regenerate(r) \/ Disable(r)

Transaction(r) ==
    \/ RecordLoginFailure(r) \/ CommitLoginSuccess(r)
    \/ VerifyTotp(r) \/ RecordCodeFailure(r) \/ RotateSessionSecrets(r)
    \/ ChangePassword(r) \/ InsertPendingEnrollment(r) \/ ActivateEnrollment(r)
    \/ RecoverSession(r) \/ RegenerateRecoveryCodes(r) \/ DisableTotp(r)

Time ==
    \/ \E k \in Kinds : WindowElapses(k) \/ LockEnds(k)
    \/ \E s \in Sessions : SessionExpires(s) \/ RecentEnds(s)
    \/ \E c \in Enrollments : EnrollmentExpires(c)
    \/ StepAdvances

\* Nothing is under way.
Quiet == (\A r \in Slots : req[r] = Free) /\ UNCHANGED vars

Next ==
    \/ \E r \in Slots : SessionRequest(r) \/ FactorRequest(r) \/ Transaction(r)
    \/ \E s \in Sessions : Logout(s)
    \/ Operator \/ Time \/ Quiet

Spec == Init /\ [][Next]_vars

-------------------------------------------------------------------------------
\* The shapes of the rows; a bucket never counts past the failure that locks it.
TypeOK ==
    /\ credential \in [revision : 0 .. MaxRevision, password : 0 .. MaxRevision]
    /\ \A s \in Sessions :
          /\ session[s].state \in {"none", "pending_totp", "active", "recovery_limited", "revoked"}
          /\ session[s].secret \in 0 .. MaxSecret /\ session[s].revision \in 0 .. MaxRevision
    /\ \A c \in Enrollments :
          /\ totp[c].state \in {"none", "pending", "active", "replaced"}
          /\ totp[c].last \in 0 .. MaxStep /\ totp[c].issue \in 0 .. MaxIssue
    /\ codes \subseteq Enrollments \X (1 .. MaxIssue)
    /\ \A k \in Kinds : bucket[k].count \in 0 .. Threshold

\* The checks of the tables (ck_web_sessions__state_timestamps and __reauthentication,
\* ck_totp_credentials__state_timestamps, ck_authentication_throttle_buckets__timestamps).
SessionRow(row) ==
    /\ row.state \in {"active", "recovery_limited"} <=> row.authenticated
    /\ row.reauthenticated => row.authenticated
    /\ row.method \in {"password", "totp", "recovery"} /\ row.revision >= 1

EnrollmentRow(row) ==
    /\ row.state = "pending" <=> row.deadline
    /\ row.state = "pending" <=> ~row.activated /\ ~row.replaced
    /\ row.state = "active" <=> row.activated /\ ~row.replaced
    /\ row.state = "replaced" <=> row.replaced

CodeRow(k) == totp[k[1]].state # "none" /\ k[2] >= 1

BucketRow(row) == row.locked => row.count >= 1

\* Every row the transitions leave behind is one its table admits: a transaction that
\* forgot a column of the matrix would be refused by the database (web_session_store,
\* totp_store, authentication_credentials).
RowsAdmitted ==
    /\ \A s \in Sessions : session[s].state # "none" => SessionRow(session[s])
    /\ \A c \in Enrollments : totp[c].state # "none" => EnrollmentRow(totp[c])
    /\ \A k \in codes : CodeRow(k)
    /\ \A k \in Kinds : BucketRow(bucket[k])

\* Every session that is not revoked belongs to the current credential revision: a login
\* that was checked against an older password, or a session that slept through a
\* password change, a switched-off factor or a reset, is not among them.  The challenge
\* routes rely on it, since they never compare the revision.
LiveSessionsCurrent ==
    \A s \in Sessions : session[s].state \notin {"none", "revoked"} => session[s].revision = credential.revision

\* At most one second factor is active, whatever enrolments race.
OneActiveFactor == Cardinality(ActiveTotp) <= 1

\* A one-time code is accepted once, by one of the requests that present it.
StepSpentOnce == \A c \in Enrollments, n \in Steps : spent[c][n] <= 1

\* The recovery codes that would still be accepted are of the latest issue of the active
\* factor: a regeneration, a replacement or a reset leaves no older one behind.
CodesInForce == \A k \in codes : k[1] \in ActiveTotp => k[2] = totp[k[1]].issue

\* While a second factor is active, no session becomes active on a password alone, not
\* even one whose login began before the factor was there.
SecondFactorNotSkipped ==
    [][\A s \in Sessions :
          session[s].state # "active" /\ session'[s].state = "active" /\ HasActiveTotp'
              => session'[s].method = "totp"]_vars

\* A revoked session is dead, also for the requests that were resolved to it before.
RevokedIsFinal ==
    [][\A s \in Sessions : session[s].state = "revoked" => session'[s].state = "revoked"]_vars

\* Live sessions are of the current credential, one factor is active, and a code is
\* accepted once and only from the latest issue.
WebSafe == TypeOK /\ RowsAdmitted /\ LiveSessionsCurrent /\ OneActiveFactor /\ StepSpentOnce /\ CodesInForce

\* No session skips the second factor, and a revoked one does not come back.
WebSteps == SecondFactorNotSkipped /\ RevokedIsFinal
=============================================================================
