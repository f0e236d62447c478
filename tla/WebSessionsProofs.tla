--------------------------- MODULE WebSessionsProofs ---------------------------
(***************************************************************************)
(* What the rows of the web sessions promise, for any number of sessions,  *)
(* enrolments and requests under way, and every bound: a session that is   *)
(* not revoked is of the current credential, one factor is active, a       *)
(* one-time code is accepted once, and a recovery code is of the latest    *)
(* issue.                                                                  *)
(*                                                                         *)
(* A request is several transactions, and what it resolved first may have  *)
(* changed by the time it acts.  What it may still rely on is "Follows":   *)
(* the secret of its session only grows, and while it is the one the       *)
(* request came with, the session still has the revision it had then.      *)
(* That is why switching the factor off needs no comparison of revisions.  *)
(***************************************************************************)
EXTENDS WebSessions, FiniteSetTheorems, TLAPS

SessionType ==
    [state : {"none", "pending_totp", "active", "recovery_limited", "revoked"},
     revision : 0 .. MaxRevision, secret : 0 .. MaxSecret,
     method : {"none", "password", "totp", "recovery"},
     recent : BOOLEAN, expired : BOOLEAN, authenticated : BOOLEAN, reauthenticated : BOOLEAN]

EnrollmentType ==
    [state : {"none", "pending", "active", "replaced"}, expired : BOOLEAN,
     last : 0 .. MaxStep, issue : 0 .. MaxIssue,
     deadline : BOOLEAN, activated : BOOLEAN, replaced : BOOLEAN]

BucketType == [count : 0 .. Threshold, elapsed : BOOLEAN, locked : BOOLEAN]

RequestKinds == NeedsCode \cup {"free", "login", "password", "enroll", "activate", "recover"}

RequestType ==
    [kind : RequestKinds, pc : {"idle", "commit", "failed", "verify", "apply", "rejected"},
     session : Sessions \cup {0}, secret : 0 .. MaxSecret, revision : 0 .. MaxRevision,
     code : Nat, now : Nat, enrollment : Enrollments \cup {0},
     from : {"none", "pending_totp", "active", "recovery_limited", "revoked"}]

\* A row is one its table admits, and is current unless it is revoked.
SessionTrue(s) ==
    IF session[s].state = "none" THEN ~session[s].recent
    ELSE /\ SessionRow(session[s])
         /\ session[s].state # "revoked" => session[s].revision = credential.revision

SessionsTrue ==
    /\ credential \in [revision : 0 .. MaxRevision, password : 0 .. MaxRevision]
    /\ credential.password <= credential.revision
    /\ session \in [Sessions -> SessionType]
    /\ \A s \in Sessions : SessionTrue(s)

FactorTrue(c) ==
    IF totp[c].state = "none" THEN totp[c].last = 0
    ELSE EnrollmentRow(totp[c]) /\ totp[c].issue >= 1

\* Recovery codes are issued with the activation, and renewed only while active.
CodeTrue(k) ==
    /\ totp[k[1]].state \in {"active", "replaced"}
    /\ totp[k[1]].state = "active" => k[2] = totp[k[1]].issue

\* A step that was accepted is not later than the last one the factor remembers.
SpentTrue ==
    \A c \in Enrollments, n \in Steps :
        spent[c][n] <= 1 /\ (spent[c][n] = 1 => n <= totp[c].last)

FactorsTrue ==
    /\ totp \in [Enrollments -> EnrollmentType]
    /\ codes \subseteq Enrollments \X (1 .. MaxIssue)
    /\ spent \in [Enrollments -> [Steps -> Nat]]
    /\ \A c \in Enrollments : FactorTrue(c)
    /\ \A c, d \in ActiveTotp : c = d
    /\ \A k \in codes : CodeTrue(k)
    /\ SpentTrue

BucketTrue(k) ==
    /\ bucket[k].locked => bucket[k].count >= 1
    /\ (~bucket[k].locked /\ ~bucket[k].elapsed) => bucket[k].count < Threshold

BucketsTrue == bucket \in [Kinds -> BucketType] /\ \A k \in Kinds : BucketTrue(k)

\* A login owns the row it is going to fill.
LoginTrue(r) ==
    req[r].kind = "login" =>
       /\ req[r].session \in Sessions /\ session[req[r].session].state = "none"
       /\ req[r].revision >= 1
       /\ \A q \in Slots :
             (req[q].kind = "login" /\ req[q].session = req[r].session) => q = r

Follows(r) ==
    LET s == req[r].session
    IN  /\ s \in Sessions /\ session[s].state # "none"
        /\ session[s].secret >= req[r].secret
        /\ Unrotated(r) => session[s].revision = req[r].revision

RequestTrue(r) ==
    /\ req[r].kind \notin {"free", "login"} => Follows(r)
    /\ req[r].kind \notin {"free", "login", "enroll"} => req[r].secret < MaxSecret
    /\ req[r].kind \in {"password", "disable"} => req[r].revision < MaxRevision
    /\ req[r].kind \in {"activate", "recover"} => req[r].enrollment \in Enrollments
    /\ req[r].kind = "recover" => req[r].code \in 1 .. MaxIssue

RequestsTrue ==
    /\ req \in [Slots -> RequestType]
    /\ \A r \in Slots : LoginTrue(r) /\ RequestTrue(r)

WebInv == SessionsTrue /\ FactorsTrue /\ BucketsTrue /\ RequestsTrue /\ step \in Steps

-------------------------------------------------------------------------------
(* Sessions and the requests that follow them.                             *)

\* A row is filled once, its secret only grows, and its revision changes with it.
Moves(s) ==
    session[s].state # "none" =>
       /\ session'[s].state # "none" /\ session'[s].secret >= session[s].secret
       /\ session'[s].secret = session[s].secret => session'[s].revision = session[s].revision

SameRequest(q, p) ==
    /\ q.kind = p.kind /\ q.session = p.session /\ q.secret = p.secret
    /\ q.revision = p.revision /\ q.code = p.code /\ q.enrollment = p.enrollment

\* What the requests rely on survives every change of the sessions that keeps "Moves",
\* when no login loses the empty row it owns.
LEMMA RequestsFollow ==
    ASSUME WebConstants, SessionsTrue, SessionsTrue', RequestsTrue,
           req' \in [Slots -> RequestType],
           \A q \in Slots : req'[q].kind = "free" \/ SameRequest(req'[q], req[q]),
           \A s \in Sessions : Moves(s),
           \A q \in Slots : req'[q].kind = "login" => session'[req[q].session].state = "none"
    PROVE  RequestsTrue'
<1>1. ASSUME NEW r \in Slots PROVE LoginTrue(r)'
  <2>1. CASE req'[r].kind = "free"
    BY <2>1 DEF LoginTrue
  <2>2. CASE SameRequest(req'[r], req[r])
    BY <2>2 DEF LoginTrue, SameRequest, RequestsTrue
  <2> QED BY <2>1, <2>2
<1>2. ASSUME NEW r \in Slots PROVE RequestTrue(r)'
  <2>1. CASE req'[r].kind = "free"
    BY <2>1 DEF RequestTrue
  <2>2. CASE SameRequest(req'[r], req[r])
    <3>1. RequestTrue(r)
      BY DEF RequestsTrue
    <3>2. req'[r].kind \notin {"free", "login"} => Follows(r)'
      <4> SUFFICES ASSUME req'[r].kind \notin {"free", "login"} PROVE Follows(r)'
        OBVIOUS
      <4>1. Follows(r)
        BY <2>2, <3>1 DEF RequestTrue, SameRequest
      <4>2. Moves(req[r].session)
        BY <4>1 DEF Follows
      <4>3. session[req[r].session] \in SessionType /\ session'[req[r].session] \in SessionType
        BY <4>1 DEF Follows, SessionsTrue
      <4>4. req[r].secret \in 0 .. MaxSecret
        BY DEF RequestsTrue, RequestType
      <4> QED
        BY <2>2, <4>1, <4>2, <4>3, <4>4
           DEF Follows, Moves, SameRequest, Unrotated, SessionType, WebConstants
    <3> QED BY <2>2, <3>1, <3>2 DEF RequestTrue, SameRequest
  <2> QED BY <2>1, <2>2
<1> QED BY <1>1, <1>2 DEF RequestsTrue

\* A request that is done leaves a free slot; one that goes on only changes its place.
LEMMA SlotStays ==
    ASSUME WebConstants, RequestsTrue, NEW r \in Slots,
           \/ Done(r)
           \/ \E place \in {"apply", "rejected"} : req' = [req EXCEPT ![r].pc = place]
           \/ UNCHANGED req
    PROVE  /\ req' \in [Slots -> RequestType]
           /\ \A q \in Slots : req'[q].kind = "free" \/ SameRequest(req'[q], req[q])
<1>1. Free \in RequestType
  BY DEF Free, RequestType, RequestKinds, NeedsCode, WebConstants
<1>2. req \in [Slots -> RequestType]
  BY DEF RequestsTrue
<1>3. CASE Done(r)
  BY <1>1, <1>2, <1>3 DEF Done, SameRequest, Free
<1>4. ASSUME NEW place \in {"apply", "rejected"}, req' = [req EXCEPT ![r].pc = place]
      PROVE  /\ req' \in [Slots -> RequestType]
             /\ \A q \in Slots : SameRequest(req'[q], req[q])
  <2>1. ASSUME NEW q \in Slots PROVE req'[q] \in RequestType /\ SameRequest(req'[q], req[q])
    <3>1. PICK old \in RequestType : old = req[q]
      BY <1>2
    <3>2. req'[q] = old \/ req'[q] = [old EXCEPT !.pc = place]
      BY <1>2, <1>4, <3>1
    <3>3. [old EXCEPT !.pc = place] \in RequestType /\ SameRequest([old EXCEPT !.pc = place], old)
      BY DEF RequestType, SameRequest
    <3> QED BY <3>1, <3>2, <3>3 DEF SameRequest
  <2> QED BY <1>2, <1>4, <2>1
<1>5. CASE UNCHANGED req
  BY <1>2, <1>5 DEF SameRequest
<1> QED BY <1>3, <1>4, <1>5

\* The same for a request that ends or goes on while no row is filled.
LEMMA RequestsGoOn ==
    ASSUME WebConstants, SessionsTrue, SessionsTrue', RequestsTrue, NEW r \in Slots,
           \A s \in Sessions : Moves(s) /\ (session[s].state = "none" => session'[s].state = "none"),
           \/ Done(r)
           \/ \E place \in {"apply", "rejected"} : req' = [req EXCEPT ![r].pc = place]
           \/ UNCHANGED req
    PROVE  RequestsTrue'
<1>1. /\ req' \in [Slots -> RequestType]
      /\ \A q \in Slots : req'[q].kind = "free" \/ SameRequest(req'[q], req[q])
  BY SlotStays
<1>2. ASSUME NEW q \in Slots, req'[q].kind = "login"
      PROVE  session'[req[q].session].state = "none"
  <2>1. req[q].kind = "login"
    BY <1>1, <1>2 DEF SameRequest
  <2> QED BY <2>1 DEF RequestsTrue, LoginTrue
<1> QED BY <1>1, <1>2, RequestsFollow

\* Sessions that stay move nowhere.
LEMMA SessionsRest ==
    ASSUME SessionsTrue, UNCHANGED session
    PROVE  \A s \in Sessions : Moves(s) /\ (session[s].state = "none" => session'[s].state = "none")
  BY DEF SessionsTrue, SessionType, Moves

LEMMA SessionsStay ==
    ASSUME SessionsTrue, UNCHANGED <<credential, session>> PROVE SessionsTrue'
  BY DEF SessionsTrue, SessionTrue

LEMMA FactorsStay ==
    ASSUME FactorsTrue, UNCHANGED <<totp, codes, spent>> PROVE FactorsTrue'
  BY DEF FactorsTrue, FactorTrue, CodeTrue, SpentTrue, ActiveTotp

LEMMA BucketsStay ==
    ASSUME BucketsTrue, UNCHANGED bucket PROVE BucketsTrue'
  BY DEF BucketsTrue, BucketTrue

-------------------------------------------------------------------------------
(* What a request starts with.                                             *)

LEMMA ResolvedRequest ==
    ASSUME WebConstants, SessionsTrue, step \in Steps, NEW s \in Sessions, Live(s),
           NEW kind \in RequestKinds, NEW pc \in {"verify", "apply", "rejected"}
    PROVE  /\ Resolved(kind, pc, s) \in RequestType
           /\ Resolved(kind, pc, s).kind = kind /\ Resolved(kind, pc, s).session = s
           /\ Resolved(kind, pc, s).secret = session[s].secret
           /\ Resolved(kind, pc, s).revision = session[s].revision
<1>1. Free \in RequestType
  BY DEF Free, RequestType, RequestKinds, NeedsCode, WebConstants
<1>2. PICK free \in RequestType : free = Free
  BY <1>1
<1>3. PICK row \in SessionType : row = session[s]
  BY DEF SessionsTrue
<1>4. row.state \in {"pending_totp", "active", "recovery_limited"}
  BY <1>3 DEF Live, SessionType
<1>5. step \in Nat
  BY DEF Steps, WebConstants
<1> DEFINE request == [free EXCEPT !.kind = kind, !.pc = pc, !.session = s,
                                   !.secret = row.secret, !.revision = row.revision,
                                   !.from = row.state, !.now = step]
<1>6. /\ request \in RequestType
      /\ request.kind = kind /\ request.session = s
      /\ request.secret = row.secret /\ request.revision = row.revision
  BY <1>2, <1>3, <1>4, <1>5 DEF RequestType, SessionType
<1>7. Resolved(kind, pc, s) = request
  BY <1>2, <1>3 DEF Resolved
<1> QED BY <1>3, <1>6, <1>7

\* A request that was resolved to a live row can rely on it.
LEMMA FollowerBegins ==
    ASSUME WebConstants, WebInv, NEW r \in Slots, NEW s \in Sessions, Live(s),
           NEW request \in RequestType, Begin(r, request),
           request.kind \notin {"free", "login"}, request.session = s,
           request.secret = session[s].secret, request.revision = session[s].revision,
           request.kind # "enroll" => CanRotate(s),
           request.kind \in {"password", "disable"} => session[s].revision < MaxRevision,
           request.kind \in {"activate", "recover"} => request.enrollment \in Enrollments,
           request.kind = "recover" => request.code \in 1 .. MaxIssue
    PROVE  WebInv'
<1>1. /\ SessionsTrue /\ FactorsTrue /\ BucketsTrue /\ RequestsTrue /\ step \in Steps
      /\ req' = [req EXCEPT ![r] = request]
      /\ UNCHANGED <<credential, totp, codes, session, bucket, step, spent>>
  BY DEF WebInv, Begin, rows
<1>2. SessionsTrue' /\ FactorsTrue' /\ BucketsTrue' /\ step' \in Steps
  BY <1>1, SessionsStay, FactorsStay, BucketsStay
<1>3. req' \in [Slots -> RequestType] /\ req'[r] = request
      /\ \A q \in Slots : q # r => req'[q] = req[q]
  BY <1>1 DEF RequestsTrue
<1>4. ASSUME NEW q \in Slots PROVE LoginTrue(q)'
  BY <1>1, <1>3 DEF LoginTrue, RequestsTrue
<1>5. ASSUME NEW q \in Slots PROVE RequestTrue(q)'
  <2>1. CASE q = r
    <3>1. session[s].state # "none" /\ session[s].secret \in Nat
      BY <1>1 DEF Live, SessionsTrue, SessionType
    <3>2. Follows(r)'
      BY <1>1, <1>3, <3>1 DEF Follows, Unrotated
    <3> QED BY <1>1, <1>3, <2>1, <3>2 DEF RequestTrue, CanRotate
  <2>2. CASE q # r
    BY <1>1, <1>3, <2>2 DEF RequestTrue, Follows, Unrotated, RequestsTrue
  <2> QED BY <2>1, <2>2
<1> QED BY <1>2, <1>3, <1>4, <1>5 DEF WebInv, RequestsTrue

LEMMA CodeIsNumber == ASSUME WebConstants, step \in Steps PROVE Typed \subseteq Nat
  BY DEF Typed, Steps, WebConstants

LEMMA RequestsKeep ==
    ASSUME WebConstants, WebInv, NEW r \in Slots,
           \/ Reauthenticate(r) \/ PasswordChange(r) \/ FactorRequest(r)
    PROVE  WebInv'
<1>1. SessionsTrue /\ step \in Steps /\ Typed \subseteq Nat
  BY CodeIsNumber DEF WebInv
<1>2. ASSUME NEW s \in Sessions, NEW code \in Typed, NEW kind \in NeedsCode,
             NEW pc \in {"verify", "apply"}, Live(s), CanRotate(s),
             kind = "disable" => session[s].revision < MaxRevision,
             Begin(r, [Resolved(kind, pc, s) EXCEPT !.code = code])
      PROVE  WebInv'
  <2>1. kind \in RequestKinds \ {"free", "login", "password", "activate", "recover"}
    BY DEF RequestKinds, NeedsCode
  <2>2. PICK base \in RequestType :
           /\ base = Resolved(kind, pc, s) /\ base.kind = kind /\ base.session = s
           /\ base.secret = session[s].secret /\ base.revision = session[s].revision
    BY <1>1, <1>2, <2>1, ResolvedRequest
  <2>3. PICK request \in RequestType :
           /\ request = [base EXCEPT !.code = code]
           /\ request.kind = kind /\ request.session = s
           /\ request.secret = session[s].secret /\ request.revision = session[s].revision
    <3>1. [base EXCEPT !.code = code] \in RequestType
      BY <1>1 DEF RequestType
    <3> QED BY <2>2, <3>1 DEF RequestType
  <2> QED BY <1>2, <2>1, <2>2, <2>3, FollowerBegins
<1>3. ASSUME NEW s \in Sessions, NEW kind \in {"password", "enroll"}, Live(s),
             kind = "password" => CanRotate(s) /\ session[s].revision < MaxRevision,
             Begin(r, Resolved(kind, "apply", s))
      PROVE  WebInv'
  <2>1. kind \in RequestKinds
    BY DEF RequestKinds
  <2>2. PICK base \in RequestType :
           /\ base = Resolved(kind, "apply", s) /\ base.kind = kind /\ base.session = s
           /\ base.secret = session[s].secret /\ base.revision = session[s].revision
    BY <1>1, <1>3, <2>1, ResolvedRequest
  <2> QED BY <1>3, <2>2, FollowerBegins
<1>4. ASSUME NEW s \in Sessions, NEW kind \in {"activate", "recover"},
             NEW pc \in {"apply", "rejected"}, Live(s), CanRotate(s),
             NEW code \in Nat, NEW c \in Enrollments, kind = "recover" => code \in 1 .. MaxIssue,
             Begin(r, [Resolved(kind, pc, s) EXCEPT !.code = code, !.enrollment = c])
      PROVE  WebInv'
  <2>1. kind \in RequestKinds
    BY DEF RequestKinds
  <2>2. PICK base \in RequestType :
           /\ base = Resolved(kind, pc, s) /\ base.kind = kind /\ base.session = s
           /\ base.secret = session[s].secret /\ base.revision = session[s].revision
    BY <1>1, <1>4, <2>1, ResolvedRequest
  <2>3. PICK request \in RequestType :
           /\ request = [base EXCEPT !.code = code, !.enrollment = c]
           /\ request.kind = kind /\ request.session = s /\ request.enrollment = c
           /\ request.code = code
           /\ request.secret = session[s].secret /\ request.revision = session[s].revision
    <3>1. [base EXCEPT !.code = code, !.enrollment = c] \in RequestType
      BY DEF RequestType
    <3> QED BY <2>2, <3>1 DEF RequestType
  <2> QED BY <1>4, <2>2, <2>3, FollowerBegins
<1>5. ASSUME NEW s \in Sessions, Authenticated(s)
      PROVE  Live(s) /\ session[s].revision = credential.revision
  BY <1>5 DEF Authenticated
<1>6. ASSUME NEW s \in Sessions, ChallengeEligible(s) PROVE Live(s)
  BY <1>6 DEF ChallengeEligible
<1>7. CASE Reauthenticate(r)
  <2>1. PICK s \in Sessions, code \in Typed :
           /\ Authenticated(s) /\ CanRotate(s)
           /\ Begin(r, [Resolved("reauthenticate", IF HasActiveTotp THEN "verify" ELSE "apply", s)
                           EXCEPT !.code = code])
    BY <1>7 DEF Reauthenticate
  <2>2. "reauthenticate" \in NeedsCode
    BY DEF NeedsCode
  <2> QED BY <1>2, <1>5, <2>1, <2>2
<1>8. CASE PasswordChange(r)
  BY <1>3, <1>5, <1>8 DEF PasswordChange
<1>9. CASE Challenge(r)
  BY <1>2, <1>6, <1>9 DEF Challenge, NeedsCode
<1>10. CASE StartEnrollment(r)
  BY <1>3, <1>6, <1>10 DEF StartEnrollment
<1>11. CASE VerifyEnrollment(r)
  BY <1>1, <1>4, <1>6, <1>11 DEF VerifyEnrollment
<1>12. CASE Recover(r)
  <2>1. PICK s \in Sessions, code \in Enrollments \X (1 .. MaxIssue), right \in BOOLEAN :
           /\ ChallengeEligible(s) /\ CanRotate(s)
           /\ Begin(r, [Resolved("recover", IF right THEN "apply" ELSE "rejected", s)
                           EXCEPT !.enrollment = code[1], !.code = code[2]])
    BY <1>12 DEF Recover
  <2>2. code[1] \in Enrollments /\ code[2] \in 1 .. MaxIssue /\ code[2] \in Nat
    BY <2>1 DEF WebConstants
  <2>3. Resolved("recover", IF right THEN "apply" ELSE "rejected", s) \in RequestType
    BY <1>1, <1>6, <2>1, ResolvedRequest DEF RequestKinds
  <2>4. PICK base \in RequestType :
           base = Resolved("recover", IF right THEN "apply" ELSE "rejected", s)
    BY <2>3
  <2>5. [base EXCEPT !.enrollment = code[1], !.code = code[2]]
           = [base EXCEPT !.code = code[2], !.enrollment = code[1]]
    BY DEF RequestType
  <2> QED BY <1>4, <1>6, <2>1, <2>2, <2>4, <2>5
<1>13. CASE Regenerate(r)
  BY <1>2, <1>5, <1>13 DEF Regenerate, Prove, NeedsCode
<1>14. CASE Disable(r)
  BY <1>2, <1>5, <1>14 DEF Disable, Prove, NeedsCode
<1> QED BY <1>7, <1>8, <1>9, <1>10, <1>11, <1>12, <1>13, <1>14 DEF FactorRequest

\* A login remembers the revision its password was checked against, and its row is its own.
LEMMA LoginKeeps ==
    ASSUME WebConstants, WebInv, NEW r \in Slots, Login(r) PROVE WebInv'
<1>1. PICK s \in Sessions, pc \in {"commit", "failed"} :
         /\ credential.revision > 0 /\ session[s].state = "none"
         /\ \A q \in Slots : req[q].kind = "login" => req[q].session # s
         /\ Begin(r, [Free EXCEPT !.kind = "login", !.session = s,
                                  !.revision = credential.revision, !.pc = pc])
  <2>1. PICK s \in Sessions, password \in {0, credential.password} :
           /\ session[s].state = "none"
           /\ \A q \in Slots : req[q].kind = "login" => req[q].session # s
           /\ Begin(r, [Free EXCEPT !.kind = "login", !.session = s,
                                    !.revision = credential.revision,
                                    !.pc = IF password = credential.password THEN "commit"
                                           ELSE "failed"])
    BY DEF Login
  <2>2. credential.revision > 0
    BY DEF Login
  <2>3. (IF password = credential.password THEN "commit" ELSE "failed") \in {"commit", "failed"}
    OBVIOUS
  <2> QED BY <2>1, <2>2, <2>3
<1>2. Free \in RequestType
  BY DEF Free, RequestType, RequestKinds, NeedsCode, WebConstants
<1>3. PICK free \in RequestType : free = Free
  BY <1>2
<1>4. PICK revision \in 0 .. MaxRevision : revision = credential.revision
  BY DEF WebInv, SessionsTrue
<1> DEFINE request == [free EXCEPT !.kind = "login", !.session = s, !.revision = revision,
                                   !.pc = pc]
<1>5. /\ request \in RequestType
      /\ request.kind = "login" /\ request.session = s /\ request.revision = revision
  BY DEF RequestType, RequestKinds
<1>6. /\ SessionsTrue /\ FactorsTrue /\ BucketsTrue /\ RequestsTrue /\ step \in Steps
      /\ req' = [req EXCEPT ![r] = request]
      /\ UNCHANGED <<credential, totp, codes, session, bucket, step, spent>>
  BY <1>1, <1>3, <1>4 DEF WebInv, Begin, rows
<1>7. SessionsTrue' /\ FactorsTrue' /\ BucketsTrue' /\ step' \in Steps
  BY <1>6, SessionsStay, FactorsStay, BucketsStay
<1>8. req' \in [Slots -> RequestType] /\ req'[r] = request
      /\ \A q \in Slots : q # r => req'[q] = req[q]
  BY <1>5, <1>6 DEF RequestsTrue
<1> HIDE DEF request
<1>9. ASSUME NEW q \in Slots PROVE LoginTrue(q)'
  BY <1>1, <1>4, <1>5, <1>6, <1>8 DEF LoginTrue, RequestsTrue
<1>10. ASSUME NEW q \in Slots PROVE RequestTrue(q)'
  BY <1>5, <1>6, <1>8 DEF RequestTrue, Follows, Unrotated, RequestsTrue
<1> QED BY <1>7, <1>8, <1>9, <1>10 DEF WebInv, RequestsTrue
-------------------------------------------------------------------------------
(* Rows.                                                                   *)

LEMMA RevokedRow ==
    ASSUME NEW row \in SessionType
    PROVE  /\ Revoked(row) \in SessionType
           /\ Revoked(row).state = "revoked" /\ Revoked(row).secret = row.secret
           /\ Revoked(row).revision = row.revision
           /\ SessionRow(row) => SessionRow(Revoked(row))
  BY DEF Revoked, SessionType, SessionRow

LEMMA RotatedRow ==
    ASSUME WebConstants, NEW row \in SessionType, row.secret < MaxSecret
    PROVE  /\ Rotated(row) \in SessionType
           /\ Rotated(row).state = row.state /\ Rotated(row).secret = row.secret + 1
           /\ Rotated(row).revision = row.revision /\ Rotated(row).method = row.method
           /\ Rotated(row).authenticated = row.authenticated
           /\ Rotated(row).reauthenticated = row.reauthenticated
  BY DEF Rotated, SessionType, WebConstants

LEMMA ReplacedRow ==
    ASSUME NEW row \in EnrollmentType, EnrollmentRow(row), row.state \in {"pending", "active"}
    PROVE  /\ Replaced(row) \in EnrollmentType /\ Replaced(row).state = "replaced"
           /\ Replaced(row).last = row.last /\ Replaced(row).issue = row.issue
           /\ EnrollmentRow(Replaced(row))
  BY DEF Replaced, EnrollmentType, EnrollmentRow

\* A failure that is counted locks the bucket at the threshold, and never counts past it.
LEMMA BucketsKeep ==
    ASSUME WebConstants, BucketsTrue, NEW k \in Kinds, RecordFailure(k) \/ ResetBucket(k)
    PROVE  BucketsTrue'
<1>1. PICK old \in BucketType : old = bucket[k]
  BY DEF BucketsTrue
<1> DEFINE good(b) == /\ b \in BucketType
                      /\ b.locked => b.count >= 1
                      /\ (~b.locked /\ ~b.elapsed) => b.count < Threshold
<1>2. good(NoBucket)
  BY DEF NoBucket, BucketType, WebConstants
<1>3. good(old)
  BY <1>1 DEF BucketsTrue, BucketTrue
<1>4. good(NextFailure(old))
  <2>1. CASE old.elapsed
    <3>1. NextFailure(old) = [count |-> 1, elapsed |-> FALSE, locked |-> FALSE]
      BY <2>1 DEF NextFailure
    <3> QED BY <3>1 DEF BucketType, WebConstants
  <2>2. CASE ~old.elapsed /\ old.locked
    <3>1. NextFailure(old) = old
      BY <2>2 DEF NextFailure
    <3> QED BY <1>3, <3>1
  <2>3. CASE ~old.elapsed /\ ~old.locked
    <3>1. NextFailure(old) = [old EXCEPT !.count = @ + 1, !.locked = old.count + 1 >= Threshold]
      BY <2>3 DEF NextFailure
    <3>2. old.count < Threshold /\ old.count \in Nat
      BY <1>3, <2>3 DEF BucketType, WebConstants
    <3>3. PICK count \in 0 .. Threshold : count = old.count + 1
      BY <3>2 DEF WebConstants
    <3>4. ASSUME NEW locked \in BOOLEAN, locked <=> count >= Threshold,
                 NextFailure(old) = [old EXCEPT !.count = count, !.locked = locked]
          PROVE  good(NextFailure(old))
      <4>1. PICK next \in BucketType : next = [old EXCEPT !.count = count, !.locked = locked]
        BY DEF BucketType
      <4>2. next.count = count /\ next.locked = locked
        BY <4>1 DEF BucketType
      <4> QED BY <3>2, <3>3, <3>4, <4>1, <4>2 DEF WebConstants
    <3>5. CASE count >= Threshold
      <4>1. (old.count + 1 >= Threshold) = TRUE
        BY <3>3, <3>5
      <4>2. NextFailure(old) = [old EXCEPT !.count = count, !.locked = TRUE]
        BY <3>1, <3>3, <4>1
      <4> QED BY <3>4, <3>5, <4>2
    <3>6. CASE ~(count >= Threshold)
      <4>1. (old.count + 1 >= Threshold) = FALSE
        BY <3>3, <3>6
      <4>2. NextFailure(old) = [old EXCEPT !.count = count, !.locked = FALSE]
        BY <3>1, <3>3, <4>1
      <4> QED BY <3>4, <3>6, <4>2
    <3> QED BY <3>5, <3>6
  <2> QED BY <2>1, <2>2, <2>3 DEF BucketType
<1>5. PICK new : bucket' = [bucket EXCEPT ![k] = new] /\ good(new)
  BY <1>1, <1>2, <1>4 DEF RecordFailure, ResetBucket
<1> QED BY <1>5 DEF BucketsTrue, BucketTrue

\* The row of one session is filled anew, the others stay.
LEMMA OneSessionMoves ==
    ASSUME WebConstants, SessionsTrue, NEW s \in Sessions, NEW row \in SessionType,
           UNCHANGED credential, session' = [session EXCEPT ![s] = row],
           SessionRow(row), row.state # "none",
           row.state # "revoked" => row.revision = credential.revision
    PROVE  SessionsTrue'
  BY DEF SessionsTrue, SessionTrue

\* One session changes its secret, and the others of the old revision are revoked.
LEMMA OthersRevoked ==
    ASSUME WebConstants, SessionsTrue, NEW s \in Sessions, NEW row \in SessionType,
           session[s].state \notin {"none", "revoked"},
           row.state = session[s].state, row.secret = session[s].secret + 1,
           SessionRow(row), row.revision = credential.revision + 1,
           credential.revision < MaxRevision,
           credential'.revision = credential.revision + 1,
           credential' \in [revision : Nat, password : Nat],
           credential'.password <= credential'.revision,
           session' = [RevokeOthers(s) EXCEPT ![s] = row]
    PROVE  /\ SessionsTrue'
           /\ \A t \in Sessions :
                 Moves(t) /\ (session[t].state = "none" => session'[t].state = "none")
<1>1. /\ session \in [Sessions -> SessionType]
      /\ credential \in [revision : 0 .. MaxRevision, password : 0 .. MaxRevision]
      /\ \A t \in Sessions : SessionTrue(t)
  BY DEF SessionsTrue
<1>2. session'[s] = row
  BY DEF RevokeOthers
<1>3. ASSUME NEW t \in Sessions, t # s
      PROVE  /\ session'[t] \in SessionType
             /\ SessionTrue(t)'
             /\ session'[t].secret = session[t].secret /\ session'[t].revision = session[t].revision
             /\ session'[t].state = "none" <=> session[t].state = "none"
  <2>1. session'[t] = IF session[t].state \notin {"none", "revoked"} THEN Revoked(session[t])
                      ELSE session[t]
    BY <1>3 DEF RevokeOthers
  <2> QED BY <1>1, <2>1, RevokedRow DEF SessionTrue
<1>4. session' \in [Sessions -> SessionType]
  <2>1. session' = [t \in Sessions |-> session'[t]]
    BY DEF RevokeOthers
  <2>2. \A t \in Sessions : session'[t] \in SessionType
    BY <1>2, <1>3
  <2> QED BY <2>1, <2>2
<1>5. credential' \in [revision : 0 .. MaxRevision, password : 0 .. MaxRevision]
  BY <1>1 DEF WebConstants
<1>6. \A t \in Sessions : SessionTrue(t)'
  <2>1. SessionTrue(s)'
    BY <1>2 DEF SessionTrue
  <2> QED BY <1>3, <2>1
<1>7. \A t \in Sessions : Moves(t) /\ (session[t].state = "none" => session'[t].state = "none")
  <2> SUFFICES ASSUME NEW t \in Sessions
               PROVE  Moves(t) /\ (session[t].state = "none" => session'[t].state = "none")
    OBVIOUS
  <2>1. session[t].secret \in Nat
    BY <1>1 DEF SessionType
  <2>2. CASE t = s
    BY <1>2, <2>1, <2>2 DEF Moves
  <2>3. CASE t # s
    BY <1>3, <2>1, <2>3 DEF Moves
  <2> QED BY <2>2, <2>3
<1> QED BY <1>4, <1>5, <1>6, <1>7 DEF SessionsTrue
-------------------------------------------------------------------------------
(* Login, failures and logout.                                             *)

LEMMA FailureKeeps ==
    ASSUME WebConstants, WebInv, NEW r \in Slots, RecordLoginFailure(r) \/ RecordCodeFailure(r)
    PROVE  WebInv'
<1>1. PICK k \in Kinds : RecordFailure(k) /\ Done(r)
  BY DEF RecordLoginFailure, RecordCodeFailure, Kinds
<1>2. UNCHANGED <<credential, totp, codes, session, step, spent>>
  BY DEF RecordLoginFailure, RecordCodeFailure, rows
<1>3. SessionsTrue' /\ FactorsTrue' /\ BucketsTrue'
  BY <1>1, <1>2, SessionsStay, FactorsStay, BucketsKeep DEF WebInv
<1>4. RequestsTrue'
  <2>1. \A s \in Sessions : Moves(s) /\ (session[s].state = "none" => session'[s].state = "none")
    BY <1>2, SessionsRest DEF WebInv
  <2> QED BY <1>1, <1>3, <2>1, RequestsGoOn DEF WebInv
<1> QED BY <1>2, <1>3, <1>4 DEF WebInv

LEMMA CommitLoginKeeps ==
    ASSUME WebConstants, WebInv, NEW r \in Slots, CommitLoginSuccess(r) PROVE WebInv'
<1> DEFINE s == req[r].session
<1>1. /\ req[r].kind = "login" /\ Done(r)
      /\ UNCHANGED <<credential, totp, codes, step, spent>>
  BY DEF CommitLoginSuccess, rows
<1>2. SessionsTrue /\ FactorsTrue /\ BucketsTrue /\ RequestsTrue /\ LoginTrue(r)
  BY DEF WebInv, RequestsTrue
<1>3. FactorsTrue'
  BY <1>1, <1>2, FactorsStay
<1>4. CASE ~MaterialCurrent(r)
  <2>1. UNCHANGED <<session, bucket>>
    BY <1>4 DEF CommitLoginSuccess, rows
  <2>2. SessionsTrue' /\ BucketsTrue'
    BY <1>1, <1>2, <2>1, SessionsStay, BucketsStay
  <2>3. \A t \in Sessions : Moves(t) /\ (session[t].state = "none" => session'[t].state = "none")
    BY <1>2, <2>1, SessionsRest
  <2>4. RequestsTrue'
    BY <1>1, <1>2, <2>2, <2>3, RequestsGoOn
  <2> QED BY <1>1, <1>2, <1>3, <2>2, <2>4 DEF WebInv
<1>5. CASE MaterialCurrent(r)
  <2>1. PICK row : /\ row = [state |-> FirstState,
                             revision |-> req[r].revision, secret |-> 1, method |-> "password",
                             recent |-> ~HasActiveTotp, expired |-> FALSE,
                             authenticated |-> FirstState = "active", reauthenticated |-> FALSE]
                   /\ session' = [session EXCEPT ![s] = row] /\ ResetBucket("login")
    BY <1>5 DEF CommitLoginSuccess
  <2>2. /\ s \in Sessions /\ session[s].state = "none"
        /\ req[r].revision >= 1 /\ req[r].revision = credential.revision
        /\ req[r].revision \in 0 .. MaxRevision
    BY <1>1, <1>2, <1>5 DEF LoginTrue, MaterialCurrent, RequestsTrue, RequestType
  <2>3. /\ row \in SessionType /\ SessionRow(row) /\ row.state # "none"
        /\ row.revision = credential.revision
    <3>1. PICK first \in {"pending_totp", "active"} : first = FirstState
      BY DEF FirstState
    <3>2. PICK recent \in BOOLEAN : recent = ~HasActiveTotp
      OBVIOUS
    <3>3. PICK authenticated \in BOOLEAN : authenticated = (first = "active")
      OBVIOUS
    <3>4. row = [state |-> first, revision |-> req[r].revision, secret |-> 1,
                 method |-> "password", recent |-> recent, expired |-> FALSE,
                 authenticated |-> authenticated, reauthenticated |-> FALSE]
      BY <2>1, <3>1, <3>2, <3>3
    <3>5. 1 \in 0 .. MaxSecret
      BY DEF WebConstants
    <3> QED BY <2>2, <3>1, <3>3, <3>4, <3>5 DEF SessionType, SessionRow
  <2>4. SessionsTrue'
    BY <1>1, <1>2, <2>1, <2>2, <2>3, OneSessionMoves
  <2>5. BucketsTrue'
    BY <1>2, <2>1, BucketsKeep DEF Kinds
  <2>6. /\ req' \in [Slots -> RequestType]
        /\ \A q \in Slots : req'[q].kind = "free" \/ SameRequest(req'[q], req[q])
    BY <1>1, <1>2, SlotStays
  <2>7. \A t \in Sessions : Moves(t)
    <3> SUFFICES ASSUME NEW t \in Sessions PROVE Moves(t)
      OBVIOUS
    <3>1. session \in [Sessions -> SessionType] /\ session[t].secret \in Nat
      BY <1>2 DEF SessionsTrue, SessionType
    <3>2. CASE t = s
      BY <2>2, <3>2 DEF Moves
    <3>3. CASE t # s
      <4>1. session'[t] = session[t]
        BY <2>1, <3>1, <3>3
      <4> QED BY <3>1, <4>1 DEF Moves
    <3> QED BY <3>2, <3>3
  <2>8. ASSUME NEW q \in Slots, req'[q].kind = "login"
        PROVE  session'[req[q].session].state = "none"
    <3>1. q # r
      BY <1>1, <1>2, <2>8 DEF Done, Free, RequestsTrue
    <3>2. req[q].kind = "login"
      BY <2>6, <2>8 DEF SameRequest
    <3>3. LoginTrue(q)
      BY <1>2 DEF RequestsTrue
    <3>4. req[q].session # s /\ req[q].session \in Sessions /\ session[req[q].session].state = "none"
      BY <1>1, <1>2, <3>1, <3>2, <3>3 DEF LoginTrue
    <3> QED BY <1>2, <2>1, <3>4 DEF SessionsTrue
  <2>9. RequestsTrue'
    BY <1>2, <2>4, <2>6, <2>7, <2>8, RequestsFollow
  <2> QED BY <1>1, <1>3, <2>4, <2>5, <2>9 DEF WebInv
<1> QED BY <1>4, <1>5

\* A session changes in a way of its own while nothing else does.
LEMMA AloneKeeps ==
    ASSUME WebConstants, WebInv, NEW s \in Sessions, NEW row \in SessionType,
           session[s].state # "none", row.state \in {session[s].state, "revoked"},
           row.secret = session[s].secret, row.revision = session[s].revision,
           SessionRow(row), session' = [session EXCEPT ![s] = row],
           UNCHANGED <<credential, totp, codes, bucket, step, req, spent>>
    PROVE  WebInv'
<1>1. SessionsTrue /\ SessionTrue(s) /\ session \in [Sessions -> SessionType]
  BY DEF WebInv, SessionsTrue
<1>2. SessionsTrue'
  BY <1>1, OneSessionMoves DEF SessionTrue
<1>3. \A t \in Sessions : Moves(t) /\ (session[t].state = "none" => session'[t].state = "none")
  <2> SUFFICES ASSUME NEW t \in Sessions
               PROVE  Moves(t) /\ (session[t].state = "none" => session'[t].state = "none")
    OBVIOUS
  <2>1. session[t].secret \in Nat
    BY <1>1 DEF SessionType
  <2>2. session'[t] = IF t = s THEN row ELSE session[t]
    BY <1>1
  <2> QED BY <2>1, <2>2 DEF Moves
<1>4. RequestsTrue'
  <2>1. ASSUME NEW r \in Slots PROVE RequestsTrue'
    BY <1>1, <1>2, <1>3, RequestsGoOn DEF WebInv
  <2>2. CASE Slots = {}
    BY <2>2 DEF RequestsTrue, WebInv
  <2> QED BY <2>1, <2>2
<1> QED BY <1>2, <1>4, FactorsStay, BucketsStay DEF WebInv

LEMMA LogoutKeeps ==
    ASSUME WebConstants, WebInv, NEW s \in Sessions, Logout(s) PROVE WebInv'
<1>1. session[s] \in SessionType /\ SessionTrue(s) /\ session[s].state # "none"
  BY DEF WebInv, SessionsTrue, Logout
<1>2. session' = [session EXCEPT ![s] = Revoked(session[s])]
  BY DEF Logout
<1>3. UNCHANGED <<credential, totp, codes, bucket, step, req, spent>>
  BY DEF Logout
<1> QED BY <1>1, <1>2, <1>3, RevokedRow, AloneKeeps DEF SessionTrue

LEMMA SessionTimeKeeps ==
    ASSUME WebConstants, WebInv, NEW s \in Sessions, SessionExpires(s) \/ RecentEnds(s)
    PROVE  WebInv'
<1>1. UNCHANGED <<credential, totp, codes, bucket, step, req, spent>>
  BY DEF SessionExpires, RecentEnds
<1>2. PICK old \in SessionType : old = session[s]
  BY DEF WebInv, SessionsTrue
<1>3. SessionTrue(s)
  BY DEF WebInv, SessionsTrue
<1>4. CASE SessionExpires(s)
  <2>1. session' = [session EXCEPT ![s] = [old EXCEPT !.expired = TRUE]] /\ old.state # "none"
    BY <1>2, <1>4 DEF SessionExpires, Live, WebInv, SessionsTrue
  <2>2. /\ [old EXCEPT !.expired = TRUE] \in SessionType
        /\ SessionRow(old) => SessionRow([old EXCEPT !.expired = TRUE])
    BY DEF SessionType, SessionRow
  <2>3. PICK row \in SessionType : row = [old EXCEPT !.expired = TRUE]
    BY <2>2
  <2>4. row.state = old.state /\ row.secret = old.secret /\ row.revision = old.revision
    BY <2>3 DEF SessionType
  <2> QED BY <1>1, <1>2, <1>3, <2>1, <2>2, <2>3, <2>4, AloneKeeps DEF SessionTrue
<1>5. CASE RecentEnds(s)
  <2>1. session' = [session EXCEPT ![s] = [old EXCEPT !.recent = FALSE]] /\ old.recent
    BY <1>2, <1>5 DEF RecentEnds, WebInv, SessionsTrue
  <2>2. /\ [old EXCEPT !.recent = FALSE] \in SessionType
        /\ SessionRow(old) => SessionRow([old EXCEPT !.recent = FALSE])
    BY DEF SessionType, SessionRow
  <2>3. PICK row \in SessionType : row = [old EXCEPT !.recent = FALSE]
    BY <2>2
  <2>4. row.state = old.state /\ row.secret = old.secret /\ row.revision = old.revision
    BY <2>3 DEF SessionType
  <2>5. CASE old.state # "none"
    BY <1>1, <1>2, <1>3, <2>1, <2>2, <2>3, <2>4, <2>5, AloneKeeps DEF SessionTrue
  <2>6. CASE old.state = "none"
    BY <1>2, <1>3, <2>1, <2>6 DEF SessionTrue
  <2> QED BY <2>5, <2>6
<1> QED BY <1>4, <1>5
-------------------------------------------------------------------------------
(* One-time codes and changes of the session.                              *)

\* One active factor: what one of them accepts, all of them accept.
LEMMA VerifyKeeps ==
    ASSUME WebConstants, WebInv, NEW r \in Slots, VerifyTotp(r) PROVE WebInv'
<1>1. /\ SessionsTrue /\ FactorsTrue /\ BucketsTrue /\ RequestsTrue
      /\ UNCHANGED <<credential, codes, session, step>>
  BY DEF WebInv, VerifyTotp
<1>2. SessionsTrue'
  BY <1>1, SessionsStay
<1>3. \A s \in Sessions : Moves(s) /\ (session[s].state = "none" => session'[s].state = "none")
  BY <1>1, SessionsRest
<1>4. CASE UNCHANGED <<totp, spent, bucket>> /\ req' = [req EXCEPT ![r].pc = "rejected"]
  <2>1. RequestsTrue'
    BY <1>1, <1>2, <1>3, <1>4, RequestsGoOn
  <2> QED BY <1>1, <1>2, <1>4, <2>1, FactorsStay, BucketsStay DEF WebInv
<1>5. ASSUME NEW c \in ActiveTotp, req[r].code \in Steps, Accepts(c, req[r].code, req[r].now),
             totp' = [totp EXCEPT ![c].last = req[r].code], Spend(c, req[r].code),
             ResetBucket("totp"), req' = [req EXCEPT ![r].pc = "apply"]
      PROVE  WebInv'
  <2>1. PICK code \in Steps : code = req[r].code /\ code > totp[c].last
    BY <1>5 DEF Accepts
  <2>2. RequestsTrue'
    BY <1>1, <1>2, <1>3, <1>5, RequestsGoOn
  <2>3. BucketsTrue'
    BY <1>1, <1>5, BucketsKeep DEF Kinds
  <2>4. PICK old \in EnrollmentType : old = totp[c] /\ old.state = "active"
    BY <1>1 DEF FactorsTrue, ActiveTotp
  <2>5. code \in Nat /\ code \in 1 .. MaxStep /\ code \in 0 .. MaxStep
    BY DEF Steps, WebConstants
  <2>6. PICK new \in EnrollmentType : new = [old EXCEPT !.last = code]
    BY <2>5 DEF EnrollmentType
  <2>7. /\ new.state = "active" /\ new.last = code /\ new.issue = old.issue
        /\ EnrollmentRow(old) => EnrollmentRow(new)
    BY <2>4, <2>6 DEF EnrollmentType, EnrollmentRow
  <2>8. totp' = [totp EXCEPT ![c] = new] /\ c \in Enrollments
    BY <1>1, <1>5, <2>1, <2>4, <2>6 DEF FactorsTrue, ActiveTotp
  <2>9. FactorsTrue'
    <3>1. totp' \in [Enrollments -> EnrollmentType]
      BY <1>1, <2>8 DEF FactorsTrue
    <3>2. \A d \in Enrollments : totp'[d].state = totp[d].state /\ totp'[d].issue = totp[d].issue
      BY <1>1, <2>4, <2>7, <2>8 DEF FactorsTrue
    <3>3. \A d \in Enrollments : FactorTrue(d)'
      BY <1>1, <2>4, <2>7, <2>8 DEF FactorsTrue, FactorTrue
    <3>4. \A d, e \in ActiveTotp' : d = e
      BY <1>1, <3>2 DEF FactorsTrue, ActiveTotp
    <3>5. \A k \in codes' : CodeTrue(k)'
      BY <1>1, <3>2 DEF FactorsTrue, CodeTrue
    <3>6. spent' = [spent EXCEPT ![c][code] = @ + 1]
      BY <1>5, <2>1 DEF Spend
    <3>7. spent[c][code] = 0
      <4>1. spent[c][code] \in Nat /\ spent[c][code] <= 1 /\ spent[c][code] # 1
        BY <1>1, <2>1, <2>4, <2>5, <2>8 DEF FactorsTrue, SpentTrue, EnrollmentType, WebConstants
      <4> QED BY <4>1
    <3>8. spent' \in [Enrollments -> [Steps -> Nat]]
      BY <1>1, <2>8, <3>6 DEF FactorsTrue
    <3>9. SpentTrue'
      <4> SUFFICES ASSUME NEW d \in Enrollments, NEW n \in Steps
                   PROVE  spent'[d][n] <= 1 /\ (spent'[d][n] = 1 => n <= totp'[d].last)
        BY DEF SpentTrue
      <4>1. spent[d][n] <= 1 /\ (spent[d][n] = 1 => n <= totp[d].last)
        BY <1>1 DEF FactorsTrue, SpentTrue
      <4>2. spent'[d][n] = IF d = c /\ n = code THEN 1 ELSE spent[d][n]
        BY <1>1, <3>6, <3>7 DEF FactorsTrue
      <4>3. totp'[d] = IF d = c THEN new ELSE totp[d]
        BY <1>1, <2>8 DEF FactorsTrue
      <4>4. n \in Nat /\ old.last \in Nat
        BY <2>4 DEF Steps, EnrollmentType, WebConstants
      <4> QED BY <2>1, <2>4, <2>5, <2>7, <4>1, <4>2, <4>3, <4>4
    <3> QED BY <1>1, <3>1, <3>3, <3>4, <3>5, <3>8, <3>9 DEF FactorsTrue
  <2> QED BY <1>1, <1>2, <2>2, <2>3, <2>9 DEF WebInv
<1>6. ASSUME NEW c \in ActiveTotp, \E d \in ActiveTotp : req[r].code \in Steps /\ Accepts(d, req[r].code, req[r].now)
      PROVE  req[r].code \in Steps /\ Accepts(c, req[r].code, req[r].now)
  BY <1>1, <1>6 DEF FactorsTrue
<1> QED BY <1>4, <1>5, <1>6 DEF VerifyTotp

\* One session is filled anew by a request that still follows it.
LEMMA RotationKeeps ==
    ASSUME WebConstants, WebInv, NEW s \in Sessions, NEW row \in SessionType,
           NEW r \in Slots, Done(r), session[s].state \notin {"none", "revoked"},
           row.state # "none", row.secret = session[s].secret + 1,
           row.revision = session[s].revision,
           SessionRow(row), session' = [session EXCEPT ![s] = row], UNCHANGED credential
    PROVE  SessionsTrue' /\ RequestsTrue'
<1>1. SessionsTrue /\ SessionTrue(s) /\ session \in [Sessions -> SessionType]
  BY DEF WebInv, SessionsTrue
<1>2. SessionsTrue'
  BY <1>1, OneSessionMoves DEF SessionTrue
<1>3. \A t \in Sessions : Moves(t) /\ (session[t].state = "none" => session'[t].state = "none")
  <2> SUFFICES ASSUME NEW t \in Sessions
               PROVE  Moves(t) /\ (session[t].state = "none" => session'[t].state = "none")
    OBVIOUS
  <2>1. session[t].secret \in Nat
    BY <1>1 DEF SessionType
  <2>2. session'[t] = IF t = s THEN row ELSE session[t]
    BY <1>1
  <2> QED BY <2>1, <2>2 DEF Moves
<1> QED BY <1>1, <1>2, <1>3, RequestsGoOn DEF WebInv

\* Nothing happens to the sessions while a request ends or goes on.
LEMMA StandStill ==
    ASSUME WebConstants, WebInv, NEW r \in Slots, UNCHANGED <<credential, session>>,
           \/ Done(r)
           \/ \E place \in {"apply", "rejected"} : req' = [req EXCEPT ![r].pc = place]
           \/ UNCHANGED req
    PROVE  SessionsTrue' /\ RequestsTrue'
<1>1. SessionsTrue'
  BY SessionsStay DEF WebInv
<1>2. \A s \in Sessions : Moves(s) /\ (session[s].state = "none" => session'[s].state = "none")
  BY SessionsRest DEF WebInv
<1> QED BY <1>1, <1>2, RequestsGoOn DEF WebInv

\* What a request that has followed its session can still rotate.
LEMMA FollowedRow ==
    ASSUME WebConstants, WebInv, NEW r \in Slots,
           req[r].kind \notin {"free", "login", "enroll"}, Unrotated(r)
    PROVE  /\ req[r].session \in Sessions /\ session[req[r].session] \in SessionType
           /\ session[req[r].session].secret < MaxSecret
           /\ session[req[r].session].state # "none"
           /\ SessionTrue(req[r].session)
           /\ session[req[r].session].revision = req[r].revision
<1>1. RequestTrue(r) /\ SessionsTrue
  BY DEF WebInv, RequestsTrue
<1>2. Follows(r) /\ req[r].secret < MaxSecret
  BY <1>1 DEF RequestTrue
<1> QED BY <1>1, <1>2 DEF Follows, Unrotated, SessionsTrue

LEMMA RotateKeeps ==
    ASSUME WebConstants, WebInv, NEW r \in Slots, RotateSessionSecrets(r) PROVE WebInv'
<1> DEFINE s == req[r].session
<1>1. /\ req[r].kind \in {"challenge", "reauthenticate"} /\ Done(r)
      /\ UNCHANGED <<credential, totp, codes, bucket, step, spent>>
  BY DEF RotateSessionSecrets
<1>2. FactorsTrue' /\ BucketsTrue' /\ step' \in Steps
  BY <1>1, FactorsStay, BucketsStay DEF WebInv
<1>3. CASE SourceState(r) /\ Unrotated(r)
  <2>1. /\ s \in Sessions /\ session[s] \in SessionType /\ session[s].secret < MaxSecret
        /\ SessionTrue(s) /\ session[s].state \in {"pending_totp", "active"}
    BY <1>1, <1>3, FollowedRow DEF SourceState
  <2>2. PICK old \in SessionType : old = session[s]
    BY <2>1
  <2>3. PICK new \in SessionType :
           /\ new = Rotated(old) /\ new.secret = old.secret + 1
           /\ new.revision = old.revision /\ new.method = old.method
    BY <2>1, <2>2, RotatedRow
  <2> DEFINE row == [new EXCEPT !.state = "active", !.recent = TRUE, !.authenticated = TRUE,
                                !.reauthenticated = req[r].kind = "reauthenticate",
                                !.method = IF req[r].kind = "challenge" THEN "totp" ELSE new.method]
  <2>4. session' = [session EXCEPT ![s] = row]
    <3>1. session' = [session EXCEPT ![s] = [Rotated(session[s]) EXCEPT
                         !.state = "active", !.recent = TRUE, !.authenticated = TRUE,
                         !.reauthenticated = req[r].kind = "reauthenticate",
                         !.method = IF req[r].kind = "challenge" THEN "totp"
                                    ELSE session[s].method]]
      BY <1>3 DEF RotateSessionSecrets
    <3>2. session[s].method = new.method
      BY <2>2, <2>3
    <3> QED BY <2>2, <2>3, <3>1, <3>2
  <2>5. PICK again \in BOOLEAN, method \in {"none", "password", "totp", "recovery"} :
           /\ again = (req[r].kind = "reauthenticate")
           /\ method = IF req[r].kind = "challenge" THEN "totp" ELSE new.method
    BY DEF SessionType
  <2>6. /\ row \in SessionType /\ row.state = "active" /\ row.secret = new.secret
        /\ row.revision = new.revision /\ row.authenticated
        /\ row.method = method
    BY <2>5 DEF SessionType
  <2>7. SessionRow(old)
    BY <2>1, <2>2 DEF SessionTrue
  <2>8. SessionRow(row)
    BY <2>3, <2>5, <2>6, <2>7 DEF SessionRow
  <2> HIDE DEF row
  <2>9. SessionsTrue' /\ RequestsTrue'
    BY <1>1, <2>1, <2>2, <2>3, <2>4, <2>6, <2>8, RotationKeeps
  <2> QED BY <1>2, <2>9 DEF WebInv
<1>4. CASE ~(SourceState(r) /\ Unrotated(r))
  <2>1. UNCHANGED session
    BY <1>4 DEF RotateSessionSecrets
  <2> QED BY <1>1, <1>2, <2>1, StandStill DEF WebInv
<1> QED BY <1>3, <1>4
-------------------------------------------------------------------------------
(* Changes of the credentials.                                             *)

\* The revision a password change compares is the one its session has, and the session it
\* keeps is the only one that is not revoked.
LEMMA ChangePasswordKeeps ==
    ASSUME WebConstants, WebInv, NEW r \in Slots, ChangePassword(r) PROVE WebInv'
<1> DEFINE s == req[r].session
<1>1. req[r].kind = "password" /\ Done(r) /\ UNCHANGED <<totp, codes, bucket, step, spent>>
  BY DEF ChangePassword
<1>2. FactorsTrue' /\ BucketsTrue' /\ step' \in Steps
  BY <1>1, FactorsStay, BucketsStay DEF WebInv
<1>3. CASE credential.revision = req[r].revision /\ Unrotated(r) /\ session[s].state # "revoked"
  <2>1. /\ s \in Sessions /\ session[s] \in SessionType /\ session[s].secret < MaxSecret
        /\ session[s].state # "none" /\ SessionTrue(s)
    BY <1>1, <1>3, FollowedRow
  <2>2. PICK old \in SessionType : old = session[s]
    BY <2>1
  <2>3. PICK new \in SessionType :
           /\ new = Rotated(old) /\ new.state = old.state /\ new.secret = old.secret + 1
           /\ new.method = old.method /\ new.authenticated = old.authenticated
           /\ new.reauthenticated = old.reauthenticated
    BY <2>1, <2>2, RotatedRow
  <2>4. /\ credential.revision \in 0 .. MaxRevision /\ credential.password \in 0 .. MaxRevision
        /\ credential.password <= credential.revision /\ credential.revision < MaxRevision
    BY <1>1, <1>3 DEF WebInv, SessionsTrue, RequestsTrue, RequestTrue
  <2>5. PICK revision \in 0 .. MaxRevision : revision = credential.revision + 1
    BY <2>4 DEF WebConstants
  <2> DEFINE row == [new EXCEPT !.revision = revision]
  <2>6. /\ row \in SessionType /\ row.state = old.state /\ row.secret = old.secret + 1
        /\ row.revision = revision /\ row.method = old.method
        /\ row.authenticated = old.authenticated /\ row.reauthenticated = old.reauthenticated
    BY <2>3 DEF SessionType
  <2>7. credential' = [revision |-> credential.revision + 1, password |-> credential.password + 1]
    BY <1>3 DEF ChangePassword
  <2>8. session' = [RevokeOthers(s) EXCEPT ![s] = row]
    <3>1. session' = [RevokeOthers(s) EXCEPT
                         ![s] = [Rotated(@) EXCEPT !.revision = credential.revision + 1]]
      BY <1>3 DEF ChangePassword
    <3>2. RevokeOthers(s)[s] = old
      BY <2>1, <2>2 DEF RevokeOthers
    <3>3. [Rotated(RevokeOthers(s)[s]) EXCEPT !.revision = credential.revision + 1] = row
      BY <2>3, <2>5, <3>2
    <3> QED BY <3>1, <3>3
  <2>9. SessionRow(row)
    BY <2>1, <2>2, <2>4, <2>5, <2>6 DEF SessionRow, SessionTrue
  <2>10. /\ credential'.revision = credential.revision + 1
         /\ credential' \in [revision : Nat, password : Nat]
         /\ credential'.password <= credential'.revision
    BY <2>4, <2>7 DEF WebConstants
  <2> HIDE DEF row
  <2>11. /\ SessionsTrue'
         /\ \A t \in Sessions :
               Moves(t) /\ (session[t].state = "none" => session'[t].state = "none")
    BY <1>3, <2>1, <2>2, <2>4, <2>5, <2>6, <2>8, <2>9, <2>10, OthersRevoked DEF WebInv
  <2>12. RequestsTrue'
    BY <1>1, <2>11, RequestsGoOn DEF WebInv
  <2> QED BY <1>2, <2>11, <2>12 DEF WebInv
<1>4. CASE ~(credential.revision = req[r].revision /\ Unrotated(r) /\ session[s].state # "revoked")
  <2>1. UNCHANGED <<credential, session>>
    BY <1>4 DEF ChangePassword
  <2> QED BY <1>1, <1>2, <2>1, StandStill DEF WebInv
<1> QED BY <1>3, <1>4

\* A new enrolment takes an empty row; a pending one it replaces had no codes.
LEMMA InsertEnrollmentKeeps ==
    ASSUME WebConstants, WebInv, NEW r \in Slots, InsertPendingEnrollment(r) PROVE WebInv'
<1>1. Done(r) /\ UNCHANGED <<credential, codes, session, bucket, step, spent>>
  BY DEF InsertPendingEnrollment
<1>2. SessionsTrue' /\ RequestsTrue' /\ BucketsTrue' /\ step' \in Steps
  BY <1>1, StandStill, BucketsStay DEF WebInv
<1>3. CASE UNCHANGED totp
  BY <1>1, <1>2, <1>3, FactorsStay DEF WebInv
<1>4. ASSUME NEW c \in Enrollments, totp[c].state = "none",
             totp' = [d \in Enrollments |->
                         IF d = c THEN [NoEnrollment EXCEPT !.state = "pending", !.issue = 1,
                                                            !.deadline = TRUE]
                         ELSE IF totp[d].state = "pending" THEN Replaced(totp[d])
                         ELSE totp[d]]
      PROVE  FactorsTrue'
  <2>1. FactorsTrue
    BY DEF WebInv
  <2>2. NoEnrollment \in EnrollmentType
    BY DEF NoEnrollment, EnrollmentType, WebConstants
  <2>3. PICK new \in EnrollmentType :
           new = [NoEnrollment EXCEPT !.state = "pending", !.issue = 1, !.deadline = TRUE]
    <3>1. PICK blank \in EnrollmentType : blank = NoEnrollment
      BY <2>2
    <3>2. 1 \in 0 .. MaxIssue
      BY DEF WebConstants
    <3>3. [blank EXCEPT !.state = "pending", !.issue = 1, !.deadline = TRUE] \in EnrollmentType
      BY <3>2 DEF EnrollmentType
    <3> QED BY <3>1, <3>3
  <2>4. /\ new.state = "pending" /\ new.issue = 1 /\ new.last = 0 /\ new.deadline
        /\ ~new.activated /\ ~new.replaced
    BY <2>3 DEF NoEnrollment
  <2>5. ASSUME NEW d \in Enrollments, d # c
        PROVE  /\ totp'[d] \in EnrollmentType /\ FactorTrue(d)'
               /\ totp'[d].last = totp[d].last /\ totp'[d].issue = totp[d].issue
               /\ IF totp[d].state = "pending" THEN totp'[d].state = "replaced"
                  ELSE totp'[d].state = totp[d].state
    <3>1. totp[d] \in EnrollmentType /\ FactorTrue(d)
      BY <2>1 DEF FactorsTrue
    <3>2. CASE totp[d].state = "pending"
      <4>1. totp'[d] = Replaced(totp[d])
        BY <1>4, <2>5, <3>2
      <4> QED BY <3>1, <3>2, <4>1, ReplacedRow DEF FactorTrue
    <3>3. CASE totp[d].state # "pending"
      <4>1. totp'[d] = totp[d]
        BY <1>4, <2>5, <3>3
      <4> QED BY <3>1, <3>3, <4>1 DEF FactorTrue
    <3> QED BY <3>2, <3>3
  <2>6. totp'[c] = new
    BY <1>4, <2>3
  <2>7. totp' \in [Enrollments -> EnrollmentType]
    <3>1. \A d \in Enrollments : totp'[d] \in EnrollmentType
      BY <2>5, <2>6
    <3>2. totp' = [d \in Enrollments |-> totp'[d]]
      BY <1>4
    <3> QED BY <3>1, <3>2
  <2>8. \A d \in Enrollments : FactorTrue(d)'
    <3>1. FactorTrue(c)'
      BY <2>4, <2>6 DEF FactorTrue, EnrollmentRow
    <3> QED BY <2>5, <3>1
  <2>9. \A d, e \in ActiveTotp' : d = e
    <3>1. ActiveTotp' \subseteq ActiveTotp
      BY <2>4, <2>5, <2>6 DEF ActiveTotp
    <3> QED BY <2>1, <3>1 DEF FactorsTrue
  <2>10. ASSUME NEW k \in codes PROVE CodeTrue(k)'
    <3>1. k[1] \in Enrollments /\ CodeTrue(k)
      BY <2>1 DEF FactorsTrue
    <3>2. k[1] # c
      BY <1>4, <3>1 DEF CodeTrue
    <3> QED BY <2>5, <3>1, <3>2 DEF CodeTrue
  <2>11. SpentTrue'
    <3>1. \A d \in Enrollments : totp'[d].last = totp[d].last
      BY <1>4, <2>1, <2>4, <2>5, <2>6 DEF FactorsTrue, FactorTrue
    <3> QED BY <1>1, <2>1, <3>1 DEF FactorsTrue, SpentTrue
  <2> QED BY <1>1, <2>1, <2>7, <2>8, <2>9, <2>10, <2>11 DEF FactorsTrue
<1>5. CASE ~UNCHANGED totp
  <2>1. PICK c \in Enrollments :
           /\ totp[c].state = "none"
           /\ totp' = [d \in Enrollments |->
                          IF d = c THEN [NoEnrollment EXCEPT !.state = "pending", !.issue = 1,
                                                             !.deadline = TRUE]
                          ELSE IF totp[d].state = "pending" THEN Replaced(totp[d])
                          ELSE totp[d]]
    BY <1>5 DEF InsertPendingEnrollment
  <2> QED BY <1>2, <1>4, <2>1 DEF WebInv
<1> QED BY <1>3, <1>5

\* The activated enrolment is the one active factor, and its first issue is in force.
LEMMA ActivatedFactors ==
    ASSUME WebConstants, WebInv, NEW c \in Enrollments, NEW code \in Steps,
           totp[c].state = "pending", code > totp[c].last,
           totp' = Activated(c, code), Spend(c, code),
           codes' = codes \cup {<<c, totp[c].issue>>}
    PROVE  FactorsTrue'
<1>1. FactorsTrue /\ totp[c] \in EnrollmentType /\ FactorTrue(c)
  BY DEF WebInv, FactorsTrue
<1>2. code \in Nat /\ code \in 0 .. MaxStep
  BY DEF Steps, WebConstants
<1>3. PICK old \in EnrollmentType : old = totp[c]
  BY <1>1
<1>4. PICK new \in EnrollmentType :
         new = [old EXCEPT !.state = "active", !.last = code, !.activated = TRUE,
                           !.deadline = FALSE]
  BY <1>2 DEF EnrollmentType
<1>5. /\ new.state = "active" /\ new.last = code /\ new.issue = old.issue /\ new.activated
      /\ ~new.deadline /\ new.replaced = old.replaced
  BY <1>4 DEF EnrollmentType
<1>6. totp'[c] = new
  BY <1>3, <1>4 DEF Activated
<1>7. ASSUME NEW d \in Enrollments, d # c
      PROVE  /\ totp'[d] \in EnrollmentType /\ FactorTrue(d)'
             /\ totp'[d].last = totp[d].last /\ totp'[d].issue = totp[d].issue
             /\ IF totp[d].state = "active" THEN totp'[d].state = "replaced"
                ELSE totp'[d].state = totp[d].state
  <2>1. totp[d] \in EnrollmentType /\ FactorTrue(d)
    BY <1>1 DEF FactorsTrue
  <2>2. CASE totp[d].state = "active"
    <3>1. totp'[d] = Replaced(totp[d])
      BY <1>7, <2>2 DEF Activated
    <3> QED BY <2>1, <2>2, <3>1, ReplacedRow DEF FactorTrue
  <2>3. CASE totp[d].state # "active"
    <3>1. totp'[d] = totp[d]
      BY <1>7, <2>3 DEF Activated
    <3> QED BY <2>1, <2>3, <3>1 DEF FactorTrue
  <2> QED BY <2>2, <2>3
<1>8. totp' \in [Enrollments -> EnrollmentType]
  <2>1. \A d \in Enrollments : totp'[d] \in EnrollmentType
    BY <1>6, <1>7
  <2>2. totp' = [d \in Enrollments |-> totp'[d]]
    BY DEF Activated
  <2> QED BY <2>1, <2>2
<1>9. old.issue \in 1 .. MaxIssue
  BY <1>1, <1>3 DEF FactorTrue, EnrollmentType, WebConstants
<1>10. \A d \in Enrollments : FactorTrue(d)'
  <2>1. FactorTrue(c)'
    BY <1>1, <1>3, <1>5, <1>6 DEF FactorTrue, EnrollmentRow
  <2> QED BY <1>7, <2>1
<1>11. \A d, e \in ActiveTotp' : d = e
  <2>1. \A d \in ActiveTotp' : d = c
    BY <1>7 DEF ActiveTotp
  <2> QED BY <2>1
<1>12. ASSUME NEW k \in codes' PROVE CodeTrue(k)'
  <2>1. CASE k \in codes
    <3>1. k[1] \in Enrollments /\ CodeTrue(k)
      BY <1>1, <2>1 DEF FactorsTrue
    <3>2. k[1] # c
      BY <3>1 DEF CodeTrue
    <3> QED BY <1>7, <3>1, <3>2 DEF CodeTrue
  <2>2. CASE k = <<c, old.issue>>
    BY <1>5, <1>6, <2>2 DEF CodeTrue
  <2> QED BY <1>3, <1>12, <2>1, <2>2
<1>13. codes' \subseteq Enrollments \X (1 .. MaxIssue)
  BY <1>1, <1>3, <1>9 DEF FactorsTrue
<1>14. spent' = [spent EXCEPT ![c][code] = @ + 1]
  BY DEF Spend
<1>15. spent[c][code] = 0
  <2>1. spent[c][code] \in Nat /\ spent[c][code] <= 1 /\ spent[c][code] # 1
    BY <1>1, <1>2, <1>3 DEF FactorsTrue, SpentTrue, EnrollmentType, WebConstants
  <2> QED BY <2>1
<1>16. spent' \in [Enrollments -> [Steps -> Nat]]
  BY <1>1, <1>14 DEF FactorsTrue
<1>17. SpentTrue'
  <2> SUFFICES ASSUME NEW d \in Enrollments, NEW n \in Steps
               PROVE  spent'[d][n] <= 1 /\ (spent'[d][n] = 1 => n <= totp'[d].last)
    BY DEF SpentTrue
  <2>1. spent[d][n] <= 1 /\ (spent[d][n] = 1 => n <= totp[d].last)
    BY <1>1 DEF FactorsTrue, SpentTrue
  <2>2. spent'[d][n] = IF d = c /\ n = code THEN 1 ELSE spent[d][n]
    BY <1>1, <1>14, <1>15 DEF FactorsTrue
  <2>3. n \in Nat /\ old.last \in Nat
    BY DEF Steps, EnrollmentType, WebConstants
  <2>4. CASE d = c
    BY <1>2, <1>3, <1>5, <1>6, <2>1, <2>2, <2>3, <2>4
  <2>5. CASE d # c
    BY <1>7, <2>1, <2>2, <2>5
  <2> QED BY <2>4, <2>5
<1> QED BY <1>8, <1>10, <1>11, <1>12, <1>13, <1>16, <1>17 DEF FactorsTrue
LEMMA ActivateKeeps ==
    ASSUME WebConstants, WebInv, NEW r \in Slots, ActivateEnrollment(r) PROVE WebInv'
<1> DEFINE s == req[r].session
           c == req[r].enrollment
           code == req[r].code
           completes == req[r].from = "recovery_limited"
<1>1. req[r].kind = "activate" /\ UNCHANGED <<credential, bucket, step>>
  BY DEF ActivateEnrollment
<1>2. BucketsTrue' /\ step' \in Steps
  BY <1>1, BucketsStay DEF WebInv
<1>3. c \in Enrollments
  BY <1>1 DEF WebInv, RequestsTrue, RequestTrue
<1>4. CASE /\ UNCHANGED <<totp, codes, session, spent>>
           /\ Done(r) \/ req' = [req EXCEPT ![r].pc = "rejected"]
  BY <1>1, <1>2, <1>4, StandStill, FactorsStay DEF WebInv
<1>5. ASSUME totp[c].state = "pending", code \in Steps, Accepts(c, code, req[r].now), Done(r),
             completes => Unrotated(r) /\ session[s].state = "recovery_limited",
             totp' = Activated(c, code), Spend(c, code),
             codes' = codes \cup {<<c, totp[c].issue>>},
             session' = IF completes
                        THEN [session EXCEPT ![s] = [Rotated(@) EXCEPT
                                 !.state = "active", !.method = "totp", !.recent = TRUE,
                                 !.authenticated = TRUE, !.reauthenticated = FALSE]]
                        ELSE session
      PROVE  WebInv'
  <2>1. FactorsTrue'
    BY <1>3, <1>5, ActivatedFactors DEF Accepts
  <2>2. SessionsTrue' /\ RequestsTrue'
    <3>1. CASE ~completes
      BY <1>1, <1>5, <3>1, StandStill
    <3>2. CASE completes
      <4>1. /\ s \in Sessions /\ session[s] \in SessionType /\ session[s].secret < MaxSecret
            /\ SessionTrue(s)
        BY <1>1, <1>5, <3>2, FollowedRow
      <4>2. PICK old \in SessionType : old = session[s]
        BY <4>1
      <4>3. PICK new \in SessionType :
               /\ new = Rotated(old) /\ new.secret = old.secret + 1 /\ new.revision = old.revision
        BY <4>1, <4>2, RotatedRow
      <4>4. PICK row \in SessionType :
               row = [new EXCEPT !.state = "active", !.method = "totp", !.recent = TRUE,
                                 !.authenticated = TRUE, !.reauthenticated = FALSE]
        BY DEF SessionType
      <4>5. /\ row.state = "active" /\ row.secret = new.secret /\ row.revision = new.revision
            /\ row.authenticated /\ row.method = "totp"
        BY <4>4 DEF SessionType
      <4>6. SessionRow(row)
        BY <1>5, <3>2, <4>1, <4>2, <4>3, <4>5 DEF SessionRow, SessionTrue
      <4>7. session' = [session EXCEPT ![s] = row]
        BY <1>5, <3>2, <4>1, <4>2, <4>3, <4>4 DEF WebInv, SessionsTrue
      <4> QED BY <1>1, <1>5, <3>2, <4>1, <4>2, <4>3, <4>5, <4>6, <4>7, RotationKeeps
    <3> QED BY <3>1, <3>2
  <2> QED BY <1>2, <2>1, <2>2 DEF WebInv
<1>6. CASE totp[c].state # "pending" \/ totp[c].expired
  BY <1>4, <1>6 DEF ActivateEnrollment
<1>7. CASE /\ totp[c].state = "pending" /\ ~totp[c].expired
           /\ ~(code \in Steps /\ Accepts(c, code, req[r].now))
  BY <1>4, <1>7 DEF ActivateEnrollment
<1>8. CASE /\ totp[c].state = "pending" /\ ~totp[c].expired
           /\ code \in Steps /\ Accepts(c, code, req[r].now)
  BY <1>4, <1>5, <1>8 DEF ActivateEnrollment
<1> QED BY <1>6, <1>7, <1>8

LEMMA RecoverKeeps ==
    ASSUME WebConstants, WebInv, NEW r \in Slots, RecoverSession(r) PROVE WebInv'
<1> DEFINE s == req[r].session
<1>1. req[r].kind = "recover" /\ UNCHANGED <<credential, totp, bucket, step, spent>>
  BY DEF RecoverSession
<1>2. BucketsTrue' /\ step' \in Steps
  BY <1>1, BucketsStay DEF WebInv
<1>3. CASE UNCHANGED <<codes, session>> /\ (Done(r) \/ req' = [req EXCEPT ![r].pc = "rejected"])
  BY <1>1, <1>2, <1>3, StandStill, FactorsStay DEF WebInv
<1>4. ASSUME Done(r), Unrotated(r), session[s].state \in {"pending_totp", "active"},
             codes' \subseteq codes,
             session' = [session EXCEPT ![s] = [Rotated(@) EXCEPT
                            !.state = "recovery_limited", !.method = "recovery", !.recent = TRUE,
                            !.authenticated = TRUE, !.reauthenticated = FALSE]]
      PROVE  WebInv'
  <2>1. FactorsTrue'
    BY <1>1, <1>4 DEF WebInv, FactorsTrue, FactorTrue, CodeTrue, SpentTrue, ActiveTotp
  <2>2. /\ s \in Sessions /\ session[s] \in SessionType /\ session[s].secret < MaxSecret
        /\ SessionTrue(s)
    BY <1>1, <1>4, FollowedRow
  <2>3. PICK old \in SessionType : old = session[s]
    BY <2>2
  <2>4. PICK new \in SessionType :
           new = Rotated(old) /\ new.secret = old.secret + 1 /\ new.revision = old.revision
    BY <2>2, <2>3, RotatedRow
  <2>5. PICK row \in SessionType :
           row = [new EXCEPT !.state = "recovery_limited", !.method = "recovery", !.recent = TRUE,
                             !.authenticated = TRUE, !.reauthenticated = FALSE]
    BY DEF SessionType
  <2>6. /\ row.state = "recovery_limited" /\ row.secret = new.secret
        /\ row.revision = new.revision /\ row.authenticated /\ row.method = "recovery"
    BY <2>5 DEF SessionType
  <2>7. SessionRow(row)
    BY <1>4, <2>2, <2>3, <2>4, <2>6 DEF SessionRow, SessionTrue
  <2>8. session' = [session EXCEPT ![s] = row]
    BY <1>4, <2>2, <2>3, <2>4, <2>5 DEF WebInv, SessionsTrue
  <2>9. SessionsTrue' /\ RequestsTrue'
    BY <1>1, <1>4, <2>2, <2>3, <2>4, <2>6, <2>7, <2>8, RotationKeeps
  <2> QED BY <1>2, <2>1, <2>9 DEF WebInv
<1>5. CASE /\ req[r].enrollment \in ActiveTotp /\ <<req[r].enrollment, req[r].code>> \in codes
           /\ Unrotated(r) /\ session[s].state \in {"pending_totp", "active"}
  BY <1>4, <1>5 DEF RecoverSession, CodeUsed
<1>6. CASE ~(/\ req[r].enrollment \in ActiveTotp /\ <<req[r].enrollment, req[r].code>> \in codes
             /\ Unrotated(r) /\ session[s].state \in {"pending_totp", "active"})
  BY <1>3, <1>6 DEF RecoverSession
<1> QED BY <1>5, <1>6

\* A renewal leaves only the new issue; it is the one active factor's.
LEMMA RegenerateKeeps ==
    ASSUME WebConstants, WebInv, NEW r \in Slots, RegenerateRecoveryCodes(r) PROVE WebInv'
<1>1. Done(r) /\ UNCHANGED <<credential, session, bucket, step, spent>>
  BY DEF RegenerateRecoveryCodes
<1>2. SessionsTrue' /\ RequestsTrue' /\ BucketsTrue' /\ step' \in Steps
  BY <1>1, StandStill, BucketsStay DEF WebInv
<1>3. FactorsTrue
  BY DEF WebInv
<1>4. CASE UNCHANGED <<totp, codes>>
  BY <1>1, <1>2, <1>3, <1>4, FactorsStay DEF WebInv
<1>5. ASSUME NEW c \in ActiveTotp, totp[c].issue < MaxIssue,
             totp' = [totp EXCEPT ![c].issue = @ + 1], codes' = Reissued(c)
      PROVE  FactorsTrue'
  <2>1. PICK old \in EnrollmentType : old = totp[c] /\ old.state = "active" /\ c \in Enrollments
    BY <1>3 DEF FactorsTrue, ActiveTotp
  <2>2. PICK issue \in 1 .. MaxIssue : issue = old.issue + 1
    BY <1>5, <2>1 DEF EnrollmentType, WebConstants
  <2>3. PICK new \in EnrollmentType : new = [old EXCEPT !.issue = issue]
    <3>1. issue \in 0 .. MaxIssue
      BY DEF WebConstants
    <3> QED BY <3>1 DEF EnrollmentType
  <2>4. /\ new.state = old.state /\ new.issue = issue /\ new.last = old.last
        /\ EnrollmentRow(old) => EnrollmentRow(new)
    BY <2>3 DEF EnrollmentType, EnrollmentRow
  <2>5. totp' = [totp EXCEPT ![c] = new]
    BY <1>3, <1>5, <2>1, <2>2, <2>3 DEF FactorsTrue
  <2>6. codes' = {k \in codes : k[1] # c} \cup {<<c, issue>>}
    BY <1>5, <2>1, <2>2 DEF Reissued
  <2>7. totp' \in [Enrollments -> EnrollmentType]
    BY <1>3, <2>5 DEF FactorsTrue
  <2>8. \A d \in Enrollments : totp'[d].state = totp[d].state /\ totp'[d].last = totp[d].last
    BY <1>3, <2>1, <2>4, <2>5 DEF FactorsTrue
  <2>9. \A d \in Enrollments : FactorTrue(d)'
    BY <1>3, <2>1, <2>2, <2>4, <2>5 DEF FactorsTrue, FactorTrue
  <2>10. \A d, e \in ActiveTotp' : d = e
    BY <1>3, <2>8 DEF FactorsTrue, ActiveTotp
  <2>11. ASSUME NEW k \in codes' PROVE CodeTrue(k)'
    <3>1. CASE k \in codes /\ k[1] # c
      <4>1. k[1] \in Enrollments /\ CodeTrue(k) /\ totp'[k[1]] = totp[k[1]]
        BY <1>3, <2>5, <3>1 DEF FactorsTrue
      <4> QED BY <4>1 DEF CodeTrue
    <3>2. CASE k = <<c, issue>>
      <4>1. totp'[c] = new
        BY <1>3, <2>1, <2>5 DEF FactorsTrue
      <4> QED BY <2>1, <2>4, <3>2, <4>1 DEF CodeTrue
    <3> QED BY <2>6, <2>11, <3>1, <3>2
  <2>12. codes' \subseteq Enrollments \X (1 .. MaxIssue)
    BY <1>3, <2>1, <2>6 DEF FactorsTrue
  <2>13. SpentTrue'
    BY <1>1, <1>3, <2>8 DEF FactorsTrue, SpentTrue
  <2> QED BY <1>1, <1>3, <2>7, <2>9, <2>10, <2>11, <2>12, <2>13 DEF FactorsTrue
<1>6. CASE ~UNCHANGED <<totp, codes>>
  <2>1. PICK c \in ActiveTotp : totp' = [totp EXCEPT ![c].issue = @ + 1] /\ codes' = Reissued(c)
    BY <1>6 DEF RegenerateRecoveryCodes
  <2>2. \E d \in ActiveTotp : totp[d].issue < MaxIssue
    BY <1>6 DEF RegenerateRecoveryCodes
  <2>3. totp[c].issue < MaxIssue
    BY <1>3, <2>1, <2>2 DEF FactorsTrue
  <2> QED BY <1>2, <1>5, <2>1, <2>3 DEF WebInv
<1> QED BY <1>4, <1>6

\* Without a factor there is no code.
LEMMA NoFactorLeft ==
    ASSUME WebConstants, WebInv, totp' = NoFactor, codes' = {}, UNCHANGED spent
    PROVE  FactorsTrue'
<1>1. FactorsTrue
  BY DEF WebInv
<1>2. ASSUME NEW c \in Enrollments
      PROVE  /\ totp'[c] \in EnrollmentType /\ FactorTrue(c)'
             /\ totp'[c].last = totp[c].last /\ totp'[c].state # "active"
  <2>1. totp[c] \in EnrollmentType /\ FactorTrue(c)
    BY <1>1 DEF FactorsTrue
  <2>2. CASE totp[c].state \in {"active", "pending"}
    <3>1. totp'[c] = Replaced(totp[c])
      BY <2>2 DEF NoFactor
    <3> QED BY <2>1, <2>2, <3>1, ReplacedRow DEF FactorTrue
  <2>3. CASE totp[c].state \notin {"active", "pending"}
    <3>1. totp'[c] = totp[c]
      BY <2>3 DEF NoFactor
    <3> QED BY <2>1, <2>3, <3>1 DEF FactorTrue
  <2> QED BY <2>2, <2>3
<1>3. totp' \in [Enrollments -> EnrollmentType]
  <2>1. totp' = [c \in Enrollments |-> totp'[c]]
    BY DEF NoFactor
  <2> QED BY <1>2, <2>1
<1>4. \A c, d \in ActiveTotp' : c = d
  BY <1>2 DEF ActiveTotp
<1>5. SpentTrue'
  BY <1>1, <1>2 DEF FactorsTrue, SpentTrue
<1> QED BY <1>1, <1>2, <1>3, <1>4, <1>5 DEF FactorsTrue

\* The revision is not compared again, but a session that was not rotated still has it.
LEMMA DisableKeeps ==
    ASSUME WebConstants, WebInv, NEW r \in Slots, DisableTotp(r) PROVE WebInv'
<1> DEFINE s == req[r].session
<1>1. req[r].kind = "disable" /\ Done(r) /\ UNCHANGED <<bucket, step, spent>>
  BY DEF DisableTotp
<1>2. BucketsTrue' /\ step' \in Steps
  BY <1>1, BucketsStay DEF WebInv
<1>3. CASE HasActiveTotp /\ Unrotated(r) /\ session[s].state # "revoked"
  <2>1. FactorsTrue'
    BY <1>1, <1>3, NoFactorLeft DEF DisableTotp
  <2>2. /\ s \in Sessions /\ session[s] \in SessionType /\ session[s].secret < MaxSecret
        /\ session[s].state # "none" /\ SessionTrue(s)
        /\ session[s].revision = req[r].revision
    BY <1>1, <1>3, FollowedRow
  <2>3. PICK old \in SessionType : old = session[s]
    BY <2>2
  <2>4. PICK new \in SessionType :
           /\ new = Rotated(old) /\ new.state = old.state /\ new.secret = old.secret + 1
           /\ new.authenticated = old.authenticated
           /\ new.reauthenticated = old.reauthenticated
    BY <2>2, <2>3, RotatedRow
  <2>5. req[r].revision < MaxRevision
    BY <1>1 DEF WebInv, RequestsTrue, RequestTrue
  <2>6. /\ credential \in [revision : 0 .. MaxRevision, password : 0 .. MaxRevision]
        /\ credential.password <= credential.revision /\ credential.revision < MaxRevision
    BY <1>3, <2>2, <2>5 DEF WebInv, SessionsTrue, SessionTrue
  <2>7. PICK revision \in 0 .. MaxRevision : revision = credential.revision + 1
    BY <2>6 DEF WebConstants
  <2> DEFINE row == [new EXCEPT !.revision = revision, !.method = "password"]
  <2>8. /\ row \in SessionType /\ row.state = old.state /\ row.secret = old.secret + 1
        /\ row.revision = revision /\ row.method = "password"
        /\ row.authenticated = old.authenticated /\ row.reauthenticated = old.reauthenticated
    BY <2>4 DEF SessionType
  <2>9. credential' = [credential EXCEPT !.revision = @ + 1]
    BY <1>3 DEF DisableTotp
  <2>10. session' = [RevokeOthers(s) EXCEPT ![s] = row]
    <3>1. session' = [RevokeOthers(s) EXCEPT
                         ![s] = [Rotated(@) EXCEPT !.revision = credential.revision + 1,
                                                   !.method = "password"]]
      BY <1>3 DEF DisableTotp
    <3>2. RevokeOthers(s)[s] = old
      BY <2>2, <2>3 DEF RevokeOthers
    <3>3. [Rotated(RevokeOthers(s)[s]) EXCEPT !.revision = credential.revision + 1,
                                              !.method = "password"] = row
      BY <2>4, <2>7, <3>2
    <3> QED BY <3>1, <3>3
  <2>11. SessionRow(row)
    BY <2>2, <2>3, <2>6, <2>7, <2>8 DEF SessionRow, SessionTrue
  <2>12. /\ credential'.revision = credential.revision + 1
         /\ credential' \in [revision : Nat, password : Nat]
         /\ credential'.password <= credential'.revision
    BY <2>6, <2>9 DEF WebConstants
  <2> HIDE DEF row
  <2>13. /\ SessionsTrue'
         /\ \A t \in Sessions :
               Moves(t) /\ (session[t].state = "none" => session'[t].state = "none")
    BY <1>3, <2>2, <2>3, <2>6, <2>7, <2>8, <2>10, <2>11, <2>12, OthersRevoked DEF WebInv
  <2>14. RequestsTrue'
    BY <1>1, <2>13, RequestsGoOn DEF WebInv
  <2> QED BY <1>2, <2>1, <2>13, <2>14 DEF WebInv
<1>4. CASE ~(HasActiveTotp /\ Unrotated(r) /\ session[s].state # "revoked")
  <2>1. UNCHANGED <<credential, totp, codes, session>>
    BY <1>4 DEF DisableTotp, rows
  <2> QED BY <1>1, <1>2, <2>1, StandStill, FactorsStay DEF WebInv
<1> QED BY <1>3, <1>4
-------------------------------------------------------------------------------
(* The operator, and time.                                                 *)

\* Nothing is under way that would notice: the requests rely on their sessions only.
LEMMA RequestsStay ==
    ASSUME WebConstants, SessionsTrue, SessionsTrue', RequestsTrue, UNCHANGED req,
           \A s \in Sessions : Moves(s) /\ (session[s].state = "none" => session'[s].state = "none")
    PROVE  RequestsTrue'
<1>1. CASE Slots = {}
  BY <1>1 DEF RequestsTrue
<1>2. ASSUME NEW r \in Slots PROVE RequestsTrue'
  BY RequestsGoOn
<1> QED BY <1>1, <1>2

LEMMA EnrollKeeps ==
    ASSUME WebConstants, WebInv, EnrollWebCredential PROVE WebInv'
<1>1. /\ credential.revision = 0 /\ credential' = [revision |-> 1, password |-> 1]
      /\ UNCHANGED <<totp, codes, session, bucket, step, req, spent>>
  BY DEF EnrollWebCredential
<1>2. SessionsTrue'
  <2>1. SessionsTrue
    BY DEF WebInv
  <2>2. ASSUME NEW s \in Sessions PROVE SessionTrue(s)'
    <3>1. SessionTrue(s)
      BY <2>1 DEF SessionsTrue
    <3> QED BY <1>1, <3>1 DEF SessionTrue, SessionRow
  <2>3. credential' \in [revision : 0 .. MaxRevision, password : 0 .. MaxRevision]
    BY <1>1 DEF WebConstants
  <2> QED BY <1>1, <2>1, <2>2, <2>3 DEF SessionsTrue
<1>3. RequestsTrue'
  <2>1. \A s \in Sessions : Moves(s) /\ (session[s].state = "none" => session'[s].state = "none")
    BY <1>1, SessionsRest DEF WebInv
  <2> QED BY <1>1, <1>2, <2>1, RequestsStay DEF WebInv
<1> QED BY <1>1, <1>2, <1>3, FactorsStay, BucketsStay DEF WebInv

LEMMA ResetKeeps ==
    ASSUME WebConstants, WebInv, ResetWebAuthentication PROVE WebInv'
<1>1. /\ credential.revision \in 1 .. MaxRevision - 1
      /\ credential' = [revision |-> credential.revision + 1, password |-> credential.password + 1]
      /\ totp' = NoFactor /\ codes' = {} /\ session' = RevokeAll
      /\ UNCHANGED <<bucket, step, req, spent>>
  BY DEF ResetWebAuthentication
<1>2. FactorsTrue' /\ BucketsTrue' /\ step' \in Steps
  BY <1>1, NoFactorLeft, BucketsStay DEF WebInv
<1>3. SessionsTrue
  BY DEF WebInv
<1>4. ASSUME NEW s \in Sessions
      PROVE  /\ session'[s] \in SessionType /\ SessionTrue(s)' /\ Moves(s)
             /\ session[s].state = "none" => session'[s].state = "none"
  <2>1. session[s] \in SessionType /\ SessionTrue(s) /\ session[s].secret \in Nat
    BY <1>3 DEF SessionsTrue, SessionType
  <2>2. CASE session[s].state = "none"
    <3>1. session'[s] = session[s]
      BY <1>1, <2>2 DEF RevokeAll
    <3> QED BY <2>1, <2>2, <3>1 DEF SessionTrue, Moves
  <2>3. CASE session[s].state # "none"
    <3>1. session'[s] = Revoked(session[s])
      BY <1>1, <2>3 DEF RevokeAll
    <3> QED BY <2>1, <2>3, <3>1, RevokedRow DEF SessionTrue, Moves
  <2> QED BY <2>2, <2>3
<1>5. SessionsTrue'
  <2>1. session' \in [Sessions -> SessionType]
    <3>1. session' = [s \in Sessions |-> session'[s]]
      BY <1>1 DEF RevokeAll
    <3> QED BY <1>4, <3>1
  <2>2. /\ credential' \in [revision : 0 .. MaxRevision, password : 0 .. MaxRevision]
        /\ credential'.password <= credential'.revision
    BY <1>1, <1>3 DEF SessionsTrue, WebConstants
  <2> QED BY <1>4, <2>1, <2>2 DEF SessionsTrue
<1>6. RequestsTrue'
  BY <1>1, <1>3, <1>4, <1>5, RequestsStay DEF WebInv
<1> QED BY <1>2, <1>5, <1>6 DEF WebInv

LEMMA BucketTimeKeeps ==
    ASSUME WebConstants, WebInv, NEW k \in Kinds, WindowElapses(k) \/ LockEnds(k)
    PROVE  WebInv'
<1>1. UNCHANGED <<credential, totp, codes, session, step, req, spent>>
  BY DEF WindowElapses, LockEnds, rows
<1>2. PICK old \in BucketType : old = bucket[k]
  BY DEF WebInv, BucketsTrue
<1>3. BucketsTrue'
  <2>1. BucketsTrue /\ BucketTrue(k)
    BY DEF WebInv, BucketsTrue
  <2>2. PICK new \in BucketType :
           /\ bucket' = [bucket EXCEPT ![k] = new] /\ new.count = old.count
           /\ new.locked => old.locked
           /\ new.elapsed
    <3>1. CASE WindowElapses(k)
      <4>1. bucket' = [bucket EXCEPT ![k] = [old EXCEPT !.elapsed = TRUE]]
        BY <1>2, <2>1, <3>1 DEF WindowElapses, BucketsTrue
      <4>2. [old EXCEPT !.elapsed = TRUE] \in BucketType
        BY DEF BucketType
      <4> QED BY <4>1, <4>2 DEF BucketType
    <3>2. CASE LockEnds(k)
      <4>1. bucket' = [bucket EXCEPT ![k] = [old EXCEPT !.locked = FALSE]] /\ old.elapsed
        BY <1>2, <2>1, <3>2 DEF LockEnds, BucketsTrue
      <4>2. [old EXCEPT !.locked = FALSE] \in BucketType
        BY DEF BucketType
      <4> QED BY <4>1, <4>2 DEF BucketType
    <3> QED BY <3>1, <3>2
  <2> QED BY <1>2, <2>1, <2>2 DEF BucketsTrue, BucketTrue
<1>4. SessionsTrue' /\ FactorsTrue' /\ RequestsTrue'
  <2>1. \A s \in Sessions : Moves(s) /\ (session[s].state = "none" => session'[s].state = "none")
    BY <1>1, SessionsRest DEF WebInv
  <2> QED BY <1>1, <2>1, SessionsStay, FactorsStay, RequestsStay DEF WebInv
<1> QED BY <1>1, <1>3, <1>4 DEF WebInv

LEMMA EnrollmentTimeKeeps ==
    ASSUME WebConstants, WebInv, NEW c \in Enrollments, EnrollmentExpires(c) PROVE WebInv'
<1>1. /\ totp' = [totp EXCEPT ![c].expired = TRUE]
      /\ UNCHANGED <<credential, codes, session, bucket, step, req, spent>>
  BY DEF EnrollmentExpires
<1>2. FactorsTrue
  BY DEF WebInv
<1>3. PICK old \in EnrollmentType : old = totp[c]
  BY <1>2 DEF FactorsTrue
<1>4. PICK new \in EnrollmentType : new = [old EXCEPT !.expired = TRUE]
  BY DEF EnrollmentType
<1>5. /\ new.state = old.state /\ new.issue = old.issue /\ new.last = old.last
      /\ EnrollmentRow(old) => EnrollmentRow(new)
  BY <1>4 DEF EnrollmentType, EnrollmentRow
<1>6. totp' = [totp EXCEPT ![c] = new]
  BY <1>1, <1>2, <1>3, <1>4 DEF FactorsTrue
<1>7. FactorsTrue'
  <2>1. totp' \in [Enrollments -> EnrollmentType]
    BY <1>2, <1>6 DEF FactorsTrue
  <2>2. \A d \in Enrollments : /\ totp'[d].state = totp[d].state /\ totp'[d].last = totp[d].last
                               /\ totp'[d].issue = totp[d].issue
    BY <1>2, <1>3, <1>5, <1>6 DEF FactorsTrue
  <2>3. \A d \in Enrollments : FactorTrue(d)'
    BY <1>2, <1>3, <1>5, <1>6 DEF FactorsTrue, FactorTrue
  <2>4. \A d, e \in ActiveTotp' : d = e
    BY <1>2, <2>2 DEF FactorsTrue, ActiveTotp
  <2>5. \A k \in codes' : CodeTrue(k)'
    BY <1>1, <1>2, <2>2 DEF FactorsTrue, CodeTrue
  <2>6. SpentTrue'
    BY <1>1, <1>2, <2>2 DEF FactorsTrue, SpentTrue
  <2> QED BY <1>1, <1>2, <2>1, <2>3, <2>4, <2>5, <2>6 DEF FactorsTrue
<1>8. SessionsTrue' /\ BucketsTrue' /\ RequestsTrue'
  <2>1. \A s \in Sessions : Moves(s) /\ (session[s].state = "none" => session'[s].state = "none")
    BY <1>1, SessionsRest DEF WebInv
  <2> QED BY <1>1, <2>1, SessionsStay, BucketsStay, RequestsStay DEF WebInv
<1> QED BY <1>1, <1>7, <1>8 DEF WebInv

LEMMA RestKeeps ==
    ASSUME WebConstants, WebInv, StepAdvances \/ UNCHANGED vars PROVE WebInv'
<1>1. UNCHANGED <<credential, totp, codes, session, bucket, req, spent>>
  BY DEF StepAdvances, vars, rows
<1>2. step' \in Steps
  BY DEF StepAdvances, vars, WebInv, Steps, WebConstants
<1>3. \A s \in Sessions : Moves(s) /\ (session[s].state = "none" => session'[s].state = "none")
  BY <1>1, SessionsRest DEF WebInv
<1> QED BY <1>1, <1>2, <1>3, SessionsStay, FactorsStay, BucketsStay, RequestsStay DEF WebInv
-------------------------------------------------------------------------------
(* The theorems.                                                           *)

LEMMA InitKeeps == ASSUME WebConstants, Init PROVE WebInv
<1>1. SessionsTrue
  <2>1. NoSession \in SessionType /\ NoSession.state = "none" /\ ~NoSession.recent
    BY DEF NoSession, SessionType, WebConstants
  <2> QED BY <2>1 DEF Init, SessionsTrue, SessionTrue, WebConstants
<1>2. FactorsTrue
  <2>1. NoEnrollment \in EnrollmentType /\ NoEnrollment.state = "none" /\ NoEnrollment.last = 0
    BY DEF NoEnrollment, EnrollmentType, WebConstants
  <2>2. spent \in [Enrollments -> [Steps -> Nat]]
    BY DEF Init
  <2>3. SpentTrue
    BY DEF Init, SpentTrue
  <2>4. ActiveTotp = {}
    BY <2>1 DEF Init, ActiveTotp
  <2> QED BY <2>1, <2>2, <2>3, <2>4 DEF Init, FactorsTrue, FactorTrue
<1>3. BucketsTrue
  <2>1. NoBucket \in BucketType /\ ~NoBucket.locked /\ NoBucket.count = 0
    BY DEF NoBucket, BucketType, WebConstants
  <2> QED BY <2>1 DEF Init, BucketsTrue, BucketTrue, WebConstants
<1>4. RequestsTrue
  <2>1. Free \in RequestType /\ Free.kind = "free"
    BY DEF Free, RequestType, RequestKinds, NeedsCode, WebConstants
  <2>2. \A r \in Slots : req[r].kind = "free"
    BY <2>1 DEF Init
  <2>3. req \in [Slots -> RequestType]
    BY <2>1 DEF Init
  <2> QED BY <2>2, <2>3 DEF RequestsTrue, LoginTrue, RequestTrue
<1>5. step \in Steps
  BY DEF Init, Steps, WebConstants
<1> QED BY <1>1, <1>2, <1>3, <1>4, <1>5 DEF WebInv

LEMMA NextKeeps == ASSUME WebConstants, WebInv, [Next]_vars PROVE WebInv'
<1>1. ASSUME NEW r \in Slots, SessionRequest(r) \/ FactorRequest(r) PROVE WebInv'
  BY <1>1, LoginKeeps, RequestsKeep DEF SessionRequest
<1>2. ASSUME NEW r \in Slots, Transaction(r) PROVE WebInv'
  BY <1>2, FailureKeeps, CommitLoginKeeps, VerifyKeeps, RotateKeeps, ChangePasswordKeeps,
     InsertEnrollmentKeeps, ActivateKeeps, RecoverKeeps, RegenerateKeeps, DisableKeeps
     DEF Transaction
<1>3. ASSUME NEW s \in Sessions, Logout(s) PROVE WebInv'
  BY <1>3, LogoutKeeps
<1>4. CASE Operator
  BY <1>4, EnrollKeeps, ResetKeeps DEF Operator
<1>5. CASE Time
  BY <1>5, BucketTimeKeeps, SessionTimeKeeps, EnrollmentTimeKeeps, RestKeeps DEF Time
<1>6. CASE Quiet \/ UNCHANGED vars
  BY <1>6, RestKeeps DEF Quiet
<1> QED BY <1>1, <1>2, <1>3, <1>4, <1>5, <1>6 DEF Next

\* What the transactions rely on of each other holds in every reachable state: of the rows
\* and of every request that is under way.
THEOREM WebInvHolds == ASSUME WebConstants PROVE Spec => []WebInv
<1>1. Init => WebInv
  BY InitKeeps
<1>2. WebInv /\ [Next]_vars => WebInv'
  BY NextKeeps
<1> QED BY <1>1, <1>2, PTL DEF Spec

LEMMA InvariantIsSafe == ASSUME WebConstants, WebInv PROVE WebSafe
<1>1. SessionsTrue /\ FactorsTrue /\ BucketsTrue
  BY DEF WebInv
<1>2. TypeOK
  <2>1. \A s \in Sessions :
          /\ session[s].state \in {"none", "pending_totp", "active", "recovery_limited", "revoked"}
          /\ session[s].secret \in 0 .. MaxSecret /\ session[s].revision \in 0 .. MaxRevision
    BY <1>1 DEF SessionsTrue, SessionType
  <2>2. \A c \in Enrollments :
          /\ totp[c].state \in {"none", "pending", "active", "replaced"}
          /\ totp[c].last \in 0 .. MaxStep /\ totp[c].issue \in 0 .. MaxIssue
    BY <1>1 DEF FactorsTrue, EnrollmentType
  <2>3. \A k \in Kinds : bucket[k].count \in 0 .. Threshold
    BY <1>1 DEF BucketsTrue, BucketType
  <2> QED BY <1>1, <2>1, <2>2, <2>3 DEF TypeOK, SessionsTrue, FactorsTrue
<1>3. RowsAdmitted
  <2>1. \A s \in Sessions : session[s].state # "none" => SessionRow(session[s])
    BY <1>1 DEF SessionsTrue, SessionTrue
  <2>2. \A c \in Enrollments : totp[c].state # "none" => EnrollmentRow(totp[c])
    BY <1>1 DEF FactorsTrue, FactorTrue
  <2>3. ASSUME NEW k \in codes PROVE CodeRow(k)
    <3>1. CodeTrue(k) /\ k \in Enrollments \X (1 .. MaxIssue)
      BY <1>1 DEF FactorsTrue
    <3> QED BY <3>1 DEF CodeTrue, CodeRow, WebConstants
  <2>4. \A k \in Kinds : BucketRow(bucket[k])
    BY <1>1 DEF BucketsTrue, BucketTrue, BucketRow
  <2> QED BY <2>1, <2>2, <2>3, <2>4 DEF RowsAdmitted
<1>4. LiveSessionsCurrent
  BY <1>1 DEF LiveSessionsCurrent, SessionsTrue, SessionTrue
<1>5. OneActiveFactor
  <2>1. CASE ActiveTotp = {}
    BY <2>1, FS_EmptySet DEF OneActiveFactor
  <2>2. CASE ActiveTotp # {}
    <3>1. PICK c : c \in ActiveTotp
      BY <2>2
    <3>2. ActiveTotp = {c}
      BY <1>1, <3>1 DEF FactorsTrue
    <3> QED BY <3>2, FS_Singleton DEF OneActiveFactor
  <2> QED BY <2>1, <2>2
<1>6. StepSpentOnce
  BY <1>1 DEF StepSpentOnce, FactorsTrue, SpentTrue
<1>7. CodesInForce
  BY <1>1 DEF CodesInForce, FactorsTrue, CodeTrue, ActiveTotp
<1> QED BY <1>2, <1>3, <1>4, <1>5, <1>6, <1>7 DEF WebSafe

\* Every session that is not revoked is of the current credential, one factor is active, a
\* one-time code is accepted once, recovery codes are of the latest issue, and every row is
\* one its table admits: for any number of browsers, enrolments and requests in between.
THEOREM WebIsSafe == ASSUME WebConstants PROVE Spec => []WebSafe
<1>1. WebInv => WebSafe
  BY InvariantIsSafe
<1> QED BY <1>1, WebInvHolds, PTL
-------------------------------------------------------------------------------
(* What a step may never do to a session.                                  *)

\* A step leaves a revoked session revoked, and asks for the factor that is active.
StepAsks ==
    \A s \in Sessions :
       /\ session[s].state = "revoked" => session'[s].state = "revoked"
       /\ (session[s].state # "active" /\ session'[s].state = "active" /\ HasActiveTotp')
             => session'[s].method = "totp"

LEMMA OneSessionAsks ==
    ASSUME SessionsTrue, NEW s \in Sessions, NEW row, session' = [session EXCEPT ![s] = row],
           session[s].state = "revoked" => row.state = "revoked",
           (session[s].state # "active" /\ row.state = "active" /\ HasActiveTotp')
              => row.method = "totp"
    PROVE  StepAsks
<1>1. \A t \in Sessions : session'[t] = IF t = s THEN row ELSE session[t]
  BY DEF SessionsTrue
<1> QED BY <1>1 DEF StepAsks

\* The others are revoked, and the state of the one that is kept stays.
LEMMA OthersAsk ==
    ASSUME SessionsTrue, NEW s \in Sessions, NEW row, row.state = session[s].state,
           session' = [RevokeOthers(s) EXCEPT ![s] = row]
    PROVE  StepAsks
<1>1. session'[s] = row
  BY DEF RevokeOthers
<1>2. ASSUME NEW t \in Sessions, t # s
      PROVE  session'[t] = session[t] \/ session'[t].state = "revoked"
  <2>1. session'[t] = IF session[t].state \notin {"none", "revoked"} THEN Revoked(session[t])
                      ELSE session[t]
    BY <1>2 DEF RevokeOthers
  <2> QED BY <2>1, RevokedRow DEF SessionsTrue
<1> QED BY <1>1, <1>2 DEF StepAsks

LEMMA SessionsRestAsk == ASSUME UNCHANGED session PROVE StepAsks
  BY DEF StepAsks

\* Until the factor is active a login needs none, and afterwards the row starts pending.
LEMMA LoginAsks ==
    ASSUME WebInv, NEW r \in Slots, CommitLoginSuccess(r) PROVE StepAsks
<1> DEFINE s == req[r].session
<1>1. LoginTrue(r) /\ req[r].kind = "login" /\ SessionsTrue
  BY DEF WebInv, RequestsTrue, CommitLoginSuccess
<1>2. CASE MaterialCurrent(r)
  <2>1. PICK row : /\ row = [state |-> FirstState,
                             revision |-> req[r].revision, secret |-> 1, method |-> "password",
                             recent |-> ~HasActiveTotp, expired |-> FALSE,
                             authenticated |-> FirstState = "active", reauthenticated |-> FALSE]
                   /\ session' = [session EXCEPT ![s] = row]
                   /\ UNCHANGED totp
    BY <1>2 DEF CommitLoginSuccess
  <2>2. row.state = FirstState
    BY <2>1
  <2>3. HasActiveTotp' => FirstState # "active"
    BY <2>1 DEF HasActiveTotp, ActiveTotp, FirstState
  <2>4. s \in Sessions /\ session[s].state = "none"
    BY <1>1 DEF LoginTrue
  <2> QED BY <1>1, <2>1, <2>2, <2>3, <2>4, OneSessionAsks
<1>3. CASE ~MaterialCurrent(r)
  BY <1>3, SessionsRestAsk DEF CommitLoginSuccess, rows
<1> QED BY <1>2, <1>3

LEMMA RotationAsks ==
    ASSUME WebConstants, WebInv, NEW r \in Slots,
           RotateSessionSecrets(r) \/ ActivateEnrollment(r) \/ RecoverSession(r)
    PROVE  StepAsks
<1> DEFINE s == req[r].session
<1>1. SessionsTrue
  BY DEF WebInv
<1>2. CASE UNCHANGED session
  BY <1>2, SessionsRestAsk
<1>3. ASSUME req[r].kind \notin {"free", "login", "enroll"}, Unrotated(r), NEW to,
             NEW how, NEW again,
             session[s].state # "revoked",
             session' = [session EXCEPT ![s] = [Rotated(@) EXCEPT
                            !.state = to, !.method = how, !.recent = TRUE,
                            !.authenticated = TRUE, !.reauthenticated = again]],
             session[s].state = "active" \/ to # "active" \/ how = "totp"
      PROVE  StepAsks
  <2>1. s \in Sessions /\ session[s] \in SessionType /\ session[s].secret < MaxSecret
    BY <1>3, FollowedRow
  <2>2. PICK new \in SessionType : new = Rotated(session[s])
    BY <2>1, RotatedRow
  <2>3. PICK row : row = [new EXCEPT !.state = to, !.method = how, !.recent = TRUE,
                                     !.authenticated = TRUE, !.reauthenticated = again]
    OBVIOUS
  <2>4. row.state = to /\ row.method = how
    BY <2>3 DEF SessionType
  <2>5. session' = [session EXCEPT ![s] = row]
    BY <1>3, <2>2, <2>3
  <2> QED BY <1>1, <1>3, <2>1, <2>4, <2>5, OneSessionAsks
<1>4. CASE RotateSessionSecrets(r) /\ ~UNCHANGED session
  <2>1. PICK how : how = IF req[r].kind = "challenge" THEN "totp" ELSE session[s].method
    OBVIOUS
  <2>2. PICK again : again = (req[r].kind = "reauthenticate")
    OBVIOUS
  <2>3. /\ req[r].kind \in {"challenge", "reauthenticate"} /\ Unrotated(r) /\ SourceState(r)
        /\ session' = [session EXCEPT ![s] = [Rotated(session[s]) EXCEPT
                          !.state = "active", !.recent = TRUE, !.authenticated = TRUE,
                          !.reauthenticated = req[r].kind = "reauthenticate",
                          !.method = IF req[r].kind = "challenge" THEN "totp"
                                     ELSE session[s].method]]
    BY <1>4 DEF RotateSessionSecrets
  <2>4. s \in Sessions /\ session[s] \in SessionType /\ session[s].secret < MaxSecret
    BY <2>3, FollowedRow
  <2>5. PICK new \in SessionType : new = Rotated(session[s])
    BY <2>4, RotatedRow
  <2>6. PICK row : row = [new EXCEPT !.state = "active", !.recent = TRUE,
                                     !.authenticated = TRUE, !.reauthenticated = again,
                                     !.method = how]
    OBVIOUS
  <2>7. row.state = "active" /\ row.method = how
    BY <2>6 DEF SessionType
  <2>8. session' = [session EXCEPT ![s] = row]
    BY <2>1, <2>2, <2>3, <2>5, <2>6
  <2>9. session[s].state # "revoked" /\ (session[s].state # "active" => how = "totp")
    BY <2>1, <2>3 DEF SourceState
  <2> QED BY <1>1, <2>4, <2>7, <2>8, <2>9, OneSessionAsks
<1>5. CASE ActivateEnrollment(r) /\ ~UNCHANGED session
  <2>1. /\ req[r].kind = "activate" /\ Unrotated(r) /\ session[s].state = "recovery_limited"
        /\ session' = [session EXCEPT ![s] = [Rotated(@) EXCEPT
                          !.state = "active", !.method = "totp", !.recent = TRUE,
                          !.authenticated = TRUE, !.reauthenticated = FALSE]]
    BY <1>5 DEF ActivateEnrollment
  <2> QED BY <1>3, <2>1
<1>6. CASE RecoverSession(r) /\ ~UNCHANGED session
  <2>1. /\ req[r].kind = "recover" /\ Unrotated(r)
        /\ session[s].state \in {"pending_totp", "active"}
        /\ session' = [session EXCEPT ![s] = [Rotated(@) EXCEPT
                          !.state = "recovery_limited", !.method = "recovery", !.recent = TRUE,
                          !.authenticated = TRUE, !.reauthenticated = FALSE]]
    BY <1>6 DEF RecoverSession
  <2>2. session[s].state # "revoked" /\ req[r].kind \notin {"free", "login", "enroll"}
    BY <2>1
  <2> HIDE DEF s
  <2>3. "recovery_limited" # "active"
    OBVIOUS
  <2> QED BY <1>3, <2>1, <2>2, <2>3
<1> QED BY <1>2, <1>4, <1>5, <1>6

LEMMA CredentialAsks ==
    ASSUME WebConstants, WebInv, NEW r \in Slots, ChangePassword(r) \/ DisableTotp(r)
    PROVE  StepAsks
<1> DEFINE s == req[r].session
<1>1. SessionsTrue
  BY DEF WebInv
<1>2. CASE UNCHANGED session
  BY <1>2, SessionsRestAsk
<1>3. CASE ~UNCHANGED session
  <2>1. req[r].kind \in {"password", "disable"} /\ Unrotated(r)
    BY <1>3 DEF ChangePassword, DisableTotp, rows
  <2>2. s \in Sessions /\ session[s] \in SessionType /\ session[s].secret < MaxSecret
    BY <2>1, FollowedRow
  <2>3. RevokeOthers(s)[s] = session[s]
    BY <2>2 DEF RevokeOthers
  <2>4. PICK new \in SessionType : new = Rotated(session[s]) /\ new.state = session[s].state
    BY <2>2, RotatedRow
  <2>5. PICK revision : revision = credential.revision + 1
    OBVIOUS
  <2>6. CASE ChangePassword(r)
    <3>1. session' = [RevokeOthers(s) EXCEPT
                         ![s] = [Rotated(@) EXCEPT !.revision = credential.revision + 1]]
      BY <1>3, <2>6 DEF ChangePassword
    <3>2. PICK row : row = [new EXCEPT !.revision = revision]
      OBVIOUS
    <3>3. row.state = session[s].state
      BY <2>4, <3>2 DEF SessionType
    <3>4. session' = [RevokeOthers(s) EXCEPT ![s] = row]
      BY <2>3, <2>4, <2>5, <3>1, <3>2
    <3> QED BY <1>1, <2>2, <3>3, <3>4, OthersAsk
  <2>7. CASE DisableTotp(r)
    <3>1. session' = [RevokeOthers(s) EXCEPT
                         ![s] = [Rotated(@) EXCEPT !.revision = credential.revision + 1,
                                                   !.method = "password"]]
      BY <1>3, <2>7 DEF DisableTotp, rows
    <3>2. PICK row : row = [new EXCEPT !.revision = revision, !.method = "password"]
      OBVIOUS
    <3>3. row.state = session[s].state
      BY <2>4, <3>2 DEF SessionType
    <3>4. session' = [RevokeOthers(s) EXCEPT ![s] = row]
      BY <2>3, <2>4, <2>5, <3>1, <3>2
    <3> QED BY <1>1, <2>2, <3>3, <3>4, OthersAsk
  <2> QED BY <2>6, <2>7
<1> QED BY <1>2, <1>3

LEMMA SessionAloneAsks ==
    ASSUME WebInv, NEW s \in Sessions, Logout(s) \/ SessionExpires(s) \/ RecentEnds(s)
    PROVE  StepAsks
<1>1. SessionsTrue /\ session \in [Sessions -> SessionType]
  BY DEF WebInv, SessionsTrue
<1>2. PICK old \in SessionType : old = session[s]
  BY <1>1
<1>3. CASE Logout(s)
  <2>1. session' = [session EXCEPT ![s] = Revoked(session[s])]
    BY <1>3 DEF Logout
  <2>2. Revoked(session[s]).state = "revoked"
    BY <1>1, RevokedRow
  <2> QED BY <1>1, <2>1, <2>2, OneSessionAsks
<1>4. CASE SessionExpires(s)
  <2>1. session' = [session EXCEPT ![s] = [old EXCEPT !.expired = TRUE]]
    BY <1>1, <1>2, <1>4 DEF SessionExpires
  <2>2. [old EXCEPT !.expired = TRUE].state = old.state
    BY DEF SessionType
  <2> QED BY <1>1, <1>2, <2>1, <2>2, OneSessionAsks
<1>5. CASE RecentEnds(s)
  <2>1. session' = [session EXCEPT ![s] = [old EXCEPT !.recent = FALSE]]
    BY <1>1, <1>2, <1>5 DEF RecentEnds
  <2>2. [old EXCEPT !.recent = FALSE].state = old.state
    BY DEF SessionType
  <2> QED BY <1>1, <1>2, <2>1, <2>2, OneSessionAsks
<1> QED BY <1>3, <1>4, <1>5

LEMMA ResetAsks == ASSUME WebInv, ResetWebAuthentication PROVE StepAsks
<1>1. ASSUME NEW s \in Sessions
      PROVE  session'[s] = session[s] \/ session'[s].state = "revoked"
  <2>1. session'[s] = IF session[s].state = "none" THEN session[s] ELSE Revoked(session[s])
    BY DEF ResetWebAuthentication, RevokeAll
  <2> QED BY <2>1, RevokedRow DEF WebInv, SessionsTrue
<1> QED BY <1>1 DEF StepAsks

LEMMA NextAsks == ASSUME WebConstants, WebInv, [Next]_vars PROVE StepAsks
<1>1. ASSUME NEW r \in Slots, SessionRequest(r) \/ FactorRequest(r) PROVE StepAsks
  <2>1. UNCHANGED session
    BY <1>1 DEF SessionRequest, FactorRequest, Login, Reauthenticate, PasswordChange, Challenge,
                StartEnrollment, VerifyEnrollment, Recover, Regenerate, Disable, Prove, Begin, rows
  <2> QED BY <2>1, SessionsRestAsk
<1>2. ASSUME NEW r \in Slots, Transaction(r) PROVE StepAsks
  <2>1. CASE \/ RecordLoginFailure(r) \/ VerifyTotp(r) \/ RecordCodeFailure(r)
             \/ InsertPendingEnrollment(r) \/ RegenerateRecoveryCodes(r)
    <3>1. UNCHANGED session
      BY <2>1 DEF RecordLoginFailure, VerifyTotp, RecordCodeFailure, InsertPendingEnrollment,
                  RegenerateRecoveryCodes, rows
    <3> QED BY <3>1, SessionsRestAsk
  <2> QED BY <1>2, <2>1, LoginAsks, RotationAsks, CredentialAsks DEF Transaction
<1>3. ASSUME NEW s \in Sessions, Logout(s) PROVE StepAsks
  BY <1>3, SessionAloneAsks
<1>4. CASE Operator
  <2>1. CASE EnrollWebCredential
    <3>1. UNCHANGED session
      BY <2>1 DEF EnrollWebCredential
    <3> QED BY <3>1, SessionsRestAsk
  <2> QED BY <1>4, <2>1, ResetAsks DEF Operator
<1>5. CASE Time
  <2>1. ASSUME NEW k \in Kinds, WindowElapses(k) \/ LockEnds(k) PROVE UNCHANGED session
    BY <2>1 DEF WindowElapses, LockEnds, rows
  <2>2. ASSUME NEW c \in Enrollments, EnrollmentExpires(c) PROVE UNCHANGED session
    BY <2>2 DEF EnrollmentExpires
  <2>3. StepAdvances => UNCHANGED session
    BY DEF StepAdvances, rows
  <2> QED BY <1>5, <2>1, <2>2, <2>3, SessionAloneAsks, SessionsRestAsk DEF Time
<1>6. CASE Quiet \/ UNCHANGED vars
  <2>1. UNCHANGED session
    BY <1>6 DEF Quiet, vars
  <2> QED BY <2>1, SessionsRestAsk
<1> QED BY <1>1, <1>2, <1>3, <1>4, <1>5, <1>6 DEF Next

\* No session becomes active on a password while a factor is active, not even one whose
\* login began before there was one, and a revoked session never comes back.
THEOREM WebStepsHold == ASSUME WebConstants PROVE Spec => WebSteps
<1>1. StepAsks
      => \A s \in Sessions :
            session[s].state # "active" /\ session'[s].state = "active" /\ HasActiveTotp'
               => session'[s].method = "totp"
  BY DEF StepAsks
<1>2. StepAsks => \A s \in Sessions : session[s].state = "revoked" => session'[s].state = "revoked"
  BY DEF StepAsks
<1>3. WebInv /\ [Next]_vars => StepAsks
  BY NextAsks
<1> QED BY <1>1, <1>2, <1>3, WebInvHolds, PTL DEF Spec, WebSteps, SecondFactorNotSkipped, RevokedIsFinal
===============================================================================
