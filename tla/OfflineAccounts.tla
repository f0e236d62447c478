--------------------------- MODULE OfflineAccounts ---------------------------
(***************************************************************************)
(* The stores in memory that stand in for the credential, session and TOTP *)
(* tables in the offline runtime (authentication_composition.py:           *)
(* OfflineCredentialStore, OfflineSessionStore and OfflineTotpStore).      *)
(*                                                                         *)
(* Every call is one step, but a service reads before it calls: a call may *)
(* carry a session secret that was rotated meanwhile, or a credential      *)
(* revision that is no longer current.  Sessions live in a dictionary kept *)
(* by secret, whose order is the order of insertion; a call that fails     *)
(* half way through it leaves the first half changed.                      *)
(***************************************************************************)
EXTENDS Naturals, Sequences, FiniteSets

CONSTANTS
    Sessions,       \* browser sessions
    Enrollments,    \* TOTP credentials, 1 .. n
    MaxChanges,     \* bound on changes of the credential
    MaxSecret,      \* bound on secrets of one session
    MaxIssue,       \* bound on issues of recovery codes
    MaxStep,        \* bound on TOTP time steps
    Threshold       \* failures that lock a bucket

VARIABLES
    revision,   \* credential_revision
    sessions,   \* sessions_by_secret_hash, in insertion order
    factors,    \* totp_credential_rows
    codes,      \* recovery_code_rows not used yet: enrolment and issue
    bucket,     \* failures counted since the window began, and whether they lock
    proven,     \* sessions a service has verified a code for, not yet rotated
    changes     \* committed changes of the credential

vars == <<revision, sessions, factors, codes, bucket, proven, changes>>

Steps == 1 .. MaxStep

-------------------------------------------------------------------------------
NoFactor == [state |-> "none", last |-> 0, issue |-> 0, lapsed |-> FALSE]

Init ==
    /\ revision = 1 /\ sessions = <<>> /\ codes = {} /\ proven = {} /\ changes = 0
    /\ factors = [e \in Enrollments |-> NoFactor]
    /\ bucket = [count |-> 0, locked |-> FALSE]

Row(id, rows)  == {i \in 1 .. Len(rows) : rows[i].id = id}
Present(id)    == Row(id, sessions) # {}
At(id)         == CHOOSE i \in Row(id, sessions) : TRUE
Session(id)    == sessions[At(id)]
Without(id)    == SelectSeq(sessions, LAMBDA row : row.id # id)

\* A call carries the secret of the session, or the one it had before.
Carried(id, secret) == Present(id) /\ secret \in {Session(id).secret, Session(id).secret - 1} \ {0}
Fits(id, secret)    == Present(id) /\ Session(id).secret = secret

\* The entry moves to the end under its new secret.
Rotated(row)    == [row EXCEPT !.secret = @ + 1]
Reinsert(id, row) == Append(Without(id), Rotated(row))
Room(id)        == Session(id).secret < MaxSecret

Authenticates(row) == row.state = "active" /\ row.revision = revision /\ ~row.lapsed

ChallengeEligible(row) == row.state # "revoked" /\ ~row.lapsed

ActiveFactors == {e \in Enrollments : factors[e].state = "active"}

-------------------------------------------------------------------------------
(* Throttling, sign-in and passwords.                                      *)

\* A bucket that is locked keeps its state; the attempt that reaches the threshold locks it.
NextFailure(b) ==
    IF b.locked THEN b ELSE [count |-> b.count + 1, locked |-> b.count + 1 >= Threshold]

RecordFailure == bucket' = NextFailure(bucket) /\ bucket' # bucket
                 /\ UNCHANGED <<revision, sessions, factors, codes, proven, changes>>

WindowElapses == bucket.count > 0 /\ bucket' = [count |-> 0, locked |-> FALSE]
                 /\ UNCHANGED <<revision, sessions, factors, codes, proven, changes>>

\* The password was verified under the revision the service read, which is not read again.
CommitLoginSuccess(id, expected) ==
    /\ ~Present(id) /\ ~bucket.locked
    /\ sessions' = Append(sessions,
          [id |-> id, secret |-> 1, revision |-> expected, lapsed |-> FALSE,
           state |-> IF ActiveFactors # {} THEN "pending_totp" ELSE "active"])
    /\ UNCHANGED <<revision, factors, codes, bucket, proven, changes>>

Revoked(row) == [row EXCEPT !.state = "revoked"]

\* Mutant: the other entries move to the new revision and stay open.
CarryOthers(rows, id, next) ==
    [i \in 1 .. Len(rows) |-> IF rows[i].id = id THEN rows[i]
                              ELSE [rows[i] EXCEPT !.revision = next]]

\* Every other entry is revoked and carries the new revision.
RevokeOthers(rows, id, next) ==
    [i \in 1 .. Len(rows) |-> IF rows[i].id = id THEN rows[i]
                              ELSE [Revoked(rows[i]) EXCEPT !.revision = next]]

ChangePassword(id, secret, expected) ==
    /\ Fits(id, secret) /\ Room(id) /\ changes < MaxChanges
    /\ revision' = expected + 1
    /\ sessions' = Append(RevokeOthers(Without(id), id, expected + 1),
                          Rotated([Session(id) EXCEPT !.revision = expected + 1]))
    /\ changes' = changes + 1
    /\ UNCHANGED <<factors, codes, bucket, proven>>

-------------------------------------------------------------------------------
(* Sessions.                                                               *)

\* Only the state the cause starts from is rotated; a re-authentication keeps it.
RotateSessionSecrets(id, secret, from) ==
    /\ Fits(id, secret) /\ Room(id)
    /\ Session(id).state = from
    /\ id \in proven
    /\ sessions' = Reinsert(id, [Session(id) EXCEPT !.state = "active"])
    /\ proven' = proven \ {id}
    /\ UNCHANGED <<revision, factors, codes, bucket, changes>>

RevokeSession(id, secret) ==
    /\ Fits(id, secret) /\ Session(id).state # "revoked"
    /\ sessions' = [sessions EXCEPT ![At(id)] = Revoked(@)]
    /\ UNCHANGED <<revision, factors, codes, bucket, proven, changes>>

SessionLapses(id) ==
    /\ Present(id) /\ ~Session(id).lapsed
    /\ sessions' = [sessions EXCEPT ![At(id)].lapsed = TRUE]
    /\ UNCHANGED <<revision, factors, codes, bucket, proven, changes>>

-------------------------------------------------------------------------------
(* The second factor.                                                      *)

Replaced(row) == [row EXCEPT !.state = "replaced"]

\* An enrolment in progress gives way to the next; beside an active factor only a
\* recovery may enrol.
InsertPendingEnrollment(e, id) ==
    /\ factors[e].state = "none" /\ \A d \in Enrollments : factors[d].state = "none" => e <= d
    /\ Present(id) /\ ChallengeEligible(Session(id)) /\ Session(id).state \in {"active", "recovery_limited"}
    /\ ActiveFactors = {} \/ Session(id).state = "recovery_limited"
    /\ factors' = [d \in Enrollments |->
          IF d = e THEN [NoFactor EXCEPT !.state = "pending"]
          ELSE IF factors[d].state = "pending" THEN Replaced(factors[d]) ELSE factors[d]]
    /\ UNCHANGED <<revision, sessions, codes, bucket, proven, changes>>

EnrollmentLapses(e) ==
    /\ factors[e].state = "pending" /\ ~factors[e].lapsed
    /\ factors' = [factors EXCEPT ![e].lapsed = TRUE]
    /\ UNCHANGED <<revision, sessions, codes, bucket, proven, changes>>

\* A step is accepted only beyond the one accepted last.
Accepts(e, step) == step > factors[e].last

VerifyTotp(id, step) == \E e \in ActiveFactors :
    /\ Present(id) /\ ChallengeEligible(Session(id)) /\ id \notin proven
    /\ Accepts(e, step)
    /\ factors' = [factors EXCEPT ![e].last = step]
    /\ bucket' = [count |-> 0, locked |-> FALSE]
    /\ proven' = proven \cup {id}
    /\ UNCHANGED <<revision, sessions, codes, changes>>

\* The pending factor replaces the active one and gets its codes; a recovery session is
\* completed with it, or, when its secret no longer fits, the call fails after the fact.
ActivateEnrollment(e, id, secret, step) ==
    /\ factors[e].state = "pending" /\ ~factors[e].lapsed /\ Accepts(e, step)
    /\ Present(id)
    /\ factors' = [d \in Enrollments |->
          CASE d = e -> [factors[e] EXCEPT !.state = "active", !.last = step, !.issue = 1]
            [] d # e /\ factors[d].state = "active" -> Replaced(factors[d])
            [] OTHER -> factors[d]]
    /\ codes' = codes \cup {<<e, 1>>}
    /\ sessions' = IF Session(id).state = "recovery_limited" /\ Fits(id, secret) /\ Room(id)
                   THEN Reinsert(id, [Session(id) EXCEPT !.state = "active"]) ELSE sessions
    /\ UNCHANGED <<revision, bucket, proven, changes>>

\* The code is spent before the session is looked at.
RecoverSession(id, secret, code) ==
    /\ Carried(id, secret) /\ code \in codes /\ code[1] \in ActiveFactors
    /\ codes' = codes \ {code}
    /\ sessions' = IF Fits(id, secret) /\ Room(id) /\ Session(id).state \in {"pending_totp", "active"}
                   THEN Reinsert(id, [Session(id) EXCEPT !.state = "recovery_limited"]) ELSE sessions
    /\ UNCHANGED <<revision, factors, bucket, proven, changes>>

RegenerateRecoveryCodes == \E e \in ActiveFactors :
    /\ factors[e].issue < MaxIssue
    /\ factors' = [factors EXCEPT ![e].issue = @ + 1]
    /\ codes' = {c \in codes : c[1] # e} \cup {<<e, factors[e].issue + 1>>}
    /\ UNCHANGED <<revision, sessions, bucket, proven, changes>>

\* Entries before the caller's own are revoked, then its secret is compared: when it no
\* longer fits the call fails there, and the rest of the dictionary is as it was.
RevokedUpTo(last) == [i \in 1 .. Len(sessions) |-> IF i < last THEN Revoked(sessions[i]) ELSE sessions[i]]

RevokedBut(id) == [i \in 1 .. Len(Without(id)) |-> Revoked(Without(id)[i])]

DisableTotp(id, secret) ==
    /\ Carried(id, secret) /\ Room(id) /\ ActiveFactors # {} /\ changes < MaxChanges
    /\ factors' = [e \in Enrollments |-> IF factors[e].state = "none" THEN factors[e] ELSE Replaced(factors[e])]
    /\ codes' = {}
    /\ revision' = revision + 1
    /\ sessions' = IF Fits(id, secret)
                   THEN Append(RevokedBut(id), Rotated([Session(id) EXCEPT !.revision = revision + 1]))
                   ELSE RevokedUpTo(At(id))
    /\ changes' = changes + 1
    /\ UNCHANGED <<bucket, proven>>

-------------------------------------------------------------------------------
Secrets == 1 .. MaxSecret

CredentialCall(id) ==
    \/ \E expected \in 1 .. revision : CommitLoginSuccess(id, expected)
    \/ \E secret \in Secrets, expected \in 1 .. revision : ChangePassword(id, secret, expected)

SessionCall(id) == \E secret \in Secrets :
    \/ RevokeSession(id, secret)
    \/ \E from \in {"pending_totp", "active"} : RotateSessionSecrets(id, secret, from)

TotpCall(id) ==
    \/ \E e \in Enrollments : InsertPendingEnrollment(e, id)
    \/ \E step \in Steps : VerifyTotp(id, step)
    \/ \E secret \in Secrets :
          \/ DisableTotp(id, secret)
          \/ \E code \in codes : RecoverSession(id, secret, code)
          \/ \E e \in Enrollments, step \in Steps : ActivateEnrollment(e, id, secret, step)

Next ==
    \/ RecordFailure \/ WindowElapses \/ RegenerateRecoveryCodes
    \/ \E e \in Enrollments : EnrollmentLapses(e)
    \/ \E id \in Sessions : CredentialCall(id) \/ SessionCall(id) \/ TotpCall(id) \/ SessionLapses(id)

Spec == Init /\ [][Next]_vars

-------------------------------------------------------------------------------
TypeOK ==
    /\ revision \in 1 .. MaxChanges + 1
    /\ \A i \in 1 .. Len(sessions) :
          sessions[i].state \in {"pending_totp", "active", "recovery_limited", "revoked"}
    /\ \A e \in Enrollments : factors[e].state \in {"none", "pending", "active", "replaced"}

\* One entry per session, one active and one pending factor, and the codes that would be
\* accepted are of the latest issue of the factor in force.
RowsSound ==
    /\ \A id \in Sessions : Cardinality(Row(id, sessions)) <= 1
    /\ Cardinality(ActiveFactors) <= 1
    /\ Cardinality({e \in Enrollments : factors[e].state = "pending"}) <= 1
    /\ \A c \in codes : factors[c[1]].state = "active" => c[2] = factors[c[1]].issue

AccountsSafe == TypeOK /\ RowsSound

\* After a password change or the end of the second factor at most one session still
\* authenticates, whatever a call that was under way carried with it.
ChangeClosesOthers ==
    [][changes' # changes
       => Cardinality({i \in 1 .. Len(sessions') :
              /\ sessions'[i].state = "active" /\ sessions'[i].revision = revision'
              /\ ~sessions'[i].lapsed}) <= 1]_vars

\* A revoked session stays revoked, and an accepted step is never accepted again.
NothingComesBack ==
    [][/\ \A i \in 1 .. Len(sessions), j \in 1 .. Len(sessions') :
             sessions[i].id = sessions'[j].id /\ sessions[i].state = "revoked"
                => sessions'[j].state = "revoked"
       /\ \A e \in Enrollments : factors'[e].last # factors[e].last => factors'[e].last > factors[e].last]_vars

AccountSteps == ChangeClosesOthers /\ NothingComesBack
=============================================================================
