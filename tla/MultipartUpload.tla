--------------------------- MODULE MultipartUpload ---------------------------
(***************************************************************************)
(* One journal event whose file is too large for a single request.         *)
(*                                                                         *)
(* The device opens a session for the event's upload operation, puts the   *)
(* parts at the provider and asks for completion (multipart-upload.ts).    *)
(* The service is a sequence of transactions and provider calls            *)
(* (multipart_upload/service.py, multipart_upload_store.py); a completion  *)
(* holds a lease on the session, a session lives for a day, and the        *)
(* cleanup worker strikes overdue sessions and removes what dead ones left *)
(* at the provider.  Requests that timed out go on, leases run out, the    *)
(* policy and the source change, and any request may be dropped.           *)
(***************************************************************************)
EXTENDS Naturals, FiniteSets, UploadOperation

CONSTANTS
    Slots,          \* requests and cleanup runs in progress at once
    Tokens,         \* operation tokens: more than can be held at once
    Parts,          \* the parts of the file
    Uploads,        \* provider uploads that may be opened
    MaxRevision,    \* bound on published policy revisions
    MaxFaults       \* bound on timeouts, expiries and dropped requests

VARIABLES
    kind,       \* "create" or "update": what the event is
    row,        \* the operation row
    revision,   \* the active policy revision
    excluded,   \* the active revision excludes the file
    version,    \* the source's current version
    published,  \* the version this event published, or 0
    session,    \* the session row of the operation
    upload,     \* the provider's uploads: "none", "open", "completed" or "aborted"
    stored,     \* parts the provider holds for the session's upload
    object,     \* the staging object exists
    req,        \* requests and cleanup runs, by slot
    event,      \* state of the journal event, durable on the device
    progress,   \* the device's durable progress: a session is known, and the parts done
    waits,      \* the slot the device waits for, or 0
    file,       \* the bytes at the event's path: "frozen" or "changed"
    faults

server   == <<row, revision, excluded, version, published>>
provider == <<upload, stored, object>>
device   == <<event, progress, waits, file>>
vars     == <<kind, server, session, provider, req, device, faults>>

-------------------------------------------------------------------------------
Forward     == {"created", "uploading", "completing"}
PartUrl     == {"created", "uploading"}
Obligations == {"cancelling", "expired", "integrity_failed", "policy_denied"}
Dead        == Obligations \cup {"cleanup_pending", "cleaned"}

Base == 1
Free == [kind |-> "free", pc |-> "done", token |-> 0, revision |-> 0, upload |-> 0,
         part |-> 0, second |-> FALSE, parts |-> {}, answer |-> "none"]

NoSession == [state |-> "none", upload |-> 0, sealed |-> 0, claim |-> 0, lease |-> FALSE,
              overdue |-> FALSE, cleanup |-> "none", result |-> 0]

NoProgress   == [known |-> FALSE, parts |-> {}]
Known(parts) == [known |-> TRUE, parts |-> parts]

Pending == {"queued", "waiting_retry"}
Closed  == event \notin Pending

FreshToken ==
    CHOOSE t \in Tokens : t # row.token /\ t # session.sealed /\ \A s \in Slots : t # req[s].token

Init ==
    /\ kind \in {"create", "update"}
    /\ row = Absent /\ revision = 1 /\ excluded = FALSE
    /\ version = IF kind = "create" THEN 0 ELSE Base
    /\ published = 0
    /\ session = NoSession
    /\ upload = [u \in Uploads |-> "none"] /\ stored = {} /\ object = FALSE
    /\ req = [s \in Slots |-> Free]
    /\ event = "queued" /\ progress = NoProgress /\ waits = 0 /\ file = "frozen"
    /\ faults = 0

At(s, k, pc)      == req[s].kind = k /\ req[s].pc = pc
Goto(s, pc)       == req' = [req EXCEPT ![s].pc = pc]
Answer(s, answer) ==
    req' = [req EXCEPT ![s] = IF waits = s THEN [@ EXCEPT !.pc = "done", !.answer = answer]
                                           ELSE Free]

-------------------------------------------------------------------------------
(* The rest of the system, and time.                                       *)

PublishPolicy ==
    /\ revision < MaxRevision
    /\ revision' = revision + 1
    /\ excluded' \in BOOLEAN
    /\ UNCHANGED <<kind, row, version, published, session, provider, req, device, faults>>

OtherWrite ==
    /\ kind = "update" /\ version = Base
    /\ version' = version + 1
    /\ UNCHANGED <<kind, row, revision, excluded, published, session, provider, req, device, faults>>

EditFile ==
    /\ file = "frozen" /\ file' = "changed"
    /\ UNCHANGED <<kind, server, session, provider, req, event, progress, waits, faults>>

Fault == faults < MaxFaults /\ faults' = faults + 1

\* A day passes: the session is overdue.
SessionOverdue ==
    /\ session.state \in Forward /\ ~session.overdue
    /\ Fault
    /\ session' = [session EXCEPT !.overdue = TRUE]
    /\ UNCHANGED <<kind, server, provider, req, device>>

\* A claim's holder is still at work: a completion, an abort or a cleanup past its claim.
Held(s) == req[s].kind \in {"complete", "abort", "cleanup"} /\ req[s].pc \notin {"start", "done"}

\* The lease of the completion or of the cleanup runs out, under its holder or after it.
LeaseEnds ==
    /\ session.lease
    /\ IF Held(session.claim) THEN Fault ELSE UNCHANGED faults
    /\ session' = [session EXCEPT !.lease = FALSE]
    /\ UNCHANGED <<kind, server, provider, req, device>>

Drop(s) ==
    /\ req[s].kind # "free" /\ req[s].pc # "done"
    /\ Fault
    /\ Answer(s, "retry")
    /\ UNCHANGED <<kind, server, session, provider, device>>

-------------------------------------------------------------------------------
(* The session row.                                                        *)

\* Forward states only: the deadline strikes no session that already ended.
Expired == session.overdue /\ session.state \in Forward

\* reserve_session: the one session of the operation, sealed with the token just minted.
ReserveSession(token) ==
    IF session.state = "none" THEN [NoSession EXCEPT !.state = "created", !.sealed = token]
                              ELSE [session EXCEPT !.sealed = token]

IdentityAccepted(u) == session.state \in PartUrl /\ ~Expired /\ session.upload = 0

ClaimVerdict(s) ==
    IF session.upload = 0 THEN "gone"
    ELSE IF session.state = "committed" THEN "result"
    ELSE IF Expired THEN "gone"
    ELSE CASE session.state \in PartUrl      -> "claimed"
           [] session.state = "completing" -> IF session.lease THEN "busy" ELSE "claimed"
           [] OTHER                        -> "gone"

Claimed(s) == [session EXCEPT !.state = "completing", !.claim = s, !.lease = TRUE]

\* Mutant: the terminal write is not fenced by the claim.
AnyHolder(s) == TRUE

\* Only the holder of a live lease on a session that still completes lands an outcome.
HoldsLease(s) == session.state = "completing" /\ session.claim = s /\ session.lease

LandFailure(s, state) ==
    IF HoldsLease(s)
    THEN [session EXCEPT !.state = state, !.claim = 0, !.lease = FALSE, !.cleanup = "pending"]
    ELSE session

LandResult(s, result) ==
    IF HoldsLease(s)
    THEN [session EXCEPT !.state = "committed", !.claim = 0, !.lease = FALSE, !.result = result]
    ELSE session

\* The deadline takes a session whatever claim is live on it.
Strike ==
    IF Expired
    THEN [session EXCEPT !.state = "expired", !.claim = 0, !.lease = FALSE, !.cleanup = "pending"]
    ELSE session

\* Mutant: an obligation whose cleanup failed is not taken up again.
CleanupOnce(record) == record.cleanup = "pending" /\ ~record.lease

CleanupDue(record) == record.cleanup \in {"pending", "failed"} /\ ~record.lease

CleanupClaimed(record, s) ==
    [record EXCEPT !.state = IF @ \in Obligations THEN "cleanup_pending" ELSE @,
                   !.claim = s, !.lease = TRUE]

CleanupSucceeded ==
    [session EXCEPT !.state = "cleaned", !.claim = 0, !.lease = FALSE, !.cleanup = "succeeded"]

CleanupFailed == [session EXCEPT !.claim = 0, !.lease = FALSE, !.cleanup = "failed"]

-------------------------------------------------------------------------------
(* Requests that open and feed a session.                                  *)

Authorized(s) == ~excluded
BaseCurrent   == kind = "create" \/ version = Base

\* The preflight of a file this size reserves nothing.
Preflight(s) ==
    /\ At(s, "preflight", "start")
    /\ Answer(s, IF excluded THEN "denied"
                 ELSE IF Terminal(row) THEN "result"
                 ELSE IF ~BaseCurrent THEN "conflict" ELSE "multipart")
    /\ UNCHANGED <<kind, server, session, provider, device, faults>>

CreateAuthorize(s) ==
    /\ At(s, "create", "start")
    /\ IF ~Authorized(s) THEN Answer(s, "denied")
       ELSE req' = [req EXCEPT ![s].pc = "base", ![s].revision = revision]
    /\ UNCHANGED <<kind, server, session, provider, device, faults>>

CreateReserve(s) ==
    /\ At(s, "create", "base")
    /\ IF BaseCurrent
       THEN /\ row' = Reserve(row, FreshToken, req[s].revision)
            /\ IF ReserveGrants(row)
               THEN req' = [req EXCEPT ![s].pc = "session", ![s].token = row'.token]
               ELSE Answer(s, "op_invalid")
       ELSE row' = row /\ Answer(s, "retry")
    /\ UNCHANGED <<kind, revision, excluded, version, published, session, provider, device, faults>>

\* The token is looked up again: a reservation that lost its row is refused.
CreateSession(s) ==
    /\ At(s, "create", "session")
    /\ IF row.token # req[s].token \/ Expired
       THEN session' = session /\ Answer(s, "gone")
       ELSE /\ session' = ReserveSession(req[s].token)
            /\ CASE session.upload = 0                               -> Goto(s, "upload")
                 [] session.upload # 0 /\ session.state \in Forward  -> Answer(s, "plan")
                 [] OTHER                                            -> Answer(s, "gone")
    /\ UNCHANGED <<kind, server, provider, device, faults>>

\* A fresh upload; the name of an aborted one that nothing refers to stands for a new one.
Unused(u) ==
    /\ upload[u] \in {"none", "aborted"} /\ u # session.upload
    /\ \A t \in Slots : req[t].upload # u

CreateUpload(s) ==
    /\ At(s, "create", "upload")
    /\ \E u \in Uploads :
          /\ Unused(u) /\ \A v \in Uploads : Unused(v) => u <= v
          /\ upload' = [upload EXCEPT ![u] = "open"]
          /\ req' = [req EXCEPT ![s].pc = "identity", ![s].upload = u]
    /\ UNCHANGED <<kind, server, session, stored, object, device, faults>>

RecordIdentity(s) ==
    /\ At(s, "create", "identity")
    /\ IF IdentityAccepted(req[s].upload)
       THEN session' = [session EXCEPT !.upload = req[s].upload] /\ Answer(s, "plan")
       ELSE session' = session /\ Goto(s, "forget")
    /\ UNCHANGED <<kind, server, provider, device, faults>>

\* The upload that could not be recorded is aborted, as far as the provider lets it.
AbortFresh(s) ==
    /\ At(s, "create", "forget")
    /\ upload' = [upload EXCEPT ![req[s].upload] = "aborted"]
    /\ Answer(s, IF session.state \in PartUrl /\ ~Expired THEN "integrity" ELSE "gone")
    /\ UNCHANGED <<kind, server, session, stored, object, device, faults>>

\* What the provider already has is recorded while the session takes parts.
Status(s) ==
    /\ At(s, "status", "start")
    /\ CASE Expired -> Answer(s, "gone") /\ session' = session
         [] ~Expired /\ session.state \in PartUrl /\ upload[session.upload] # "open" ->
                Answer(s, "integrity") /\ session' = session
         [] ~Expired /\ session.state \in PartUrl /\ upload[session.upload] = "open" ->
                /\ req' = [req EXCEPT ![s] =
                               IF waits = s THEN [@ EXCEPT !.pc = "done", !.answer = "status",
                                                           !.parts = stored]
                                            ELSE Free]
                /\ session' = [session EXCEPT !.state = IF stored = {} THEN @ ELSE "uploading"]
         [] OTHER -> Answer(s, session.state) /\ session' = session
    /\ UNCHANGED <<kind, server, provider, device, faults>>

\* The evidence a part or a completion needs: the sealed token must still be the
\* row's, and the row is claimed.
EvidenceVerdict ==
    IF session.sealed # row.token \/ row.state = "failed" THEN "gone" ELSE "bound"

EvidenceClaims ==
    IF EvidenceVerdict = "bound" /\ row.state = "pending" THEN ReceiveClaim(row) ELSE row

IssuePartUrl(s) ==
    /\ At(s, "part", "start")
    /\ IF Expired \/ session.state \notin PartUrl \/ EvidenceVerdict # "bound"
       THEN row' = row /\ Answer(s, "gone")
       ELSE row' = EvidenceClaims /\ Answer(s, IF Authorized(s) THEN "url" ELSE "denied")
    /\ UNCHANGED <<kind, revision, excluded, version, published, session, provider, device, faults>>

-------------------------------------------------------------------------------
(* Completion.                                                             *)

ClaimCompletion(s) ==
    /\ At(s, "complete", "start")
    /\ session' = IF ClaimVerdict(s) = "claimed" THEN Claimed(s) ELSE session
    /\ IF ClaimVerdict(s) = "claimed" THEN Goto(s, "evidence") ELSE Answer(s, ClaimVerdict(s))
    /\ UNCHANGED <<kind, server, provider, device, faults>>

LoadEvidence(s) ==
    /\ At(s, "complete", "evidence")
    /\ row' = EvidenceClaims
    /\ IF EvidenceVerdict = "bound"
       THEN req' = [req EXCEPT ![s].pc = "recheck", ![s].token = row.token, ![s].revision = row.revision]
       ELSE Answer(s, "gone")
    /\ UNCHANGED <<kind, revision, excluded, version, published, session, provider, device, faults>>

\* Policy and base once more; their verdict lands on the session before it is answered.
Recheck(s) ==
    /\ At(s, "complete", "recheck")
    /\ CASE ~Authorized(s) -> session' = LandFailure(s, "policy_denied") /\ Answer(s, "denied")
         [] Authorized(s) /\ ~BaseCurrent ->
                session' = LandFailure(s, "cancelling") /\ Answer(s, "retry")
         [] OTHER -> session' = session /\ Goto(s, "list")
    /\ UNCHANGED <<kind, server, provider, device, faults>>

\* The parts the provider has, all of them, then the provider's own completion.
ListParts(s) ==
    /\ At(s, "complete", "list")
    /\ IF upload[session.upload] = "open" /\ stored = Parts
       THEN Goto(s, "finish") /\ session' = session
       ELSE session' = LandFailure(s, "integrity_failed") /\ Answer(s, "integrity")
    /\ UNCHANGED <<kind, server, provider, device, faults>>

FinishUpload(s) ==
    /\ At(s, "complete", "finish")
    /\ IF upload[session.upload] = "open"
       THEN /\ upload' = [upload EXCEPT ![session.upload] = "completed"]
            /\ object' = TRUE
            /\ Goto(s, "verify") /\ session' = session
       ELSE /\ UNCHANGED <<upload, object>>
            /\ session' = LandFailure(s, "integrity_failed") /\ Answer(s, "integrity")
    /\ UNCHANGED <<kind, server, stored, device, faults>>

\* The staging object is read back into the canonical store under its digest; one
\* that is gone is a dependency failure, which leaves the claim to run out.
VerifyStaging(s) ==
    /\ At(s, "complete", "verify")
    /\ IF object THEN Goto(s, "publish") ELSE Answer(s, "retry")
    /\ UNCHANGED <<kind, server, session, provider, device, faults>>

\* Mutant: the publication transaction does not look at the operation row.
Unfenced(s) == "held"

PublicationFence(s) == Fence(row, req[s].token, req[s].revision)

Publish(s) ==
    LET r     == req[s]
        fence == PublicationFence(s)
    IN  /\ At(s, "complete", "publish")
        /\ CASE fence # "held" ->
                   /\ session' = LandFailure(s, "cancelling")
                   /\ Answer(s, IF fence = "mismatch" THEN "integrity" ELSE "retry")
                   /\ UNCHANGED <<row, version, published>>
             [] fence = "held" /\ r.revision # revision ->
                   Answer(s, "retry") /\ UNCHANGED <<row, version, published, session>>
             [] fence = "held" /\ r.revision = revision /\ published = 0 /\ ~BaseCurrent ->
                   /\ session' = LandFailure(s, "cancelling")
                   /\ Answer(s, "retry")
                   /\ UNCHANGED <<row, version, published>>
             [] fence = "held" /\ r.revision = revision /\ published # 0 ->
                   /\ row' = BoundResult(row, r.token, r.revision, published, TRUE)
                   /\ Goto(s, "record")
                   /\ UNCHANGED <<version, published, session>>
             [] fence = "held" /\ r.revision = revision /\ published = 0 /\ BaseCurrent ->
                   /\ published' = version + 1
                   /\ version' = version + 1
                   /\ row' = BoundResult(row, r.token, r.revision, published', TRUE)
                   /\ Goto(s, "record")
                   /\ UNCHANGED session
        /\ UNCHANGED <<kind, revision, excluded, provider, device, faults>>

\* The session's own terminal result, fenced by the lease, in a later transaction.
RecordTerminal(s) ==
    /\ At(s, "complete", "record")
    /\ session' = LandResult(s, published)
    /\ IF HoldsLease(s) THEN Goto(s, "unstage")
       ELSE Answer(s, IF session.state = "completing" THEN "busy" ELSE "gone")
    /\ UNCHANGED <<kind, server, provider, device, faults>>

DeleteStaging(s) ==
    /\ At(s, "complete", "unstage")
    /\ object' = FALSE
    /\ Answer(s, "result")
    /\ UNCHANGED <<kind, server, session, upload, stored, device, faults>>

\* An abort claims the completion and lands the cancellation in two transactions.
AbortSession(s) ==
    /\ At(s, "abort", "start")
    /\ IF session.state \in PartUrl /\ ~Expired /\ session.upload # 0
       THEN session' = Claimed(s) /\ Goto(s, "cancel")
       ELSE session' = session /\ Answer(s, "aborted")
    /\ UNCHANGED <<kind, server, provider, device, faults>>

CancelSession(s) ==
    /\ At(s, "abort", "cancel")
    /\ session' = LandFailure(s, "cancelling")
    /\ Answer(s, "aborted")
    /\ UNCHANGED <<kind, server, provider, device, faults>>

Complete(s) ==
    \/ ClaimCompletion(s) \/ LoadEvidence(s) \/ Recheck(s) \/ ListParts(s) \/ FinishUpload(s)
    \/ VerifyStaging(s) \/ Publish(s) \/ RecordTerminal(s) \/ DeleteStaging(s)

CreateOrResume(s) ==
    \/ CreateAuthorize(s) \/ CreateReserve(s) \/ CreateSession(s) \/ CreateUpload(s)
    \/ RecordIdentity(s) \/ AbortFresh(s)

Abort(s) == AbortSession(s) \/ CancelSession(s)

-------------------------------------------------------------------------------
(* The cleanup worker: one run at a time takes a free slot.                *)

AbortUpload(u) ==
    IF u # 0 /\ upload[u] = "open" THEN [upload EXCEPT ![u] = "aborted"] ELSE upload

LeastFree(s) == req[s].kind = "free" /\ \A t \in Slots : req[t].kind = "free" => s <= t

\* Overdue sessions are struck and one due obligation is claimed, in one transaction.
ClaimCleanup ==
    LET struck == Strike
    IN  /\ CleanupDue(struck)
        /\ \A t \in Slots : req[t].kind # "cleanup"
        /\ \E s \in Slots :
              /\ LeastFree(s)
              /\ req' = [req EXCEPT ![s] = [Free EXCEPT !.kind = "cleanup", !.pc = "abort"]]
              /\ session' = CleanupClaimed(struck, s)
        /\ UNCHANGED <<kind, server, provider, device, faults>>

CleanupAbort(s) ==
    /\ At(s, "cleanup", "abort")
    /\ upload' = AbortUpload(session.upload)
    /\ Goto(s, "delete")
    /\ UNCHANGED <<kind, server, session, stored, object, device, faults>>

CleanupDelete(s) ==
    /\ At(s, "cleanup", "delete")
    /\ object' = FALSE
    /\ Goto(s, "record")
    /\ UNCHANGED <<kind, server, session, upload, stored, device, faults>>

\* A provider call that fails is recorded too and comes back after a while.
CleanupFails(s) ==
    /\ req[s].kind = "cleanup" /\ req[s].pc \in {"abort", "delete"}
    /\ Fault
    /\ Goto(s, "failed")
    /\ UNCHANGED <<kind, server, session, provider, device>>

\* Fenced by the claim, its lease and the unfinished obligation; a refusal is counted.
RecordCleanup(s) ==
    /\ req[s].kind = "cleanup" /\ req[s].pc \in {"record", "failed"}
    /\ session' =
          IF session.claim # s \/ ~session.lease \/ session.cleanup = "succeeded" THEN session
          ELSE IF req[s].pc = "record"
          THEN CleanupSucceeded ELSE CleanupFailed
    /\ req' = [req EXCEPT ![s] = Free]
    /\ UNCHANGED <<kind, server, provider, device, faults>>

ExactCleanup(s) == CleanupAbort(s) \/ CleanupDelete(s) \/ RecordCleanup(s)

-------------------------------------------------------------------------------
(* The device.                                                             *)

Request(k)    == [Free EXCEPT !.kind = k, !.pc = "start"]
Send(s, r)    == req' = [req EXCEPT ![s] = r]
Got(s, k)     == waits = s /\ req[s].kind = k /\ req[s].pc = "done"
Keep          == UNCHANGED <<kind, server, session, provider, file, faults>>

RunPass ==
    /\ waits = 0 /\ ~Closed
    /\ \E s \in Slots : LeastFree(s) /\ waits' = s /\ Send(s, Request("preflight"))
    /\ UNCHANGED <<event, progress>> /\ Keep

Close(s, state) ==
    event' = state /\ waits' = 0 /\ Send(s, Free) /\ UNCHANGED progress

ScheduleRetry(s) == Close(s, "waiting_retry")

\* A session the server no longer knows: the next pass creates one.
ForgetSession(s) ==
    event' = "waiting_retry" /\ waits' = 0 /\ Send(s, Free) /\ progress' = NoProgress

\* The failure of a multipart request.
OnFailure(s) ==
    CASE req[s].answer = "gone"      -> ForgetSession(s)
      [] req[s].answer = "denied"    -> Close(s, "excluded_policy")
      [] req[s].answer = "integrity" -> Close(s, "integrity_failed")
      [] OTHER                       -> ScheduleRetry(s)

\* What a session's observed state means for the event.
ApplySessionVerdict(s) ==
    CASE req[s].answer = "completing"       -> ScheduleRetry(s)
      [] req[s].answer = "integrity_failed" -> Close(s, "integrity_failed")
      [] req[s].answer = "policy_denied"    -> Close(s, "excluded_policy")
      [] req[s].answer \in {"expired", "cancelling", "cleanup_pending", "cleaned"} ->
             ForgetSession(s)

\* The next unfinished part, or the completion; a file that changed ends the session.
NextRequest(s, done) ==
    /\ \/ /\ file = "changed" /\ Send(s, Request("abort"))
       \/ /\ file = "frozen" /\ done # Parts
          /\ \E p \in Parts \ done : Send(s, [Request("part") EXCEPT !.part = p])
       \/ /\ file = "frozen" /\ done = Parts /\ Send(s, Request("complete"))
    /\ progress' = Known(done) /\ UNCHANGED <<event, waits>>

OnPreflight(s) ==
    /\ Got(s, "preflight")
    /\ CASE req[s].answer = "denied"    -> Close(s, "excluded_policy")
         [] req[s].answer = "result"    -> Close(s, "committed")
         [] req[s].answer = "conflict"  -> Close(s, "blocked_conflict")
         [] req[s].answer = "multipart" ->
                /\ Send(s, Request(IF progress.known THEN "status" ELSE "create"))
                /\ UNCHANGED <<event, progress, waits>>
         [] req[s].answer = "retry"     -> ScheduleRetry(s)
    /\ Keep

OnCreate(s) ==
    /\ Got(s, "create")
    /\ IF req[s].answer = "plan" THEN NextRequest(s, {}) ELSE OnFailure(s)
    /\ Keep

\* The resume: what the server knows and what the device knew.
OnStatus(s) ==
    /\ Got(s, "status") /\ ~req[s].second
    /\ CASE req[s].answer = "committed"                        -> Close(s, "committed")
         [] req[s].answer = "status"                           -> NextRequest(s, progress.parts \cup req[s].parts)
         [] req[s].answer \in {"gone", "integrity", "retry"}   -> OnFailure(s)
         [] OTHER                                              -> ApplySessionVerdict(s)
    /\ Keep

OnPartUrl(s) ==
    /\ Got(s, "part")
    /\ IF req[s].answer = "url"
       THEN /\ Send(s, [Request("put") EXCEPT !.part = req[s].part, !.second = req[s].second])
            /\ UNCHANGED <<event, progress, waits>>
       ELSE OnFailure(s)
    /\ Keep

\* The bytes of a part reach the provider, the device waiting for them or not.
PutPart(s) ==
    /\ At(s, "put", "start")
    /\ \/ /\ upload[session.upload] = "open"
          /\ stored' = stored \cup {req[s].part}
          /\ Answer(s, "uploaded")
          /\ UNCHANGED faults
       \/ /\ upload[session.upload] # "open"
          /\ UNCHANGED <<stored, faults>> /\ Answer(s, "rejected")
       \/ Fault /\ UNCHANGED stored /\ Answer(s, "rejected")
    /\ UNCHANGED <<kind, server, session, upload, object, device>>

\* A URL that was refused: the status is read, and the part is tried once more.
OnPut(s) ==
    /\ Got(s, "put")
    /\ CASE req[s].answer = "uploaded" -> NextRequest(s, progress.parts \cup {req[s].part})
         [] req[s].answer = "rejected" /\ ~req[s].second ->
                /\ Send(s, [Request("status") EXCEPT !.part = req[s].part, !.second = TRUE])
                /\ UNCHANGED <<event, progress, waits>>
         [] OTHER -> ScheduleRetry(s)
    /\ Keep

OnSecondStatus(s) ==
    LET known == progress.parts \cup req[s].parts
    IN  /\ Got(s, "status") /\ req[s].second
        /\ CASE req[s].answer \in {"gone", "integrity", "retry"} -> OnFailure(s)
             [] req[s].answer = "committed" ->
                    Send(s, Request("complete")) /\ UNCHANGED <<event, progress, waits>>
             [] OTHER ->
                    IF req[s].part \in known THEN NextRequest(s, known)
                    ELSE /\ Send(s, [Request("part") EXCEPT !.part = req[s].part, !.second = TRUE])
                         /\ progress' = Known(known) /\ UNCHANGED <<event, waits>>
        /\ Keep

OnComplete(s) ==
    /\ Got(s, "complete")
    /\ IF req[s].answer = "result" THEN Close(s, "committed") ELSE OnFailure(s)
    /\ Keep

\* The abort is best effort; the event closes whatever it answered.
OnAbort(s) == Got(s, "abort") /\ Close(s, "integrity_failed") /\ Keep

\* The device stops waiting, or stops: the request goes on, the journal stays.
Timeout ==
    /\ waits # 0
    /\ Fault
    /\ req' = [req EXCEPT ![waits] = IF @.pc = "done" THEN Free ELSE @]
    /\ waits' = 0 /\ event' = "waiting_retry"
    /\ UNCHANGED <<kind, server, session, provider, progress, file>>

ServerStep(s) ==
    Preflight(s) \/ CreateOrResume(s) \/ Status(s) \/ IssuePartUrl(s) \/ Complete(s) \/ Abort(s)

OnAnswer(s) ==
    \/ OnPreflight(s) \/ OnCreate(s) \/ OnStatus(s) \/ OnPartUrl(s) \/ OnPut(s)
    \/ OnSecondStatus(s) \/ OnComplete(s) \/ OnAbort(s)

DeviceStep == RunPass \/ \E s \in Slots : OnAnswer(s)

WorkerStep == ClaimCleanup \/ \E s \in Slots : ExactCleanup(s)

Environment ==
    \/ PublishPolicy \/ OtherWrite \/ EditFile \/ SessionOverdue \/ LeaseEnds \/ Timeout
    \/ \E s \in Slots : Drop(s) \/ CleanupFails(s)

Done ==
    /\ Closed /\ \A s \in Slots : req[s].kind = "free"
    /\ UNCHANGED vars

Next ==
    DeviceStep \/ WorkerStep \/ Environment \/ Done \/ \E s \in Slots : ServerStep(s) \/ PutPart(s)

Spec == Init /\ [][Next]_vars

\* The worker runs, its leases end by themselves, requests finish and passes go on.
Fairness ==
    /\ WF_vars(DeviceStep) /\ WF_vars(WorkerStep)
    /\ WF_vars(LeaseEnds /\ ~Held(session.claim))
    /\ \A s \in Slots : WF_vars(ServerStep(s)) /\ WF_vars(PutPart(s))

FairSpec == Spec /\ Fairness

-------------------------------------------------------------------------------
SessionStates == {"none", "committed"} \cup Forward \cup Dead

\* The shapes of the session, of the provider's uploads and of the device's progress;
\* a session that committed or has parts has its upload recorded.
TypeOK ==
    /\ row \in Rows(Tokens, 1 .. MaxRevision, 1 .. Base + 2)
    /\ session.state \in SessionStates /\ session.upload \in Uploads \cup {0}
    /\ session.sealed \in Tokens \cup {0} /\ session.claim \in Slots \cup {0}
    /\ session.cleanup \in {"none", "pending", "failed", "succeeded"}
    /\ session.state \in {"uploading", "completing", "committed"} => session.upload # 0
    /\ stored \subseteq Parts /\ progress.parts \subseteq Parts
    /\ waits \in Slots \cup {0}
    /\ event \in Pending \cup {"committed", "excluded_policy", "blocked_conflict", "integrity_failed"}

\* A session that says committed names the version its own event published, and the
\* operation row says the same: publication, row and session are three transactions,
\* ordered so that the last one can only repeat the first (record_terminal_result).
SessionTruth ==
    /\ session.state = "committed" =>
          published # 0 /\ session.result = published /\ Terminal(row) /\ row.result = published
    /\ event = "committed" => published # 0

\* What a cleaned session left at the provider is gone for good: no completion, part or
\* creation that is still on its way brings its upload or its staging object back.
CleanedForGood ==
    session.cleanup = "succeeded" =>
        ~object /\ (session.upload # 0 => upload[session.upload] # "open")

\* A session that ended never works again: no late holder of a lease, and no replayed
\* creation, takes it back to a state in which it accepts parts or completes.
NoResurrection == [][session.state \in Dead => session'.state \in Dead]_vars

\* An outcome lands on a completing session from the holder of its live lease alone, or
\* from the deadline: a completion whose lease was replaced decides nothing.
OutcomeFenced ==
    [][session.state = "completing" /\ session'.state # "completing"
       => \/ session'.state \in {"expired", "cleanup_pending"} /\ session.overdue
          \/ session.lease /\ req[session.claim] # req'[session.claim]]_vars

\* Every obligation a dead session leaves is cleaned up at last, however often the
\* provider fails or a worker dies holding the claim.
CleanupSettles == (session.state \in Dead) ~> (session.cleanup = "succeeded")

\* The table of sessions: a result exactly on a committed row, `cleaned' exactly when its
\* cleanup succeeded, a lease only with a claim (ck_multipart_uploads__terminal_shape,
\* __cleanup_shape, __claim_lease), and parts only of an upload that is known.
SessionRow ==
    /\ session.state = "committed" <=> session.result # 0
    /\ session.state = "cleaned" <=> session.cleanup = "succeeded"
    /\ session.lease => session.claim # 0
    /\ session.state \in Obligations => session.cleanup # "none"
    /\ session.state \in Forward \cup {"committed"} => session.cleanup = "none"

PartRows == stored \subseteq Parts /\ (stored # {} => session.upload # 0)

\* What a multipart session promises at any moment: a committed session names the
\* version of its own event, and nothing of a cleaned one is left at the provider.
\* Every row written on the way is one its table admits.
MultiSafe ==
    /\ TypeOK /\ SessionRow /\ PartRows /\ (row # Absent => OperationRow(row))
    /\ SessionTruth /\ CleanedForGood

\* An ended session stays ended, and only its live holder or the deadline ends it.
MultiSteps == NoResurrection /\ OutcomeFenced
=============================================================================
