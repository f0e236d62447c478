--------------------------- MODULE SmallFileUpload ---------------------------
(***************************************************************************)
(* One journal event on its way through the small-file lane.               *)
(*                                                                         *)
(* The device runs passes over the event (queue-driver.ts): a preflight,   *)
(* then the content under the granted operation token, or the conflict     *)
(* candidate under a capture grant.  It waits for one request at a time,   *)
(* but a request that timed out goes on at the server, so orphans race     *)
(* with the requests of later passes.  A request is a sequence of          *)
(* transactions (small_file_sync/service.py); the policy, the source and   *)
(* the file in the vault change between any two of them, the device        *)
(* process dies, and a server request is dropped anywhere.                 *)
(*                                                                         *)
(* The event creates a source, or updates one whose base is version 1.     *)
(* "unchanged" is an update whose bytes are those of its base.  The file   *)
(* is below the single-part limit.                                         *)
(***************************************************************************)
EXTENDS Naturals, FiniteSets, UploadOperation

CONSTANTS
    Slots,          \* requests the server works on at once
    Tokens,         \* operation tokens: more than can be held at once
    MaxRevision,    \* bound on published policy revisions
    MaxVersion,     \* bound on the versions of the source
    MaxFaults       \* bound on timeouts, crashes and dropped requests

ASSUME SlotsAssumption == Slots \subseteq Nat \ {0}

\* The code mints 256 random bits: whatever the row, the journal event and the
\* requests hold, there is a token that nobody holds.
ASSUME TokensAssumption ==
    /\ 0 \notin Tokens
    /\ \A a, b \in Tokens \cup {0}, held \in [Slots -> Tokens \cup {0}] :
          \E t \in Tokens : t # a /\ t # b /\ \A s \in Slots : t # held[s]

ASSUME BoundsAssumption ==
    /\ MaxRevision \in Nat \ {0}
    /\ MaxVersion \in Nat \ {0, 1}
    /\ MaxFaults \in Nat

VARIABLES
    kind,       \* "create", "update" or "unchanged": what the event is
    row,        \* the operation row
    revision,   \* the active policy revision
    excluded,   \* the active revision excludes the file
    source,     \* the source's current version and whether it is deleted or occupied
    published,  \* the version this event published, or 0
    captured,   \* this event's candidate is held by a conflict
    req,        \* the server's requests, by slot
    event,      \* the journal event, durable on the device
    pass,       \* the device's running pass
    file,       \* the bytes at the event's path: "frozen", "changed" or "missing"
    faults

server == <<row, revision, excluded, source, published, captured>>
device == <<event, pass, file>>
vars   == <<kind, server, req, device, faults>>

-------------------------------------------------------------------------------
Free      == [kind |-> "free", pc |-> "done", token |-> 0, revision |-> 0, answer |-> "none"]
Base      == 1
Revisions == 1 .. MaxRevision
Versions  == 1 .. MaxVersion

\* States of a journal event the driver may still select, and the closed ones.
Pending   == {"queued", "preflight", "uploading", "waiting_retry"}
Closed    == event.state \notin Pending

\* A token nobody holds: the code mints 256 random bits.
FreshToken ==
    CHOOSE t \in Tokens : t # row.token /\ t # event.operation /\ \A s \in Slots : t # req[s].token

Init ==
    /\ kind \in {"create", "update", "unchanged"}
    /\ row = Absent
    /\ revision = 1 /\ excluded = FALSE
    /\ source = [version |-> IF kind = "create" THEN 0 ELSE Base, gone |-> FALSE]
    /\ published = 0 /\ captured = FALSE
    /\ req = [s \in Slots |-> Free]
    /\ event = [state |-> "queued", operation |-> 0, receipt |-> 0]
    /\ pass = [waits |-> 0, seen |-> "none", barrier |-> FALSE]
    /\ file = "frozen"
    /\ faults = 0

-------------------------------------------------------------------------------
(* The rest of the system.                                                 *)

PublishPolicy ==
    /\ revision < MaxRevision
    /\ revision' = revision + 1
    /\ excluded' \in BOOLEAN
    /\ UNCHANGED <<kind, row, source, published, captured, req, device, faults>>

\* Another device writes the source, or takes the path of the create.
OtherWrite ==
    /\ source.version < MaxVersion /\ ~source.gone
    /\ kind = "create" => published = 0
    /\ source' = [source EXCEPT !.version = @ + 1]
    /\ UNCHANGED <<kind, row, revision, excluded, published, captured, req, device, faults>>

OtherDelete ==
    /\ source.version > 0 /\ ~source.gone
    /\ kind # "create"
    /\ source' = [source EXCEPT !.gone = TRUE]
    /\ UNCHANGED <<kind, row, revision, excluded, published, captured, req, device, faults>>

\* Fifteen minutes pass on an operation that was not claimed.
ExpireOperation ==
    /\ row.state = "pending" /\ ~row.expired
    /\ faults < MaxFaults
    /\ row' = [row EXCEPT !.expired = TRUE]
    /\ faults' = faults + 1
    /\ UNCHANGED <<kind, revision, excluded, source, published, captured, req, device>>

EditFile ==
    /\ file = "frozen"
    /\ file' \in {"changed", "missing"}
    /\ UNCHANGED <<kind, server, req, event, pass, faults>>

-------------------------------------------------------------------------------
(* Requests at the server.                                                 *)

Goto(s, pc)        == req' = [req EXCEPT ![s].pc = pc]

\* Nobody reads the answer of an orphan: its slot is free again.
Answer(s, answer)  ==
    req' = [req EXCEPT ![s] = IF pass.waits = s
                              THEN [@ EXCEPT !.pc = "done", !.answer = answer]
                              ELSE Free]
AnswerToken(s, answer, token) ==
    req' = [req EXCEPT ![s] = IF pass.waits = s
                              THEN [@ EXCEPT !.pc = "done", !.answer = answer, !.token = token]
                              ELSE Free]
Reject(s, error)   == req' = [req EXCEPT ![s].pc = "reject", ![s].answer = error]

At(s, k, pc) == req[s].kind = k /\ req[s].pc = pc

\* A preflight: authorization first, in a transaction of its own.
PreflightAuthorize(s) ==
    /\ At(s, "preflight", "authorize")
    /\ IF excluded
       THEN Answer(s, "excluded")
       ELSE req' = [req EXCEPT ![s].pc = "frozen", ![s].revision = revision]
    /\ UNCHANGED <<kind, server, device, faults>>

\* A recorded result is answered again.
PreflightReplay(s) ==
    /\ At(s, "preflight", "frozen")
    /\ IF Terminal(row) THEN Answer(s, "result")
       ELSE Goto(s, IF kind = "create" THEN "reserve" ELSE "captured")
    /\ UNCHANGED <<kind, server, device, faults>>

\* A conflict captured for the event is answered with its identity.
PreflightCaptured(s) ==
    /\ At(s, "preflight", "captured")
    /\ IF captured THEN Answer(s, "conflict") ELSE Goto(s, "base")
    /\ UNCHANGED <<kind, server, device, faults>>

CurrentBase(s) == source.version = Base /\ ~source.gone

\* The base of an update against the current version.
PreflightBase(s) ==
    /\ At(s, "preflight", "base")
    /\ Goto(s, IF ~CurrentBase(s)          THEN "reserve_conflict"
               ELSE IF kind = "unchanged"  THEN "reserve_unchanged"
               ELSE "reserve")
    /\ UNCHANGED <<kind, server, device, faults>>

\* The reservation that ends a preflight; "unchanged" records its verdict afterwards.
PreflightReserve(s) ==
    /\ req[s].kind = "preflight"
    /\ req[s].pc \in {"reserve", "reserve_conflict", "reserve_unchanged"}
    /\ row' = Reserve(row, FreshToken, req[s].revision)
    /\ IF ~ReserveGrants(row) THEN Answer(s, "state_invalid")
       ELSE CASE req[s].pc = "reserve"           -> AnswerToken(s, "grant", row'.token)
              [] req[s].pc = "reserve_conflict"  -> AnswerToken(s, "capture_grant", row'.token)
              [] req[s].pc = "reserve_unchanged" ->
                     req' = [req EXCEPT ![s].pc = "unchanged", ![s].token = row'.token]
    /\ UNCHANGED <<kind, revision, excluded, source, published, captured, device, faults>>

PreflightUnchanged(s) ==
    /\ At(s, "preflight", "unchanged")
    /\ IF PreflightResultAccepted(row, req[s].token)
       THEN row' = RecordResult(row, Base, FALSE) /\ Answer(s, "result")
       ELSE row' = row /\ Answer(s, "retry")
    /\ UNCHANGED <<kind, revision, excluded, source, published, captured, device, faults>>

\* The content, or the conflict candidate, binds its token to the row.
Bind(s) ==
    /\ req[s].kind \in {"receive", "capture"} /\ req[s].pc = "resolve"
    /\ LET verdict == Resolve(row, req[s].token)
       IN  CASE verdict = "bound" ->
                    req' = [req EXCEPT ![s].pc = "store", ![s].revision = row.revision]
             [] verdict = "replay" ->
                    Answer(s, IF req[s].kind = "receive" THEN "result" ELSE "state_invalid")
             [] OTHER -> Answer(s, verdict)
    /\ row' = ResolveClaims(row, req[s].token)
    /\ UNCHANGED <<kind, revision, excluded, source, published, captured, device, faults>>

\* The stream is verified against the declared digest; the stream of a device that
\* went away may end early.
StoreStream(s) ==
    /\ req[s].kind \in {"receive", "capture"} /\ req[s].pc = "store"
    /\ \/ Goto(s, IF req[s].kind = "receive" THEN "publish" ELSE "observe")
       \/ pass.waits # s /\ Reject(s, "integrity")
    /\ UNCHANGED <<kind, server, device, faults>>

\* The command of the bound operation: a create needs its path, an update its base.
Publishable(s) == IF kind = "create" THEN source.version = 0 ELSE CurrentBase(s)

\* The revision the row was bound to is still the active one.
PolicyCurrent(s) == req[s].revision = revision

\* The publication transaction of the bound operation; an event that was published
\* is answered again after the policy is checked again.
Publish(s) ==
    LET r     == req[s]
        fence == Fence(row, r.token, r.revision)
    IN  /\ At(s, "receive", "publish")
        /\ CASE fence # "held" ->
                   Reject(s, fence) /\ UNCHANGED <<row, source, published>>
             [] fence = "held" /\ ~PolicyCurrent(s) ->
                   Answer(s, "retry") /\ UNCHANGED <<row, source, published>>
             [] fence = "held" /\ PolicyCurrent(s) /\ published # 0 ->
                   /\ row' = BoundResult(row, r.token, r.revision, published, TRUE)
                   /\ Goto(s, "record")
                   /\ UNCHANGED <<source, published>>
             [] fence = "held" /\ PolicyCurrent(s) /\ published = 0 ->
                   IF Publishable(s)
                   THEN /\ published' = source.version + 1
                        /\ source' = [source EXCEPT !.version = @ + 1]
                        /\ row' = BoundResult(row, r.token, r.revision, published', TRUE)
                        /\ Goto(s, "record")
                   ELSE /\ Reject(s, IF kind = "create" THEN "occupied" ELSE "retry")
                        /\ UNCHANGED <<row, source, published>>
        /\ UNCHANGED <<kind, revision, excluded, captured, device, faults>>

\* The service records the result once more, in a transaction of its own.
RecordTerminal(s) ==
    /\ At(s, "receive", "record")
    /\ row' = BoundResult(row, req[s].token, req[s].revision, published, TRUE)
    /\ Answer(s, IF BoundResultAccepted(row, req[s].token, req[s].revision, published, TRUE)
                 THEN "result" ELSE "retry")
    /\ UNCHANGED <<kind, revision, excluded, source, published, captured, device, faults>>

\* The candidate's remote is read again: a base that is current again is no conflict.
ObserveRemote(s) ==
    /\ At(s, "capture", "observe")
    /\ IF CurrentBase(s) THEN Reject(s, "state_invalid") ELSE Goto(s, "capture")
    /\ UNCHANGED <<kind, server, device, faults>>

\* The conflict keeps the candidate; the operation row stays as it is.
Capture(s) ==
    /\ At(s, "capture", "capture")
    /\ IF excluded
       THEN captured' = captured /\ Reject(s, "retry")
       ELSE captured' = TRUE /\ Answer(s, "captured")
    /\ UNCHANGED <<kind, row, revision, excluded, source, published, device, faults>>

\* A rejection that no retry can cure closes the row, when it still is the bound one.
PersistRejection(s) ==
    /\ req[s].pc = "reject"
    /\ row' = BoundFailure(row, req[s].token, req[s].revision, req[s].answer)
    /\ Answer(s, req[s].answer)
    /\ UNCHANGED <<kind, revision, excluded, source, published, captured, device, faults>>

\* The request ends without effect: a database error, a restart of the server.
Drop(s) ==
    /\ req[s].kind # "free" /\ req[s].pc # "done"
    /\ faults < MaxFaults
    /\ faults' = faults + 1
    /\ Answer(s, "retry")
    /\ UNCHANGED <<kind, server, device>>

\* The three handlers, as the steps they are made of.
Preflight(s) ==
    \/ PreflightAuthorize(s) \/ PreflightReplay(s) \/ PreflightCaptured(s) \/ PreflightBase(s)
    \/ PreflightReserve(s) \/ PreflightUnchanged(s)

Receive(s) ==
    /\ req[s].kind = "receive"
    /\ Bind(s) \/ StoreStream(s) \/ Publish(s) \/ RecordTerminal(s) \/ PersistRejection(s)

ReceiveCandidate(s) ==
    /\ req[s].kind = "capture"
    /\ Bind(s) \/ StoreStream(s) \/ ObserveRemote(s) \/ Capture(s) \/ PersistRejection(s)

ServerStep(s) == Preflight(s) \/ Receive(s) \/ ReceiveCandidate(s)

-------------------------------------------------------------------------------
(* The device.                                                             *)

Request(k, token) ==
    [Free EXCEPT !.kind = k, !.token = token,
                 !.pc = IF k = "preflight" THEN "authorize" ELSE "resolve"]

Idle == [pass EXCEPT !.waits = 0, !.seen = "none"]

\* A pass takes the event, freezes its fingerprint and sends the preflight.
RunPass ==
    /\ pass.waits = 0 /\ ~Closed /\ ~pass.barrier
    /\ \E s \in {t \in Slots : req[t].kind = "free"} :
          /\ \A t \in Slots : req[t].kind = "free" => s <= t
          /\ req' = [req EXCEPT ![s] = Request("preflight", 0)]
          /\ pass' = [pass EXCEPT !.waits = s, !.seen = event.state]
    /\ event' = [event EXCEPT !.state = IF @ \in {"queued", "waiting_retry"} THEN "preflight" ELSE @]
    /\ UNCHANGED <<kind, server, file, faults>>

\* The answer the pass waits for has arrived.
Got(s, k) == pass.waits = s /\ req[s].kind = k /\ req[s].pc = "done"

CloseEvent(s, state) ==
    /\ event' = [event EXCEPT !.state = state]
    /\ pass' = [Idle EXCEPT !.barrier = (state = "blocked_conflict")]
    /\ req' = [req EXCEPT ![s] = Free]

ScheduleRetry(s) ==
    /\ event' = [event EXCEPT !.state = "waiting_retry"]
    /\ pass' = Idle
    /\ req' = [req EXCEPT ![s] = Free]

PersistReceipt(s) ==
    /\ event' = [event EXCEPT !.state = IF row.changed THEN "committed" ELSE "no_change",
                              !.receipt = row.result]
    /\ pass' = Idle
    /\ req' = [req EXCEPT ![s] = Free]

\* The token is durable before the first byte leaves; then the file is read again.
StreamContent(s, token) ==
    LET uploading == [event EXCEPT !.state = "uploading", !.operation = token]
    IN  IF file = "frozen"
        THEN /\ event' = uploading
             /\ req' = [req EXCEPT ![s] = Request("receive", token)]
             /\ pass' = pass
        ELSE /\ event' = [uploading EXCEPT !.state = IF file = "missing" THEN "deferred_lifecycle"
                                                                       ELSE "integrity_failed"]
             /\ req' = [req EXCEPT ![s] = Free]
             /\ pass' = Idle

\* The capture grant's token is not made durable; bytes that changed are no evidence.
StreamConflictCandidate(s) ==
    IF file = "frozen"
    THEN req' = [req EXCEPT ![s] = Request("capture", req[s].token)] /\ UNCHANGED <<event, pass>>
    ELSE CloseEvent(s, "blocked_conflict")

\* Mutant: a claimed operation is not resumed.
NeverResume == FALSE

\* The event was taken while it held a token: that token may be resumed.
ClaimedResume == pass.seen \in {"uploading", "waiting_retry"} /\ event.operation # 0

\* What the plugin makes of a wire error code.
WireFailure(answer) ==
    CASE answer \in {"integrity", "mismatch"} -> "integrity_failed"
      [] answer = "occupied"                  -> "blocked_conflict"
      [] OTHER                                -> "retry"

OnFailure(s) ==
    LET failure == WireFailure(req[s].answer)
    IN  IF failure = "retry" THEN ScheduleRetry(s) ELSE CloseEvent(s, failure)

OnPreflight(s) ==
    /\ Got(s, "preflight")
    /\ CASE req[s].answer = "excluded"      -> CloseEvent(s, "excluded_policy")
         [] req[s].answer = "conflict"      -> CloseEvent(s, "blocked_conflict")
         [] req[s].answer = "capture_grant" -> StreamConflictCandidate(s)
         [] req[s].answer = "result"        -> PersistReceipt(s)
         [] req[s].answer = "grant"         -> StreamContent(s, req[s].token)
         [] req[s].answer = "state_invalid" ->
                IF ClaimedResume THEN StreamContent(s, event.operation) ELSE ScheduleRetry(s)
         [] OTHER                           -> OnFailure(s)
    /\ UNCHANGED <<kind, server, file, faults>>

OnReceive(s) ==
    /\ Got(s, "receive")
    /\ IF req[s].answer = "result" THEN PersistReceipt(s) ELSE OnFailure(s)
    /\ UNCHANGED <<kind, server, file, faults>>

OnCapture(s) ==
    /\ Got(s, "capture")
    /\ IF req[s].answer = "captured" THEN CloseEvent(s, "blocked_conflict") ELSE OnFailure(s)
    /\ UNCHANGED <<kind, server, file, faults>>

\* The device stops waiting; the request goes on without it.
Timeout ==
    /\ pass.waits # 0
    /\ faults < MaxFaults
    /\ faults' = faults + 1
    /\ event' = [event EXCEPT !.state = "waiting_retry"]
    /\ req' = [req EXCEPT ![pass.waits] = IF @.pc = "done" THEN Free ELSE @]
    /\ pass' = Idle
    /\ UNCHANGED <<kind, server, file>>

\* The plugin is closed or dies: the journal stays as it was written.
Crash ==
    /\ pass.waits # 0
    /\ faults < MaxFaults
    /\ faults' = faults + 1
    /\ req' = [req EXCEPT ![pass.waits] = IF @.pc = "done" THEN Free ELSE @]
    /\ pass' = Idle
    /\ UNCHANGED <<kind, server, event, file>>

DeviceStep == RunPass \/ \E s \in Slots : OnPreflight(s) \/ OnReceive(s) \/ OnCapture(s)

Environment ==
    \/ PublishPolicy \/ OtherWrite \/ OtherDelete \/ ExpireOperation \/ EditFile
    \/ Timeout \/ Crash \/ \E s \in Slots : Drop(s)

\* The end of the event: everything it started has ended too.
Done ==
    /\ Closed
    /\ \A s \in Slots : req[s].kind = "free"
    /\ UNCHANGED vars

Next == DeviceStep \/ (\E s \in Slots : ServerStep(s)) \/ Environment \/ Done

Spec == Init /\ [][Next]_vars

\* The server finishes the requests it accepts and the device keeps running passes.
Fairness ==
    /\ WF_vars(DeviceStep)
    /\ \A s \in Slots : WF_vars(ServerStep(s))

FairSpec == Spec /\ Fairness

-------------------------------------------------------------------------------
EventStates == Pending \cup {"committed", "no_change", "excluded_policy", "blocked_conflict",
                             "deferred_lifecycle", "integrity_failed"}

\* The shapes of the operation row, of the journal event and of the requests; a row
\* always has its token.
TypeOK ==
    /\ row \in Rows(Tokens, Revisions, Versions)
    /\ row.state # "absent" => row.token # 0
    /\ revision \in Revisions /\ source.version \in 0 .. MaxVersion
    /\ published \in 0 .. MaxVersion /\ captured \in BOOLEAN
    /\ event.state \in EventStates /\ event.operation \in Tokens \cup {0}
    /\ pass.waits \in Slots \cup {0}
    /\ \A s \in Slots : req[s].kind \in {"free", "preflight", "receive", "capture"}

\* A source version exists for this event exactly when the operation row says so:
\* publication and the row's terminal result are one transaction, however many
\* orphaned requests still hold a token (acquire_bound_publication_fence).
FencedPublication ==
    published # 0 <=> Terminal(row) /\ row.changed /\ row.result = published

\* What the device files as its receipt is what was published: an event it holds for
\* committed has its version in the store, and a no-change verdict published nothing.
ReceiptTrue ==
    /\ event.state = "committed" => published # 0 /\ event.receipt = published
    /\ event.state = "no_change" => published = 0 /\ event.receipt = Base

\* A version is published only while the active policy allows the file, whichever
\* request publishes it: every reservation was authorized under the revision it is
\* bound to, and the bound revision is checked again inside the publication
\* transaction. (A verdict the device was told binds no orphan: once a later revision
\* allows the file again, one may still publish.)
PublishedAsAllowed == [][published' # published => ~excluded]_vars

\* An update closed as a conflict has its bytes kept on the server, unless the user
\* changed the file first, when the next event carries the newer bytes.
ConflictRetained ==
    event.state = "blocked_conflict" /\ kind # "create" => captured \/ file # "frozen"

\* An upload closed as a lost integrity really lost it: the file was changed, or a
\* preflight that was authorized under an older policy revision rebound the row
\* while the content was on its way.
IntegrityVerdict ==
    event.state = "integrity_failed" => file # "frozen" \/ revision > 1

\* An event that creates a source is closed at last, whatever requests were lost:
\* the claimed token is resumed until its result is read.
CreateSettles == kind = "create" => <>Closed

\* What one small upload promises: a published version is the one its row names, the
\* device's receipt says so, and a closed event is closed for the reason given.
\* Every row written on the way is one its table admits.
SmallSafe ==
    /\ TypeOK /\ (row # Absent => OperationRow(row))
    /\ FencedPublication /\ ReceiptTrue /\ ConflictRetained /\ IntegrityVerdict
=============================================================================
