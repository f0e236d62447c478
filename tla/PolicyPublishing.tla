-------------------------- MODULE PolicyPublishing --------------------------
(***************************************************************************)
(* The path of an exclusion policy from a draft to a published revision.   *)
(* The workspace owner replaces the rules of the one draft, asks for a     *)
(* preview of what the draft would exclude, and publishes the draft by     *)
(* naming the preview.  A dispatcher leases pending previews and starts    *)
(* one Temporal workflow for each; the workflow's activity evaluates the   *)
(* draft against every source in one repeatable-read transaction.          *)
(*                                                                         *)
(* The code is policy_drafts.py, policy_previews.py, policy_publication.py *)
(* (the store), policy_preview_workflow.py and policy_workflow_runtime.py  *)
(* (the worker) and exclusion_policy_routes.py (the owner's requests).     *)
(* Rule sets are values of Rules, hashes are the values hashed, and the    *)
(* impact digest is the triple the evaluation read.  Time is left out: a   *)
(* lease, a deadline or an expiry may pass at any moment.                  *)
(***************************************************************************)
EXTENDS Naturals, Sequences, FiniteSets, TLC

CONSTANTS Rules,        \* contents a draft can have
          Previews,     \* identities of preview rows
          Slots,        \* concurrent requests of the owner
          Keys,         \* publication idempotency keys
          Dispatchers,  \* worker processes that dispatch previews
          MaxVersion,   \* bound on the draft's version
          MaxRevision,  \* bound on published revisions
          MaxWorld,     \* bound on writes that change a source
          MaxConflict,  \* bound on conflict events
          MaxAttempts,  \* activity attempts Temporal grants a workflow
          MaxRequests,  \* bound on the requests the owner makes
          MaxFaults     \* bound on lost answers and crashes

VARIABLES draft,      \* the draft row with its rules
          revisions,  \* source_policies, oldest first
          intents,    \* revisions with a pending reconciliation intent
          previews,   \* policy_previews
          world,      \* how often a source changed
          conflicts,  \* how many conflict events were appended
          locked,     \* the slot that holds the policy state row, or 0
          slots,      \* the owner's requests
          leases,     \* what each dispatcher is dispatching
          flows,      \* the Temporal workflow of each preview
          requests,   \* requests so far
          faults      \* faults so far

\* Zero stands for no preview, slot or dispatcher; a fresh draft has no rules.
PublishingConstants ==
    /\ "none" \in Rules
    /\ Previews \subseteq Nat \ {0} /\ 0 \notin Slots /\ 0 \notin Dispatchers
    /\ MaxVersion \in Nat \ {0} /\ MaxAttempts \in Nat \ {0}
    /\ MaxRevision \in Nat /\ MaxWorld \in Nat /\ MaxConflict \in Nat
    /\ MaxRequests \in Nat /\ MaxFaults \in Nat

vars == <<draft, revisions, intents, previews, world, conflicts, locked,
          slots, leases, flows, requests, faults>>
ownerVars == <<draft, revisions, intents, locked, slots, requests>>
workerVars == <<leases, flows>>
sourceVars == <<world, conflicts>>

None == [kind |-> "none"]
Absent == [state |-> "absent"]
Executable == {"pending", "leased", "running"}

Active == Len(revisions)
Intent(n) == intents \union {n}
Checkpoint == world + conflicts
Fault == faults < MaxFaults /\ faults' = faults + 1
Ask == requests < MaxRequests /\ requests' = requests + 1

-----------------------------------------------------------------------------
(* The draft                                                               *)

\* The migration seeds every workspace with an empty draft of version 1.
SeededDraft == [version |-> 1, rules |-> "none", base |-> 0]

Draft == [version |-> draft.version, rules |-> draft.rules, base |-> draft.base]

\* The status page, from which the owner edits and publishes.
Status == [version |-> draft.version, active |-> Active]

\* The READY previews of the version that was replaced.
ExpireReady(version) ==
    [p \in Previews |->
        IF previews[p].state = "ready" /\ previews[p].version = version
        THEN [previews[p] EXCEPT !.state = "expired"] ELSE previews[p]]

ReplaceRules(version, rules) ==
    /\ draft' = [draft EXCEPT !.version = version + 1, !.rules = rules]
    /\ previews' = ExpireReady(version)

MatchesReplacement(version, rules) ==
    draft.version = version + 1 /\ draft.rules = rules

\* The row locks a publication holds keep every other writer of them out.
DraftFree == locked = 0
PreviewFree(p) == locked # 0 => slots[locked].preview # p

Answer(s, what) == slots' = [slots EXCEPT ![s] = [kind |-> "answered", what |-> what]]

EditDraft(s) ==
    /\ slots[s] = None
    /\ Ask
    /\ draft.version < MaxVersion
    /\ \E rules \in Rules :
          slots' = [slots EXCEPT ![s] = [kind |-> "replace", version |-> Status.version,
                                         rules |-> rules]]
    /\ UNCHANGED <<draft, revisions, intents, previews, locked, faults, sourceVars, workerVars>>

\* One attempt of the replacement: fenced by the version the owner saw.
ReplaceOnce(s) ==
    /\ slots[s].kind = "replace"
    /\ DraftFree
    /\ IF draft.version # slots[s].version
       THEN /\ Answer(s, [result |-> "draft_conflict"])
            /\ UNCHANGED <<draft, previews, faults>>
       ELSE \/ /\ ReplaceRules(slots[s].version, slots[s].rules)
               /\ Answer(s, [result |-> "replaced", version |-> slots[s].version + 1,
                             rules |-> slots[s].rules])
               /\ UNCHANGED faults
            \/ /\ Fault
               /\ \/ ReplaceRules(slots[s].version, slots[s].rules)
                  \/ UNCHANGED <<draft, previews>>
               /\ slots' = [slots EXCEPT ![s].kind = "replace_unknown"]
    /\ UNCHANGED <<requests, revisions, intents, locked, sourceVars, workerVars>>

\* The connection is lost: what was committed is looked up, then tried again.
RecoverReplacement(s) ==
    /\ slots[s].kind = "replace_unknown"
    /\ IF MatchesReplacement(slots[s].version, slots[s].rules)
       THEN Answer(s, [result |-> "replaced", version |-> slots[s].version + 1,
                       rules |-> slots[s].rules])
       ELSE slots' = [slots EXCEPT ![s].kind = "replace"]
    /\ UNCHANGED <<requests, draft, revisions, intents, previews, locked, faults,
                   sourceVars, workerVars>>

-----------------------------------------------------------------------------
(* Preview requests                                                        *)

\* A fresh identity: the next number that no row and no open request has.
Fresh(p) ==
    /\ previews[p] = Absent
    /\ \A t \in Slots : slots[t].kind = "binding" => slots[t].preview # p

\* The draft row is read in one statement, its rules in the next.
RequestPreview(s) ==
    /\ slots[s] = None
    /\ Ask
    /\ \E p \in Previews :
          /\ Fresh(p) /\ \A q \in Previews : Fresh(q) => p <= q
          /\ slots' = [slots EXCEPT ![s] = [kind |-> "binding", preview |-> p,
                                            version |-> draft.version, base |-> draft.base]]
    /\ UNCHANGED <<draft, revisions, intents, previews, locked, faults, sourceVars, workerVars>>

Requested(version, base) ==
    [state |-> "pending", version |-> version, sha |-> draft.rules, base |-> base,
     checkpoint |-> Checkpoint, digest |-> None, token |-> 0]

InsertPreview(s) ==
    LET p == slots[s].preview IN
    /\ slots[s].kind = "binding"
    /\ previews' = [previews EXCEPT ![p] = Requested(slots[s].version, slots[s].base)]
    /\ slots' = [slots EXCEPT ![s] = None]
    /\ UNCHANGED <<requests, draft, revisions, intents, locked, faults, sourceVars, workerVars>>

\* A reader finds a READY row past its expiry and expires it.
GetPreview(p) ==
    /\ previews[p].state = "ready"
    /\ PreviewFree(p)
    /\ previews' = [previews EXCEPT ![p].state = "expired"]
    /\ UNCHANGED <<ownerVars, faults, sourceVars, workerVars>>

-----------------------------------------------------------------------------
(* The dispatcher                                                          *)

Claimable(p) == previews[p].state = "pending" /\ PreviewFree(p)

Leased(p, d) == [previews EXCEPT ![p].state = "leased", ![p].token = d]

ClaimPending(d) ==
    /\ leases[d] = 0
    /\ \E p \in Previews :
          /\ Claimable(p)
          /\ previews' = Leased(p, d)
          /\ leases' = [leases EXCEPT ![d] = p]
    /\ UNCHANGED <<ownerVars, faults, sourceVars, flows>>

BackToPending(p) == [previews EXCEPT ![p].state = "pending", ![p].token = 0]

ReclaimExpired(d) ==
    /\ leases[d] = 0
    /\ \E p \in Previews :
          /\ previews[p].state = "leased"
          /\ PreviewFree(p)
          /\ previews' = BackToPending(p)
    /\ UNCHANGED <<ownerVars, faults, sourceVars, workerVars>>

\* The pass over rows past the execution deadline and past the ready expiry.
FailOverdue(p) == previews[p].state \in Executable
Overdue(p) ==
    IF FailOverdue(p) THEN [previews EXCEPT ![p].state = "failed", ![p].token = 0]
    ELSE [previews EXCEPT ![p].state = "expired"]

ExpireOverdue(d) ==
    /\ leases[d] = 0
    /\ \E p \in Previews :
          /\ previews[p].state \in Executable \union {"ready"}
          /\ PreviewFree(p)
          /\ previews' = Overdue(p)
    /\ UNCHANGED <<ownerVars, faults, sourceVars, workerVars>>

\* A failure applies to a row that is still executable, whoever reports it.
FailExecutable(p) ==
    IF previews[p].state \in Executable
    THEN [previews EXCEPT ![p].state = "failed", ![p].token = 0] ELSE previews

StartWorkflow(p) ==
    IF flows[p].state = "none" THEN [flows EXCEPT ![p].state = "running"] ELSE flows

DispatchExisting(d) ==
    LET p == leases[d] IN
    /\ p # 0
    /\ flows' = StartWorkflow(p)
    /\ leases' = [leases EXCEPT ![d] = 0]
    /\ UNCHANGED <<ownerVars, previews, faults, sourceVars>>

\* An execution with this identity exists and did not succeed.
TerminalExecution(p) == flows[p].state = "failed"

\* start_workflow answers; an execution that failed ends the preview.
Dispatch(d) ==
    LET p == leases[d] IN
    /\ p # 0
    /\ PreviewFree(p)
    /\ flows' = StartWorkflow(p)
    /\ previews' = IF TerminalExecution(p) THEN FailExecutable(p) ELSE previews
    /\ leases' = [leases EXCEPT ![d] = 0]
    /\ UNCHANGED <<ownerVars, faults, sourceVars>>

ReleasedBy(p, d) ==
    IF previews[p].state = "leased" /\ previews[p].token = d THEN BackToPending(p) ELSE previews

\* The start call fails, or succeeds and its answer is lost: released to retry.
ReleaseRetry(d) ==
    LET p == leases[d] IN
    /\ p # 0
    /\ PreviewFree(p)
    /\ Fault
    /\ flows' \in {flows, StartWorkflow(p)}
    /\ previews' = ReleasedBy(p, d)
    /\ leases' = [leases EXCEPT ![d] = 0]
    /\ UNCHANGED <<ownerVars, sourceVars>>

\* The process dies, or meets an error that is none of the application's.
LeaveLease(d) ==
    /\ leases[d] # 0
    /\ Fault
    /\ leases' = [leases EXCEPT ![d] = 0]
    /\ UNCHANGED <<ownerVars, previews, sourceVars, flows>>

-----------------------------------------------------------------------------
(* The preview activity                                                    *)

\* The repeatable-read snapshot an attempt works on.
Snapshot(p) ==
    [kind |-> "snapshot", row |-> previews[p], draft |-> Draft, active |-> Active,
     checkpoint |-> Checkpoint, world |-> world]

OpenAttempt(p) ==
    /\ flows[p].state = "running"
    /\ flows[p].snap = None
    /\ previews[p].state \in Executable
    /\ flows' = [flows EXCEPT ![p].snap = Snapshot(p)]
    /\ UNCHANGED <<ownerVars, previews, faults, sourceVars, leases>>

Bound(snap) ==
    /\ snap.draft.version = snap.row.version
    /\ snap.active = snap.row.base
    /\ snap.checkpoint = snap.row.checkpoint

Evaluated(snap) ==
    [kind |-> "digest", rules |-> snap.draft.rules, previous |-> snap.active,
     world |-> snap.world]

\* Counters, digest and the READY state are written by the same transaction
\* that marked the row RUNNING, so no other transaction ever sees RUNNING.
MarkReady(p, snap) ==
    [previews EXCEPT ![p].state = "ready", ![p].token = 0, ![p].digest = Evaluated(snap)]

\* The commit fails when the row changed after the snapshot was taken.
CommitAttempt(p) ==
    LET snap == flows[p].snap IN
    /\ snap # None
    /\ PreviewFree(p)
    /\ Bound(snap)
    /\ previews[p] = snap.row
    /\ previews' = MarkReady(p, snap)
    /\ flows' = [flows EXCEPT ![p].snap = None]
    /\ UNCHANGED <<ownerVars, faults, sourceVars, leases>>

RetryAttempt(p) ==
    LET snap == flows[p].snap IN
    /\ snap # None
    /\ Bound(snap)
    /\ previews[p] # snap.row
    /\ flows' = [flows EXCEPT ![p].snap = None]
    /\ UNCHANGED <<ownerVars, previews, faults, sourceVars, leases>>

\* A stale binding is not retried: the row fails and so does the workflow.
StaleAttempt(p) ==
    LET snap == flows[p].snap IN
    /\ snap # None
    /\ PreviewFree(p)
    /\ ~Bound(snap)
    /\ previews' = FailExecutable(p)
    /\ flows' = [flows EXCEPT ![p].snap = None, ![p].state = "failed"]
    /\ UNCHANGED <<ownerVars, faults, sourceVars, leases>>

\* The retryable failure of an attempt; only the last attempt fails the row.
FailAttempt(p) ==
    /\ flows[p].state = "running"
    /\ PreviewFree(p)
    /\ Fault
    /\ IF flows[p].attempt < MaxAttempts
       THEN /\ flows' = [flows EXCEPT ![p].snap = None, ![p].attempt = @ + 1]
            /\ UNCHANGED previews
       ELSE /\ flows' = [flows EXCEPT ![p].snap = None, ![p].state = "failed"]
            /\ previews' = FailExecutable(p)
    /\ UNCHANGED <<ownerVars, sourceVars, leases>>

\* Temporal gives the activity up while its worker is down: no code runs.
AbandonFlow(p) ==
    /\ flows[p].state = "running"
    /\ Fault
    /\ flows' = [flows EXCEPT ![p].snap = None, ![p].state = "failed"]
    /\ UNCHANGED <<ownerVars, previews, sourceVars, leases>>

\* An attempt that meets a settled row returns it, or fails for good.
EndFlow(p) ==
    /\ flows[p].state = "running"
    /\ flows[p].snap = None
    /\ previews[p].state \notin Executable
    /\ flows' = [flows EXCEPT ![p].state =
                    IF previews[p].state = "ready" THEN "completed" ELSE "failed"]
    /\ UNCHANGED <<ownerVars, previews, faults, sourceVars, leases>>

-----------------------------------------------------------------------------
(* Publication                                                             *)

\* What the owner confirms: the preview as read, and the active revision.
Command(p, k) ==
    [preview |-> p, key |-> k, version |-> previews[p].version, sha |-> previews[p].sha,
     digest |-> previews[p].digest, active |-> Status.active]

Publish(s) ==
    /\ slots[s] = None
    /\ Ask
    /\ \E p \in Previews, k \in Keys :
          /\ previews[p].state = "ready"
          /\ slots' = [slots EXCEPT ![s] = [kind |-> "resolve", preview |-> p,
                                            cmd |-> Command(p, k)]]
    /\ UNCHANGED <<draft, revisions, intents, previews, locked, faults, sourceVars, workerVars>>

Recorded(key) == {n \in 1..Active : revisions[n].cmd.key = key}

Fingerprint(cmd) == [cmd EXCEPT !.key = 0]

\* The revision already recorded under the key, or the mismatch it proves.
Replayed(cmd) ==
    LET n == CHOOSE n \in Recorded(cmd.key) : TRUE IN
    IF Fingerprint(revisions[n].cmd) = Fingerprint(cmd)
    THEN [result |-> "published", cmd |-> cmd, revision |-> n]
    ELSE [result |-> "idempotency_mismatch"]

ResolveCommitted(s) ==
    LET cmd == slots[s].cmd IN
    /\ slots[s].kind = "resolve"
    /\ IF Recorded(cmd.key) # {} THEN Answer(s, Replayed(cmd))
       ELSE slots' = [slots EXCEPT ![s].kind = "publish"]
    /\ UNCHANGED <<requests, draft, revisions, intents, previews, locked, faults,
                   sourceVars, workerVars>>

RecheckPreviewState(row) == row.state = "ready"
RecheckCommand(cmd, row) ==
    row.version = cmd.version /\ row.sha = cmd.sha /\ row.digest = cmd.digest
RecheckParent(cmd, row) == row.base = Active /\ cmd.active = Active
RecheckDraft(row) == draft.version = row.version /\ draft.rules = row.sha
TrustCheckpoint(row) == TRUE

RecheckCheckpoint(row) == row.checkpoint = Checkpoint

Rechecked(cmd) ==
    LET row == previews[cmd.preview] IN
    /\ RecheckPreviewState(row)
    /\ RecheckCommand(cmd, row)
    /\ RecheckParent(cmd, row)
    /\ RecheckDraft(row)
    /\ RecheckCheckpoint(row)

\* The locks are taken, the replay is looked up again, the preview rechecked.
PublishLocked(s) ==
    LET cmd == slots[s].cmd IN
    /\ slots[s].kind = "publish"
    /\ locked = 0
    /\ CASE Recorded(cmd.key) # {} -> Answer(s, Replayed(cmd)) /\ UNCHANGED locked
         [] Recorded(cmd.key) = {} /\ ~Rechecked(cmd) ->
               Answer(s, [result |-> "rejected"]) /\ UNCHANGED locked
         [] OTHER -> /\ Active < MaxRevision /\ draft.version < MaxVersion
                     /\ slots' = [slots EXCEPT ![s].kind = "locked"]
                     /\ locked' = s
    /\ UNCHANGED <<requests, draft, revisions, intents, previews, faults, sourceVars, workerVars>>

SnapshotMaterial(cmd) ==
    [rules |-> draft.rules, parent |-> Active, checkpoint |-> previews[cmd.preview].checkpoint,
     cmd |-> cmd, world |-> world]

Consume(p) == [previews EXCEPT ![p].state = "consumed"]

RebaseDraft(revision) == [draft EXCEPT !.version = @ + 1, !.base = revision]

CommitPublication(s) ==
    LET cmd == slots[s].cmd IN
    /\ slots[s].kind = "locked"
    /\ revisions' = Append(revisions, SnapshotMaterial(cmd))
    /\ intents' = Intent(Active + 1)
    /\ previews' = Consume(cmd.preview)
    /\ draft' = RebaseDraft(Active + 1)
    /\ locked' = 0
    /\ \/ /\ Answer(s, [result |-> "published", cmd |-> cmd, revision |-> Active + 1])
          /\ UNCHANGED faults
       \/ /\ Fault
          /\ slots' = [slots EXCEPT ![s].kind = "publish_unknown"]
    /\ UNCHANGED <<requests, sourceVars, workerVars>>

\* Signing fails, or the transaction is lost before it commits.
AbortPublication(s) ==
    /\ slots[s].kind = "locked"
    /\ Fault
    /\ locked' = 0
    /\ \/ Answer(s, [result |-> "signing_unavailable"])
       \/ slots' = [slots EXCEPT ![s].kind = "publish_unknown"]
    /\ UNCHANGED <<requests, draft, revisions, intents, previews, sourceVars, workerVars>>

RecoverPublication(s) ==
    LET cmd == slots[s].cmd IN
    /\ slots[s].kind = "publish_unknown"
    /\ IF Recorded(cmd.key) # {} THEN Answer(s, Replayed(cmd))
       ELSE slots' = [slots EXCEPT ![s].kind = "publish"]
    /\ UNCHANGED <<requests, draft, revisions, intents, previews, locked, faults,
                   sourceVars, workerVars>>

\* The answer reaches the owner, or is lost and the request is sent again.
Settle(s) ==
    /\ slots[s].kind = "answered"
    /\ \/ slots' = [slots EXCEPT ![s] = None] /\ UNCHANGED faults
       \/ /\ slots[s].what.result = "published"
          /\ Fault
          /\ slots' = [slots EXCEPT ![s] = [kind |-> "resolve", cmd |-> slots[s].what.cmd,
                                            preview |-> slots[s].what.cmd.preview]]
    /\ UNCHANGED <<requests, draft, revisions, intents, previews, locked, sourceVars, workerVars>>

-----------------------------------------------------------------------------
(* Source writes                                                           *)

\* A write that changes a source holds the policy state row while it appends.
PolicyStateFree == locked = 0

SourceWrite ==
    /\ world < MaxWorld
    /\ PolicyStateFree
    /\ world' = world + 1
    /\ UNCHANGED <<ownerVars, previews, conflicts, workerVars, faults>>

\* A captured or resolved conflict appends an event without that lock.
ConflictEvent ==
    /\ conflicts < MaxConflict
    /\ conflicts' = conflicts + 1
    /\ UNCHANGED <<ownerVars, previews, world, workerVars, faults>>

Quiet == UNCHANGED vars

-----------------------------------------------------------------------------
Init ==
    /\ draft = SeededDraft
    /\ revisions = <<>>
    /\ intents = {}
    /\ previews = [p \in Previews |-> Absent]
    /\ world = 0
    /\ conflicts = 0
    /\ locked = 0
    /\ slots = [s \in Slots |-> None]
    /\ leases = [d \in Dispatchers |-> 0]
    /\ flows = [p \in Previews |-> [state |-> "none", attempt |-> 1, snap |-> None]]
    /\ requests = 0
    /\ faults = 0

Owner ==
    \/ \E s \in Slots : EditDraft(s) \/ ReplaceOnce(s) \/ RecoverReplacement(s)
                        \/ RequestPreview(s) \/ InsertPreview(s)
                        \/ Publish(s) \/ ResolveCommitted(s) \/ PublishLocked(s)
                        \/ CommitPublication(s) \/ AbortPublication(s)
                        \/ RecoverPublication(s) \/ Settle(s)
    \/ \E p \in Previews : GetPreview(p)

Dispatching ==
    \E d \in Dispatchers : ClaimPending(d) \/ ReclaimExpired(d) \/ ExpireOverdue(d)
                           \/ Dispatch(d) \/ ReleaseRetry(d) \/ LeaveLease(d)

Activity ==
    \E p \in Previews : OpenAttempt(p) \/ CommitAttempt(p) \/ RetryAttempt(p)
                        \/ StaleAttempt(p) \/ FailAttempt(p) \/ AbandonFlow(p) \/ EndFlow(p)

Next == Owner \/ Dispatching \/ Activity \/ SourceWrite \/ ConflictEvent \/ Quiet

Spec == Init /\ [][Next]_vars

\* What the fair scheduler of the worker does: the dispatcher polls, Temporal
\* runs the workflows it started, and an attempt that keeps coming back commits.
Fairness ==
    /\ \A d \in Dispatchers : WF_vars(ClaimPending(d)) /\ WF_vars(ReclaimExpired(d))
                               /\ WF_vars(Dispatch(d))
    /\ \A p \in Previews : /\ WF_vars(OpenAttempt(p)) /\ WF_vars(RetryAttempt(p))
                            /\ WF_vars(StaleAttempt(p)) /\ WF_vars(EndFlow(p))
                            /\ SF_vars(CommitAttempt(p))
    /\ \A s \in Slots : WF_vars(CommitPublication(s))

FairSpec == Spec /\ Fairness

-----------------------------------------------------------------------------
(* What must hold                                                          *)

TypeOK ==
    /\ draft \in [version : 1..MaxVersion, rules : Rules, base : 0..MaxRevision]
    /\ Len(revisions) <= MaxRevision
    /\ intents \subseteq 1..MaxRevision
    /\ \A p \in Previews :
          previews[p] = Absent \/
          /\ previews[p].state \in Executable \union {"ready", "failed", "expired", "consumed"}
          /\ previews[p].version \in 1..MaxVersion
          /\ previews[p].sha \in Rules
          /\ previews[p].base \in 0..MaxRevision
          /\ previews[p].token \in Dispatchers \union {0}
    /\ world \in 0..MaxWorld /\ conflicts \in 0..MaxConflict
    /\ locked \in Slots \union {0}
    /\ leases \in [Dispatchers -> Previews \union {0}]
    /\ \A p \in Previews : /\ flows[p].state \in {"none", "running", "completed", "failed"}
                            /\ flows[p].attempt \in 1..MaxAttempts
    /\ requests \in 0..MaxRequests
    /\ faults \in 0..MaxFaults

\* A revision is what its preview showed: the rules that were evaluated, against
\* the revision it replaces and over the very sources the workspace held when it
\* was committed, although the draft, the active revision and the sources all
\* move between the preview's snapshot and _publish_locked.
RevisionAsPreviewed ==
    \A n \in 1..Active :
        LET r == revisions[n]
            p == previews[r.cmd.preview]
        IN /\ p.state = "consumed"
           /\ p.digest = [kind |-> "digest", rules |-> r.rules, previous |-> n - 1,
                           world |-> r.world]
           /\ r.parent = n - 1

\* An answer tells what is committed: a draft answered as replaced holds those
\* rules until a later version, a command answered with a revision is the command
\* that revision records, and every revision left a reconciliation intent
\* (replace_rules and commit_publication with the recovery of a lost commit).
AnswerRecorded ==
    /\ \A s \in Slots : slots[s].kind = "answered" =>
          LET what == slots[s].what IN
          /\ what.result = "published" => revisions[what.revision].cmd = what.cmd
          /\ what.result = "replaced" =>
                /\ draft.version >= what.version
                /\ draft.version = what.version => draft.rules = what.rules
    /\ intents = 1..Active

\* The rows satisfy the constraints of the policy migration: a lease and its
\* token come and go together, exactly the rows that were evaluated have a
\* digest, and RUNNING is never left behind by a transaction.  A statement that
\* broke one would be refused by PostgreSQL in the middle of its transaction.
PreviewRow(row) ==
    /\ (row.state = "leased") = (row.token # 0)
    /\ row.state \in Executable \union {"failed"} => row.digest = None
    /\ row.state \in {"ready", "consumed"} => row.digest # None

RevisionRow(n) ==
    /\ (n = 1) = (revisions[n].parent = 0)
    /\ revisions[n].checkpoint >= 0
    /\ \A m \in 1..Active : revisions[m].cmd.preview = revisions[n].cmd.preview => m = n

PolicyRowsAccepted ==
    /\ \A p \in Previews : previews[p] # Absent => PreviewRow(previews[p])
                                                  /\ previews[p].state # "running"
    /\ \A n \in 1..Active : RevisionRow(n)
    /\ draft.base = Active

\* A settled preview stays settled: READY only expires or is consumed, and a
\* failed, expired or consumed row never changes again, whatever late answer of
\* an attempt, a dispatcher or a sweep still arrives.
SettledStays ==
    [][\A p \in Previews :
          /\ previews[p].state = "ready" =>
                previews'[p].state \in {"ready", "expired", "consumed"}
          /\ previews[p].state \in {"failed", "expired", "consumed"} =>
                previews'[p] = previews[p]]_vars

\* Every requested preview is evaluated or fails: no lost lease, lost start
\* answer or workflow that died without a word leaves it pending for ever.
PreviewSettles ==
    \A p \in Previews :
        previews[p].state \in Executable ~> previews[p].state \notin Executable

\* A published revision is what its preview showed, an answer tells what is
\* committed, and every row satisfies the constraints of its table.
PublishingSafe == TypeOK /\ RevisionAsPreviewed /\ AnswerRecorded /\ PolicyRowsAccepted
=============================================================================
