------------------------------ MODULE DeviceSync ------------------------------
(***************************************************************************)
(* One device keeping its vault in step with the canonical event log.      *)
(*                                                                         *)
(* The server half is the event pull, the cursor acknowledgement and the   *)
(* manifest run of the device (device_event_store, device_manifest_store). *)
(* The device half is the plugin's sync coordinator, remote event applier, *)
(* vault writer and manifest reconciler over the durable journal.  A cycle *)
(* is sequential: recovery, repair, outbound drain, acknowledgement, one   *)
(* page of events, acknowledgement.  Calls are lost on the way there or on *)
(* the way back, vault writes fail, the process dies at any point, and the *)
(* server goes on committing events.                                       *)
(*                                                                         *)
(* A source is one file.  Versions of it are numbers, and a file's bytes   *)
(* are those of the version "vault" gives (0: no file).  The events are    *)
(* creates and updates; a manifest is one page.  An edit on this device    *)
(* and its upload are one step of the outbound drain.                      *)
(***************************************************************************)
EXTENDS Naturals, FiniteSets, FiniteSetsExt

CONSTANTS
    Sources,        \* sources, as numbers in the order of their locators
    Copied,         \* sources whose first version was in the vault from the start
    Faults,         \* the kinds of fault that may happen
    None,           \* the absent value
    PageLimit,      \* events in a pull page (MAX_PULL_EVENTS is 200)
    RetryBound,     \* DEVICE_SYNC_REPAIR_RETRY_BOUND
    MaxSequence,    \* bound on allocated sequence numbers
    MaxHoles,       \* bound on rolled-back sequence numbers
    MaxCaptures,    \* bound on conflict_capture events
    MaxUploads,     \* bound on this device's uploads
    MaxRepairs,     \* bound on repairs the user asks for
    MaxFaults,      \* bound on faults
    MaxRuns         \* bound on manifest runs and barriers, checked between cycles

FaultKinds == {"pull", "acknowledge", "manifest", "download", "vault", "crash", "expiry"}

ASSUME SourcesAssumption == Sources \subseteq Nat /\ Copied \subseteq Sources
ASSUME FaultsAssumption == Faults \subseteq FaultKinds
ASSUME BoundsAssumption ==
    /\ PageLimit \in Nat \ {0} /\ RetryBound \in Nat \ {0} /\ MaxSequence \in Nat \ {0}
    /\ {MaxHoles, MaxCaptures, MaxUploads, MaxRepairs, MaxFaults, MaxRuns} \subseteq Nat

VARIABLES
    log,        \* server: committed sync_events; version 0 is a conflict_capture event
    nextSeq,    \* server: the next sequence number
    inflight,   \* server: a deliverable event whose transaction has not committed
    acked,      \* server: device_cursors.acknowledged_sequence
    delivered,  \* server: device_cursors.delivered_through_sequence
    run,        \* server: the device's latest manifest run
    vault,      \* device: the version of each source's bytes in the vault
    journal,    \* device: the durable device-sync state (SQLite)
    mem,        \* device: the running coordinator's memory
    closed,     \* versions whose divergence was closed with a readable reason
    used        \* faults, user repairs and uploads so far

server == <<log, nextSeq, inflight, acked, delivered, run>>
vars   == <<server, vault, journal, mem, closed, used>>

-------------------------------------------------------------------------------
(* The server.                                                             *)

Deliverables == {e \in log : e.version > 0}

\* The version of s committed by the latest event at or below sequence c.
VersionAt(s, c) == Max({0} \cup {e.version : e \in {f \in log : f.source = s /\ f.seq <= c}})
Canonical(s)    == VersionAt(s, nextSeq)

Unfinished    == run.state \in {"collecting", "planned", "applying"}

\* Another device's publication: its sequence number is allocated before its commit.
Begin(s) ==
    /\ inflight = None
    /\ nextSeq <= MaxSequence
    /\ inflight' = [seq |-> nextSeq, source |-> s, version |-> Canonical(s) + 1, own |-> FALSE]
    /\ nextSeq' = nextSeq + 1
    /\ UNCHANGED <<log, acked, delivered, run, vault, journal, mem, closed, used>>

Commit ==
    /\ inflight # None
    /\ log' = log \cup {inflight}
    /\ inflight' = None
    /\ UNCHANGED <<nextSeq, acked, delivered, run, vault, journal, mem, closed, used>>

Rollback ==
    /\ inflight # None
    /\ nextSeq - 1 - Cardinality(log) <= MaxHoles
    /\ inflight' = None
    /\ UNCHANGED <<log, nextSeq, acked, delivered, run, vault, journal, mem, closed, used>>

\* A conflict_capture event shares the numbering; it commits no version and is
\* not serialized with the deliverable ones.
CaptureConflict(s) ==
    /\ nextSeq <= MaxSequence
    /\ Cardinality(log \ Deliverables) < MaxCaptures
    /\ Canonical(s) > 0
    /\ log' = log \cup {[seq |-> nextSeq, source |-> s, version |-> 0, own |-> FALSE]}
    /\ nextSeq' = nextSeq + 1
    /\ UNCHANGED <<inflight, acked, delivered, run, vault, journal, mem, closed, used>>

\* The page after the delivered watermark, through the highest committed event.
Page ==
    LET rows == {e \in Deliverables : e.seq > delivered}
    IN  {e \in rows : Cardinality({f \in rows : f.seq < e.seq}) < PageLimit}

PullEvents ==
    /\ \E n \in {delivered} \cup {e.seq : e \in Page} :
          delivered' = n /\ \A e \in Page : e.seq <= n
    /\ UNCHANGED <<log, nextSeq, inflight, acked, run>>

\* Mutant: an acknowledgement that was already taken is refused.
AckAcceptedOnce(expected, applied) == applied \in acked + 1 .. delivered /\ expected = acked

\* Mutant: what was delivered does not bound the acknowledgement.
AckUndelivered(expected, applied) == acked <= applied /\ expected = acked

AckAccepted(expected, applied) ==
    /\ applied \in acked .. delivered
    /\ IF applied = acked THEN expected <= acked ELSE expected = acked

AcknowledgeCursor(expected, applied) ==
    /\ acked' = IF AckAccepted(expected, applied) THEN applied ELSE acked
    /\ UNCHANGED <<log, nextSeq, inflight, delivered, run>>

\* Mutant: the planner looks at the files of the manifest only.
PlannedEntryAction(have, base, canonical) ==
    IF canonical = have \/ have = 0         THEN "no_change"
    ELSE IF canonical = 0                   THEN IF base = 0 THEN "upload" ELSE "conflict"
    ELSE IF base = canonical                THEN "upload"
    ELSE IF base # 0 /\ base = have         THEN "download"
    ELSE "conflict"

\* What the planner decides for s: the manifest entry (bytes "have", trusted base
\* "base") against the version at the checkpoint.
PlannedAction(have, base, canonical) ==
    IF canonical = have                     THEN "no_change"
    ELSE IF have = 0                        THEN "download"
    ELSE IF canonical = 0                   THEN IF base = 0 THEN "upload" ELSE "conflict"
    ELSE IF base = canonical                THEN "upload"
    ELSE IF base # 0 /\ base = have         THEN "download"
    ELSE "conflict"

StartManifest(gen) ==
    /\ \E c \in {acked} \cup {e.seq : e \in log} :
          /\ acked <= c /\ \A e \in log : e.seq <= c
          /\ run' = IF Unfinished /\ run.gen = gen
                      THEN run
                      ELSE [id |-> run.id + 1, gen |-> gen, state |-> "collecting",
                            checkpoint |-> c, entries |-> None, plan |-> None]
    /\ UNCHANGED <<log, nextSeq, inflight, acked, delivered>>

AppendPage(capture) ==
    /\ run' = IF run.state = "collecting" THEN [run EXCEPT !.entries = capture] ELSE run
    /\ UNCHANGED <<log, nextSeq, inflight, acked, delivered>>

\* The submitted digest commits to the capture the device made.
FinalizeManifest(capture) ==
    /\ run' = IF run.state # "collecting" THEN run
              ELSE IF run.entries # capture THEN [run EXCEPT !.state = "failed"]
              ELSE [run EXCEPT !.state = "planned",
                               !.plan = [s \in Sources |->
                                   PlannedAction(capture[s].have, capture[s].base,
                                                 VersionAt(s, run.checkpoint))]]
    /\ UNCHANGED <<log, nextSeq, inflight, acked, delivered>>

ListActions ==
    /\ run' = IF run.state = "planned" THEN [run EXCEPT !.state = "applying"] ELSE run
    /\ UNCHANGED <<log, nextSeq, inflight, acked, delivered>>

\* Mutant: completion authorizes the acknowledged cursor alone.
CompleteAcknowledgedOnly ==
    /\ IF run.state = "applying"
         THEN /\ run' = [run EXCEPT !.state = "completed"]
              /\ acked' = Max({acked, run.checkpoint})
         ELSE UNCHANGED <<run, acked>>
    /\ UNCHANGED <<log, nextSeq, inflight, delivered>>

CompleteManifest ==
    /\ IF run.state = "applying"
         THEN /\ run' = [run EXCEPT !.state = "completed"]
              /\ acked' = Max({acked, run.checkpoint})
              /\ delivered' = IF acked < run.checkpoint
                                THEN Max({delivered, run.checkpoint}) ELSE delivered
         ELSE UNCHANGED <<run, acked, delivered>>
    /\ UNCHANGED <<log, nextSeq, inflight>>

\* The idle or hard deadline of an unfinished run passes, or a policy advance
\* fails it: every later call about it is refused and the device starts over.
ExpireRun ==
    /\ "expiry" \in Faults /\ used.faults < MaxFaults
    /\ Unfinished
    /\ run' = [run EXCEPT !.state = "expired"]
    /\ used' = [used EXCEPT !.faults = @ + 1]
    /\ UNCHANGED <<log, nextSeq, inflight, acked, delivered, vault, journal, mem, closed>>

-------------------------------------------------------------------------------
(* The device: durable transitions of the journal and how a cycle fails.   *)

At(p) == mem.pc = p

\* An idle coordinator waits for its cadence or backoff timer.
Idle == [mem EXCEPT !.pc = "idle", !.page = {}, !.evt = None, !.receipt = None,
                    !.attempt = 0, !.tried = {}]

\* A settled repair phase goes on with the cycle.
Settled == [mem EXCEPT !.pc = "outbound", !.evt = None, !.receipt = None, !.attempt = 0,
                       !.tried = {}]
RepairBlocked == [Settled EXCEPT !.blocked = TRUE]
\* Mutant: the same failure is retried without a bound.
RetriedForever == [Idle EXCEPT !.retries = @ + 1]

RepairRetried ==
    IF mem.retries + 1 >= RetryBound
      THEN [Settled EXCEPT !.blocked = TRUE, !.retries = 0]
      ELSE [Idle EXCEPT !.retries = @ + 1]

\* How a failed apply ends: the pull lane's cycle stops, the repair lane's run does.
ApplyFailed(retryable) ==
    IF mem.evt.lane = "pull" THEN Idle ELSE IF retryable THEN RepairRetried ELSE RepairBlocked

\* A blocked mutation commits the repair barrier with its reason, then throws.
Blocked(j, isGap) == [j EXCEPT !.barrier = IF @ = None THEN j.gen ELSE @, !.gap = isGap]

\* nextObservationGeneration and startRepairBarrier (a number drawn while a barrier
\* stands is never used).
Barred(j) == [j EXCEPT !.gen = @ + 1, !.barrier = j.gen + 1, !.gap = FALSE]

Discarded(j) == [j EXCEPT !.bound = None, !.done = {}, !.attempted = {}]

WithRow(j, r)  == [j EXCEPT !.rows = {q \in @ : q.seq # r.seq} \cup {r}]
RowsAt(seq)    == {r \in journal.rows : r.seq = seq}
Acknowledged(j, seq) ==
    [j EXCEPT !.acked = seq, !.rows = {r \in @ : r.seq > seq \/ r.state # "locally_applied"}]

\* terminalizeEvent: the outcome and the applied cursor in one generation.
Terminalized(j, seq) ==
    IF seq = j.applied + 1
      THEN [j EXCEPT !.applied = seq,
                     !.rows = {IF r.seq = seq THEN [r EXCEPT !.state = "locally_applied"] ELSE r
                                 : r \in @}]
      ELSE Blocked(j, seq > j.applied)

\* The manifest's capture of the vault: bytes and trusted base of every file.
Capture == [s \in Sources |-> [have |-> vault[s], base |-> journal.known[s]]]

Fault(kind) ==
    /\ kind \in Faults /\ used.faults < MaxFaults
    /\ used' = [used EXCEPT !.faults = @ + 1]

-------------------------------------------------------------------------------
(* A cycle: wake, recover, repair if required.                             *)

Wake ==
    /\ At("idle")
    /\ run.id < MaxRuns /\ journal.gen < MaxRuns
    /\ mem' = [mem EXCEPT !.pc = "recover"]
    /\ UNCHANGED <<server, vault, journal, closed, used>>

\* The user asks for a repair: the only retry of a blocked one.
ExplicitRepair ==
    /\ used.repairs < MaxRepairs
    /\ used' = [used EXCEPT !.repairs = @ + 1]
    /\ mem' = [mem EXCEPT !.explicit = TRUE, !.blocked = FALSE, !.retries = 0]
    /\ UNCHANGED <<server, vault, journal, closed>>

\* The process dies; the journal and the vault survive.
Crash ==
    /\ Fault("crash")
    /\ mem' = [Idle EXCEPT !.blocked = FALSE, !.explicit = FALSE, !.retries = 0]
    /\ UNCHANGED <<server, vault, journal, closed>>

\* What the writer proves about an interrupted apply.
Recovered(r) ==
    IF r.state = "locally_applied"                 THEN "settled"
    ELSE IF vault[r.source] = r.version            THEN "mutated"
    ELSE IF r.state = "temp_verified" /\ vault[r.source] \in {0, r.base} THEN "resumed"
    ELSE IF r.state = "prepared" /\ vault[r.source] = r.base THEN "clean"
    ELSE "blocked"

\* Mutant: the abandoned event is left to a redelivery.
RecoverCleanQuietly(r) ==
    /\ Recovered(r) = "clean"
    /\ journal' = [journal EXCEPT !.rows = @ \ {r}] /\ mem' = [mem EXCEPT !.pc = "repair"]
    /\ UNCHANGED <<vault, closed>>

\* A prepared row is abandoned behind a barrier: its event is never delivered again.
RecoverClean(r) ==
    LET j == [journal EXCEPT !.rows = @ \ {r}] IN
    /\ Recovered(r) = "clean"
    /\ IF j.bound # None THEN journal' = j /\ mem' = [mem EXCEPT !.pc = "repair"]
       ELSE IF j.barrier = None THEN journal' = Barred(j) /\ mem' = [mem EXCEPT !.pc = "repair"]
       ELSE journal' = j /\ mem' = Idle
    /\ UNCHANGED <<vault, closed>>

\* A content row must pass temp_verified: the transition from prepared is refused.
RecoverMutated(r) ==
    /\ Recovered(r) \in {"mutated", "resumed"}
    /\ vault' = [vault EXCEPT ![r.source] = r.version]
    /\ IF r.state = "prepared"
         THEN journal' = Blocked(journal, FALSE) /\ mem' = Idle
         ELSE /\ journal' = Terminalized(WithRow(journal, [r EXCEPT !.state = "vault_mutated"]),
                                        r.seq)
              /\ mem' = IF r.seq = journal.applied + 1
                          THEN [mem EXCEPT !.pc = "repair"] ELSE Idle
    /\ UNCHANGED closed

RecoverBlocked(r) ==
    /\ Recovered(r) = "blocked"
    /\ IF journal.barrier = None /\ journal.bound = None
         THEN journal' = Barred(journal) /\ mem' = [mem EXCEPT !.pc = "repair"]
         ELSE UNCHANGED journal /\ mem' = Idle
    /\ UNCHANGED <<vault, closed>>

\* The vault refuses the resumed write: the cycle stops and the row stays.
RecoverFails ==
    /\ At("recover")
    /\ Fault("vault")
    /\ \E r \in journal.rows :
          Recovered(r) = "resumed" /\ \A q \in journal.rows : r.seq <= q.seq
    /\ mem' = Idle
    /\ UNCHANGED <<server, vault, journal, closed>>

\* recoverUnfinishedApply looks at the lowest row the server has not acknowledged.
Recover ==
    /\ At("recover")
    /\ \/ /\ journal.rows = {}
          /\ mem' = [mem EXCEPT !.pc = "repair"]
          /\ UNCHANGED <<vault, journal, closed>>
       \/ \E r \in journal.rows :
            /\ \A q \in journal.rows : r.seq <= q.seq
            /\ \/ /\ Recovered(r) = "settled"
                  /\ mem' = [mem EXCEPT !.pc = "repair"]
                  /\ UNCHANGED <<vault, journal, closed>>
               \/ RecoverClean(r)
               \/ RecoverMutated(r)
               \/ RecoverBlocked(r)
    /\ UNCHANGED <<server, used>>

RepairOwed == journal.barrier # None \/ journal.bound # None

\* A repair that is owed runs unless a verdict blocks it; the user's always runs.
RepairDecision ==
    /\ At("repair")
    /\ IF ~mem.explicit /\ (~RepairOwed \/ mem.blocked)
         THEN mem' = [mem EXCEPT !.pc = "outbound"] /\ UNCHANGED journal
         ELSE /\ mem' = [mem EXCEPT !.explicit = FALSE, !.pc = "start"]
              /\ journal' = IF journal.barrier = None THEN Barred(journal) ELSE journal
    /\ UNCHANGED <<server, vault, closed, used>>

-------------------------------------------------------------------------------
(* The repair: at most two checkpoint-bound manifest runs.                 *)

\* Start over once; the second restart is a blocked verdict.  A restart that
\* contradicts the server's pages takes a new observation generation.
RestartRun(j, isContradicted) ==
    IF mem.attempt = 1
      THEN journal' = j /\ mem' = RepairBlocked
      ELSE /\ journal' = IF isContradicted THEN Barred(Discarded(j)) ELSE Discarded(j)
           /\ mem' = [mem EXCEPT !.pc = "start", !.attempt = 1, !.receipt = None]

RunStart ==
    /\ At("start")
    /\ StartManifest(journal.barrier)
    /\ IF journal.bound # None /\ journal.bound.id # run'.id
         THEN RestartRun(Discarded(journal), FALSE)
         ELSE /\ mem' = [mem EXCEPT !.pc = "page",
                              !.receipt = [id |-> run'.id, checkpoint |-> run'.checkpoint,
                                           paged |-> run'.entries # None]]
              /\ UNCHANGED journal
    /\ UNCHANGED <<vault, closed, used>>

Bound == [journal EXCEPT !.bound = [id |-> mem.receipt.id, page |-> Capture]]

\* The page was recorded here, or only at the server, or nowhere yet.
RunPage ==
    /\ At("page")
    /\ IF journal.bound # None
         THEN /\ IF journal.bound.page = Capture
                   THEN mem' = [mem EXCEPT !.pc = "finalize"] /\ UNCHANGED journal
                   ELSE RestartRun(journal, TRUE)
              /\ UNCHANGED server
       ELSE IF mem.receipt.paged
         THEN /\ journal' = Bound /\ mem' = [mem EXCEPT !.pc = "finalize"]
              /\ UNCHANGED server
       ELSE /\ AppendPage(Capture)
            /\ IF run.state = "collecting"
                 THEN journal' = Bound /\ mem' = [mem EXCEPT !.pc = "finalize"]
                 ELSE RestartRun(journal, FALSE)
    /\ UNCHANGED <<vault, closed, used>>

RunFinalize ==
    /\ At("finalize")
    /\ FinalizeManifest(Capture)
    /\ IF run.state = "expired" THEN RestartRun(journal, FALSE)
       ELSE IF run.entries # Capture THEN RestartRun(journal, TRUE)
       ELSE mem' = [mem EXCEPT !.pc = "list"] /\ UNCHANGED journal
    /\ UNCHANGED <<vault, closed, used>>

RunList ==
    /\ At("list")
    /\ ListActions
    /\ IF run.state = "expired" THEN RestartRun(journal, FALSE)
       ELSE /\ mem' = [mem EXCEPT !.pc = "actions", !.tried = journal.attempted]
            /\ UNCHANGED journal
    /\ UNCHANGED <<vault, closed, used>>

\* The downloads still to place: files of the manifest first, then those only the
\* server has, each in locator order.
Pending == {s \in Sources : run.plan[s] = "download"} \ journal.done
NextAction(s) ==
    /\ s \in Pending
    /\ \A q \in Pending : IF vault[s] > 0 THEN vault[q] > 0 => s <= q
                                          ELSE vault[q] = 0 /\ s <= q

\* A placement takes the next sequence number, which must fit under the checkpoint.
ActionFits(seq) == seq <= mem.receipt.checkpoint

RunAction(s) ==
    LET seq == journal.applied + 1
        j   == [journal EXCEPT !.attempted = @ \cup {s}]
    IN
    /\ At("actions")
    /\ NextAction(s)
    /\ \/ /\ ActionFits(seq)
          /\ journal' = j
          /\ mem' = [mem EXCEPT !.pc = "fetch",
                 !.evt = [lane |-> "repair", id |-> <<mem.receipt.id, s>>, seq |-> seq,
                          source |-> s, version |-> VersionAt(s, mem.receipt.checkpoint),
                          base |-> vault[s]]]
          /\ UNCHANGED closed
       \/ /\ ~ActionFits(seq) /\ mem.attempt = 1
          /\ journal' = [j EXCEPT !.gap = TRUE, !.done = @ \cup {s}]
          /\ closed' = closed \cup {<<s, VersionAt(s, mem.receipt.checkpoint)>>}
          /\ UNCHANGED mem
       \/ /\ ~ActionFits(seq) /\ mem.attempt = 0
          /\ IF j.gap THEN journal' = Discarded(j) /\ mem' = [mem EXCEPT !.pc = "close"]
                      ELSE journal' = [j EXCEPT !.gap = TRUE] /\ mem' = RepairBlocked
          /\ UNCHANGED closed
    /\ UNCHANGED <<server, vault, used>>

RunActionsDone ==
    /\ At("actions")
    /\ Pending = {}
    /\ mem' = [mem EXCEPT !.pc = "complete"]
    /\ closed' = closed \cup {<<s, VersionAt(s, mem.receipt.checkpoint)>> :
                              s \in {q \in Sources : run.plan[q] = "conflict"}}
    /\ UNCHANGED <<server, vault, journal, used>>

\* closeStaleCheckpoint: complete the run that cannot be applied, then start over.
RunClose ==
    /\ At("close")
    /\ CompleteManifest
    /\ RestartRun(journal, FALSE)
    /\ UNCHANGED <<vault, closed, used>>

RunComplete ==
    /\ At("complete")
    /\ CompleteManifest
    /\ IF run.state = "expired" THEN RestartRun(journal, FALSE)
       ELSE mem' = [mem EXCEPT !.pc = "completed"] /\ UNCHANGED journal
    /\ UNCHANGED <<vault, closed, used>>

\* completeDeviceSyncRepair: both local cursors move to the checkpoint.
RunCompleted ==
    LET c == mem.receipt.checkpoint IN
    /\ At("completed")
    /\ IF c < journal.applied
         THEN journal' = Blocked(journal, FALSE) /\ mem' = RepairBlocked
         ELSE /\ journal' = [Acknowledged(Discarded(journal), c) EXCEPT
                                 !.applied = c, !.barrier = None, !.gap = FALSE]
              /\ mem' = [Settled EXCEPT !.blocked = FALSE, !.retries = 0]
    /\ UNCHANGED <<server, vault, closed, used>>

\* A manifest call is lost, or its answer is.
ManifestCallLost ==
    /\ mem.pc \in {"start", "page", "finalize", "list", "close", "complete"}
    /\ At("page") => journal.bound = None /\ ~mem.receipt.paged
    /\ Fault("manifest")
    /\ \/ UNCHANGED server
       \/ At("start") /\ StartManifest(journal.barrier)
       \/ At("page") /\ AppendPage(Capture)
       \/ At("finalize") /\ FinalizeManifest(Capture)
       \/ At("list") /\ ListActions
       \/ mem.pc \in {"close", "complete"} /\ CompleteManifest
    /\ mem' = RepairRetried
    /\ UNCHANGED <<vault, journal, closed>>

-------------------------------------------------------------------------------
(* The outbound drain, the acknowledgement and the pull.                   *)

\* An edit of a current file is uploaded and committed with this device as origin.
Upload(s) ==
    /\ At("outbound") /\ ~RepairOwed
    /\ used.uploads < MaxUploads
    /\ inflight = None /\ nextSeq <= MaxSequence
    /\ vault[s] = Canonical(s) /\ vault[s] = journal.known[s]
    /\ log' = log \cup {[seq |-> nextSeq, source |-> s, version |-> vault[s] + 1, own |-> TRUE]}
    /\ nextSeq' = nextSeq + 1
    /\ vault' = [vault EXCEPT ![s] = @ + 1]
    /\ journal' = [journal EXCEPT !.known[s] = vault[s] + 1]
    /\ used' = [used EXCEPT !.uploads = @ + 1]
    /\ UNCHANGED <<inflight, acked, delivered, run, mem, closed>>

OutboundDone ==
    /\ At("outbound")
    /\ mem' = [mem EXCEPT !.pc = "ack"]
    /\ UNCHANGED <<server, vault, journal, closed, used>>

\* The owed acknowledgement goes before the pull and again after the page.
Owed == journal.applied > journal.acked
AfterAck == IF At("ack") THEN [mem EXCEPT !.pc = "pull"] ELSE Idle

AckNotOwed ==
    /\ mem.pc \in {"ack", "ack_page"} /\ ~Owed
    /\ mem' = AfterAck
    /\ UNCHANGED <<server, vault, journal, closed, used>>

AckOwed ==
    /\ mem.pc \in {"ack", "ack_page"} /\ Owed
    /\ AcknowledgeCursor(journal.acked, journal.applied)
    /\ IF AckAccepted(journal.acked, journal.applied)
         THEN journal' = Acknowledged(journal, journal.applied) /\ mem' = AfterAck
         ELSE UNCHANGED journal /\ mem' = Idle
    /\ UNCHANGED <<vault, closed, used>>

AckLost ==
    /\ mem.pc \in {"ack", "ack_page"} /\ Owed
    /\ Fault("acknowledge")
    /\ UNCHANGED server \/ AcknowledgeCursor(journal.acked, journal.applied)
    /\ mem' = Idle
    /\ UNCHANGED <<vault, journal, closed>>

Pull ==
    /\ At("pull")
    /\ PullEvents
    /\ mem' = [mem EXCEPT !.pc = "apply", !.page = Page]
    /\ UNCHANGED <<vault, journal, closed, used>>

PullLost ==
    /\ At("pull")
    /\ Fault("pull")
    /\ UNCHANGED server \/ PullEvents
    /\ mem' = Idle
    /\ UNCHANGED <<vault, journal, closed>>

-------------------------------------------------------------------------------
(* Applying the page, and the vault writer both lanes share.               *)

PageDone ==
    /\ At("apply") /\ mem.page = {}
    /\ mem' = [mem EXCEPT !.pc = "ack_page"]
    /\ UNCHANGED <<server, vault, journal, closed, used>>

SelfOrigin(e) == e.own /\ journal.known[e.source] = e.version

\* The next event of the page: skipped, closed as this device's own, refused as a
\* gap, or applied.
ApplyEvent(e) ==
    LET rest == [mem EXCEPT !.page = @ \ {e}] IN
    /\ At("apply")
    /\ e \in mem.page /\ \A f \in mem.page : e.seq <= f.seq
    /\ \/ /\ e.seq <= journal.applied
          /\ mem' = rest /\ UNCHANGED journal
       \/ /\ e.seq > journal.applied /\ SelfOrigin(e)
          /\ journal' = Terminalized(journal, e.seq)
          /\ mem' = IF e.seq = journal.applied + 1 THEN rest ELSE Idle
       \/ /\ e.seq > journal.applied + 1 /\ ~SelfOrigin(e)
          /\ mem' = Idle /\ UNCHANGED journal
       \/ /\ e.seq = journal.applied + 1 /\ ~SelfOrigin(e)
          /\ mem' = [rest EXCEPT !.pc = "prepare",
                 !.evt = [lane |-> "pull", id |-> <<0, e.seq>>, seq |-> e.seq,
                          source |-> e.source, version |-> e.version, base |-> e.version - 1]]
          /\ UNCHANGED journal
    /\ UNCHANGED <<server, vault, closed, used>>

Row(state) ==
    [seq |-> mem.evt.seq, id |-> mem.evt.id, source |-> mem.evt.source,
     version |-> mem.evt.version, base |-> mem.evt.base, state |-> state]

\* The durable intent precedes the first vault mutation.
Prepare ==
    /\ At("prepare")
    /\ IF RowsAt(mem.evt.seq) \subseteq {Row("prepared")}
         THEN /\ journal' = WithRow(journal, Row("prepared"))
              /\ mem' = [mem EXCEPT !.pc = IF mem.evt.lane = "pull" THEN "fetch" ELSE "stage"]
         ELSE journal' = Blocked(journal, FALSE) /\ mem' = ApplyFailed(FALSE)
    /\ UNCHANGED <<server, vault, closed, used>>

\* The pull lane downloads after the intent, the repair lane before it.
Fetch ==
    /\ At("fetch")
    /\ mem' = [mem EXCEPT !.pc = IF mem.evt.lane = "pull" THEN "stage" ELSE "prepare"]
    /\ UNCHANGED <<server, vault, journal, closed, used>>

FetchLost ==
    /\ At("fetch")
    /\ Fault("download")
    /\ mem' = ApplyFailed(TRUE)
    /\ UNCHANGED <<server, vault, journal, closed>>

\* Where a lane goes on after a terminal event.
ApplyDone(j) ==
    IF mem.evt.lane = "pull"
      THEN journal' = j /\ mem' = [mem EXCEPT !.pc = "apply", !.evt = None]
      ELSE /\ journal' = [j EXCEPT !.done = @ \cup {mem.evt.source}]
           /\ mem' = [mem EXCEPT !.pc = "actions", !.evt = None]

\* Mutant: a create replaces whatever holds its path.
BaseProvenUpdates(e) == e.base = 0 \/ vault[e.source] = e.base

\* A create needs a free path, an update the bytes of its base.
BaseProven(e) == vault[e.source] = e.base

\* An unproven base closes the event as a conflict; the cursor advances over it.
Stage ==
    /\ At("stage")
    /\ IF BaseProven(mem.evt)
         THEN /\ journal' = WithRow(journal, Row("temp_verified"))
              /\ mem' = [mem EXCEPT !.pc = "replace"]
              /\ UNCHANGED closed
         ELSE /\ ApplyDone(Terminalized(journal, mem.evt.seq))
              /\ closed' = closed \cup {<<mem.evt.source, mem.evt.version>>}
    /\ UNCHANGED <<server, vault, used>>

Replace ==
    /\ At("replace")
    /\ vault' = [vault EXCEPT ![mem.evt.source] = mem.evt.version]
    /\ mem' = [mem EXCEPT !.pc = "mark"]
    /\ UNCHANGED <<server, journal, closed, used>>

Mark ==
    /\ At("mark")
    /\ journal' = WithRow(journal, Row("vault_mutated"))
    /\ mem' = [mem EXCEPT !.pc = "terminal"]
    /\ UNCHANGED <<server, vault, closed, used>>

Terminal ==
    /\ At("terminal")
    /\ ApplyDone(Terminalized(journal, mem.evt.seq))
    /\ UNCHANGED <<server, vault, closed, used>>

\* A refused vault write is retried, except an action an earlier run attempted:
\* settleVaultFailedApply abandons or closes it so that the run can go on.
VaultFails ==
    /\ mem.pc \in {"stage", "replace"}
    /\ Fault("vault")
    /\ IF mem.evt.lane = "pull" \/ mem.evt.source \notin mem.tried
         THEN mem' = ApplyFailed(TRUE) /\ UNCHANGED <<vault, journal, closed>>
         ELSE IF At("stage")
         THEN /\ ApplyDone([journal EXCEPT !.rows = @ \ RowsAt(mem.evt.seq)])
              /\ closed' = closed \cup {<<mem.evt.source, mem.evt.version>>}
              /\ UNCHANGED vault
         ELSE /\ ApplyDone(Terminalized(journal, mem.evt.seq))
              /\ \/ vault' = [vault EXCEPT ![mem.evt.source] = mem.evt.version]
                    /\ UNCHANGED closed
                 \/ closed' = closed \cup {<<mem.evt.source, mem.evt.version>>} /\ UNCHANGED vault
    /\ UNCHANGED server

-------------------------------------------------------------------------------
Init ==
    /\ log = {} /\ nextSeq = 1 /\ inflight = None
    /\ acked = 0 /\ delivered = 0
    /\ run = [id |-> 0, gen |-> 0, state |-> "none", checkpoint |-> 0, entries |-> None,
              plan |-> None]
    /\ vault = [s \in Sources |-> IF s \in Copied THEN 1 ELSE 0]
    /\ journal = [applied |-> 0, acked |-> 0, gen |-> 0, barrier |-> None, gap |-> FALSE,
                  bound |-> None, done |-> {}, attempted |-> {}, rows |-> {},
                  known |-> [s \in Sources |-> 0]]
    /\ mem = [pc |-> "idle", page |-> {}, evt |-> None, receipt |-> None, attempt |-> 0,
              tried |-> {}, blocked |-> FALSE, explicit |-> FALSE, retries |-> 0]
    /\ closed = {}
    /\ used = [faults |-> 0, repairs |-> 0, uploads |-> 0]

Repair == \/ RepairDecision \/ RunStart \/ RunPage \/ RunFinalize \/ RunList
          \/ (\E s \in Sources : RunAction(s))
          \/ RunActionsDone \/ RunClose \/ RunComplete \/ RunCompleted
Cycle  == \/ Wake \/ Recover \/ Repair \/ OutboundDone \/ AckNotOwed \/ AckOwed \/ Pull
          \/ PageDone \/ (\E e \in mem.page : ApplyEvent(e))
          \/ Prepare \/ Fetch \/ Stage \/ Replace \/ Mark \/ Terminal
Failure == \/ Crash \/ ExpireRun \/ ManifestCallLost \/ AckLost \/ PullLost \/ FetchLost
           \/ VaultFails \/ RecoverFails
Others  == Commit \/ Rollback \/ (\E s \in Sources : Begin(s) \/ CaptureConflict(s))
User    == ExplicitRepair \/ (\E s \in Sources : Upload(s))

Next == Cycle \/ Failure \/ Others \/ User

Spec == Init /\ [][Next]_vars

\* The coordinator's timers re-arm after every cycle and its calls time out; an open
\* transaction of the server ends.
FairSpec == Spec /\ WF_vars(Cycle) /\ WF_vars(Commit)

-------------------------------------------------------------------------------
(* Properties.                                                             *)

Versions   == 0 .. MaxSequence
Sequences  == 0 .. MaxSequence
Rows       == [seq : Sequences, id : Nat \X Nat, source : Sources, version : Versions,
               base : Versions, state : {"prepared", "temp_verified", "vault_mutated",
                                         "locally_applied"}]
Manifests  == [Sources -> [have : Versions, base : Versions]]
Actions    == {"no_change", "download", "upload", "conflict"}
Events     == [seq : Sequences \ {0}, source : Sources, version : Versions, own : BOOLEAN]
Pcs        == {"idle", "recover", "repair", "start", "page", "finalize", "list", "actions",
               "close", "complete", "completed", "outbound", "ack", "pull", "apply",
               "ack_page", "prepare", "fetch", "stage", "replace", "mark", "terminal"}

RunStates  == {"none", "collecting", "planned", "applying", "completed", "failed", "expired"}
Runs       == [id : Nat, gen : Nat, state : RunStates, checkpoint : Sequences,
               entries : Manifests \cup {None}, plan : [Sources -> Actions] \cup {None}]
Bounds     == [id : Nat, page : Manifests]
Journals   == [applied : Sequences, acked : Sequences, gen : Nat, barrier : Nat \cup {None},
               gap : BOOLEAN, bound : Bounds \cup {None}, done : SUBSET Sources,
               attempted : SUBSET Sources, rows : SUBSET Rows, known : [Sources -> Versions]]
Applies    == [lane : {"pull", "repair"}, id : Nat \X Nat, seq : Sequences, source : Sources,
               version : Versions, base : Versions]
Receipts   == [id : Nat, checkpoint : Sequences, paged : BOOLEAN]
Memories   == [pc : Pcs, page : SUBSET Events, evt : Applies \cup {None},
               receipt : Receipts \cup {None}, attempt : {0, 1}, tried : SUBSET Sources,
               blocked : BOOLEAN, explicit : BOOLEAN, retries : 0 .. RetryBound - 1]

ASSUME NoneAssumption ==
    /\ None \notin Nat /\ None \notin Events
    /\ None \notin Manifests /\ None \notin [Sources -> Actions]
    /\ None \notin Bounds /\ None \notin Applies /\ None \notin Receipts

\* Every variable keeps its shape.
TypeOK ==
    /\ log \subseteq Events /\ nextSeq \in 1 .. MaxSequence + 1
    /\ inflight \in Events \cup {None}
    /\ acked \in Sequences /\ delivered \in Sequences
    /\ run \in Runs /\ journal \in Journals /\ mem \in Memories
    /\ vault \in [Sources -> Versions]
    /\ closed \subseteq Sources \X Versions
    /\ used \in [faults : Nat, repairs : Nat, uploads : Nat]

Placed(e) == \/ vault[e.source] >= e.version
             \/ \E v \in e.version .. MaxSequence : <<e.source, v>> \in closed

\* The server may forget what the device acknowledged, so with no repair owed every
\* event the local cursor has passed is in the vault or was closed with a reason,
\* whatever was lost, refused or interrupted on the way (sync-coordinator's cycle,
\* remote-event-applier's recovery and the reconciler's completion together).
NoSilentLoss ==
    ~RepairOwed => \A e \in Deliverables : e.seq <= journal.applied => Placed(e)

\* With no repair owed the server accepts the acknowledgement the device owes: a lost
\* acknowledgement or a lost completion never leaves a debt the server refuses for
\* ever (acknowledgeOwedCursor against _acknowledge_once).
DebtIsPayable ==
    ~RepairOwed /\ Owed => AckAccepted(journal.acked, journal.applied)

\* The cursors agree: what the device believes acknowledged is acknowledged, the
\* server never believes more than it delivered, and outside a repair the device has
\* applied nothing the server has not delivered.
AckedIsDelivered == acked <= delivered
CursorsAgree ==
    /\ journal.acked <= acked /\ AckedIsDelivered
    /\ journal.acked <= journal.applied
    /\ ~RepairOwed => journal.applied <= delivered

\* A remote apply, a resumed apply and a manifest placement only ever move a file
\* forward: no lane writes an older version over a newer one.
NoVaultRegression == [][\A s \in Sources : vault'[s] >= vault[s]]_vars

\* The device's cursor row is a device cursor.
Cursor == INSTANCE DeviceCursor
CursorSpec == Cursor!Spec

\* Through lost calls, expired runs and blocked verdicts, every version another device
\* commits is in the end in the vault or closed with a reason (the cycle's retries,
\* recoverUnfinishedApply and the checkpoint-bound runs together).
Converges == <>[](\A e \in Deliverables : Placed(e))

===============================================================================
