------------------------ MODULE PolicyReconciliation ------------------------
(***************************************************************************)
(* What happens to the sources of a workspace after a policy revision is   *)
(* published.  The publication leaves one reconciliation intent; a         *)
(* dispatcher leases it and starts one Temporal workflow, which evaluates  *)
(* the sources page by page under the revision and, where the enforced     *)
(* decision changed, asks the projections to delete or upsert the source.  *)
(*                                                                         *)
(* The code is policy_reconciliation.py (the store), the worker's          *)
(* policy_reconciliation_workflow.py and policy_workflow_runtime.py, and   *)
(* the domain's reconciliation.py and enforcement.py.  The rules of a      *)
(* revision are the classes it excludes, a source's evidence is its class, *)
(* and the two projection kinds always get the same intents and are one.   *)
(* Time is left out: a lease may run out at any moment.                    *)
(***************************************************************************)
EXTENDS Naturals, Sequences, FiniteSets, FiniteSetsExt

CONSTANTS Sources,      \* source identities, in the order of the scan
          PageSize,     \* sources a batch reads at most
          Dispatchers,  \* worker processes that dispatch intents
          MaxRevision,  \* bound on published revisions
          MaxWrites,    \* bound on source writes
          MaxAttempts,  \* activity attempts Temporal grants
          MaxClaims,    \* bound on claims by dispatchers
          MaxFaults     \* bound on crashes and lost answers

VARIABLES rules,       \* the classes each published revision excludes
          sources,     \* sources: class, last event, revision of the last write, tombstone
          evaluations, \* policy_evaluations
          transitions, \* projection intents of origin policy_transition
          intents,     \* policy_reconciliation_intents, one per revision
          audits,      \* revisions with a completion audit
          leases,      \* what each dispatcher is dispatching
          flows,       \* the workflow of each revision
          lost,        \* revisions whose last attempt ended unseen
          writes,      \* source writes so far
          claims,      \* claims so far
          faults       \* faults so far

vars == <<rules, sources, evaluations, transitions, intents, audits,
          leases, flows, lost, writes, claims, faults>>
resultVars == <<evaluations, transitions, audits>>
sourceVars == <<rules, sources, writes>>

ASSUME SourcesAssumption == IsFiniteSet(Sources) /\ Sources \subseteq Nat \ {0}
ASSUME DispatchersAssumption == 0 \notin Dispatchers
ASSUME PageSizeAssumption == PageSize \in Nat \ {0}
ASSUME BoundsAssumption == MaxRevision \in Nat /\ MaxAttempts \in Nat \ {0}

Classes == {"a", "b"}
RuleSets == {{}, {"a"}}
Revisions == 1 .. MaxRevision
Active == Len(rules)
Fault == faults < MaxFaults /\ faults' = faults + 1

-----------------------------------------------------------------------------
(* Decisions                                                               *)

Evaluate(n, class) == IF class \in rules[n] THEN "excluded" ELSE "allowed"

PreviousWithoutPolicy == "excluded"
PreviousWithoutEvaluation == "allowed"

Transition(previous, proposed) ==
    IF previous = proposed THEN "unchanged"
    ELSE IF proposed = "excluded" THEN "to_excluded" ELSE "to_allowed"

IntentPlan(transition) ==
    CASE transition = "unchanged" -> {}
      [] transition = "to_excluded" -> {"delete"}
      [] transition = "to_allowed" -> {"upsert"}

\* A content write is decided under the active revision, whose row it locks.
AuthorizePublication(class) == Active > 0 /\ Evaluate(Active, class) = "allowed"

-----------------------------------------------------------------------------
(* Publication and source writes                                           *)

NoIntent == [state |-> "none", token |-> 0]
NewIntent == [state |-> "pending", token |-> 0]
NoLease == [rev |-> 0, step |-> "none"]
NoFlow == [status |-> "none"]

PublishRevision ==
    /\ Active < MaxRevision
    /\ \E excluded \in RuleSets : rules' = Append(rules, excluded)
    /\ intents' = [intents EXCEPT ![Active + 1] = NewIntent]
    /\ UNCHANGED <<sources, writes, resultVars, leases, flows, lost, claims, faults>>

\* The source has a row, and the row has no tombstone.
Exists(s) == sources[s].sequence > 0
Present(s) == Exists(s) /\ ~sources[s].gone

Written(s, class, gone) ==
    sources' = [sources EXCEPT ![s] = [class |-> class, sequence |-> @.sequence + 1,
                                       under |-> Active, gone |-> gone]]

\* A publication creates a source or gives it new evidence, and appends an event.
WriteSource(s) ==
    /\ writes < MaxWrites
    /\ ~sources[s].gone
    /\ \E class \in Classes : AuthorizePublication(class) /\ Written(s, class, FALSE)
    /\ writes' = writes + 1
    /\ UNCHANGED <<rules, resultVars, intents, leases, flows, lost, claims, faults>>

\* A rename, move, delete or restore: the transition commits whatever the locked
\* policy says, and its own projection intents follow that decision.  The rules are
\* matched against the new locator too, so a source may change its class.
LifecycleSource(s) ==
    /\ writes < MaxWrites
    /\ Active > 0 /\ Exists(s)
    /\ \E class \in Classes, gone \in BOOLEAN :
          /\ gone => ~sources[s].gone /\ class = sources[s].class
          /\ Written(s, class, gone)
    /\ writes' = writes + 1
    /\ UNCHANGED <<rules, resultVars, intents, leases, flows, lost, claims, faults>>

-----------------------------------------------------------------------------
(* Dispatch                                                                *)

Claimable(n) == intents[n].state = "pending"

LeaseUpdate(n, d) == [intents EXCEPT ![n] = [state |-> "leased", token |-> d]]

ClaimPending(d) ==
    /\ leases[d] = NoLease
    /\ claims < MaxClaims
    /\ \E n \in Revisions : /\ Claimable(n)
                            /\ intents' = LeaseUpdate(n, d)
                            /\ leases' = [leases EXCEPT ![d] = [rev |-> n, step |-> "start"]]
    /\ claims' = claims + 1
    /\ UNCHANGED <<sourceVars, resultVars, flows, lost, faults>>

\* The lease covers only the start call; a slow dispatcher loses it.
BackToPending(n) == [intents EXCEPT ![n] = NewIntent]

ReclaimExpired(n) ==
    /\ intents[n].state = "leased"
    /\ Fault
    /\ intents' = BackToPending(n)
    /\ UNCHANGED <<sourceVars, resultVars, leases, flows, lost, claims>>

\* USE_EXISTING joins a running workflow, ALLOW_DUPLICATE_FAILED_ONLY restarts a
\* failed one from the first page, a completed one is EXISTING.
NewFlow == [status |-> "running", pc |-> "scan", after |-> 0, attempt |-> 1]

Started(n) ==
    IF flows[n].status \in {"none", "failed"}
    THEN [flows EXCEPT ![n] = NewFlow] ELSE flows

StartWorkflow(d) ==
    /\ leases[d].step = "start"
    /\ flows' = Started(leases[d].rev)
    /\ leases' = [leases EXCEPT ![d].step = "acknowledge"]
    /\ lost' = lost \union {n \in {leases[d].rev} : flows[n].status = "failing"}
    /\ UNCHANGED <<sourceVars, resultVars, intents, claims, faults>>

AnyHolder(n, d) == TRUE

HoldsLease(n, d) == intents[n] = [state |-> "leased", token |-> d]

\* The acknowledgement, fenced by the lease token.
AcknowledgeDispatched(d) ==
    LET n == leases[d].rev IN
    /\ leases[d].step = "acknowledge"
    /\ leases' = [leases EXCEPT ![d] = NoLease]
    /\ IF HoldsLease(n, d)
       THEN intents' = [intents EXCEPT ![n] = [state |-> "dispatched", token |-> 0]]
       ELSE UNCHANGED intents
    /\ UNCHANGED <<sourceVars, resultVars, flows, lost, claims, faults>>

\* Temporal did not answer: the lease is handed back.
ReleaseRetry(d) ==
    LET n == leases[d].rev IN
    /\ leases[d].step = "start"
    /\ Fault
    /\ flows' = Started(n) \/ UNCHANGED flows
    /\ leases' = [leases EXCEPT ![d] = NoLease]
    /\ intents' = IF HoldsLease(n, d) THEN BackToPending(n) ELSE intents
    /\ UNCHANGED <<sourceVars, resultVars, lost, claims>>

\* The dispatcher dies with its lease, before or after the start call.
CrashDispatcher(d) ==
    /\ leases[d] # NoLease
    /\ Fault
    /\ leases' = [leases EXCEPT ![d] = NoLease]
    /\ UNCHANGED <<sourceVars, resultVars, intents, flows, lost, claims>>

-----------------------------------------------------------------------------
(* The scan                                                                *)

SkipOne(after) == {s \in Sources : Present(s) /\ s > after + 1}

\* The first sources of a set, in the order of their identities.
First(rest) == {s \in rest : Cardinality({r \in rest : r < s}) < PageSize}

\* The next page in the order of source identities, without tombstones.
Page(after) == First({s \in Sources : Present(s) /\ s > after})

\* The latest evaluation of a source under the parent revision.
Recorded(n, s) == {e \in evaluations : e.rev = n /\ e.source = s}

PriorDecision(n, s) ==
    IF n = 1 THEN PreviousWithoutPolicy
    ELSE IF Recorded(n - 1, s) = {} THEN PreviousWithoutEvaluation
    ELSE (CHOOSE e \in Recorded(n - 1, s) :
             \A f \in Recorded(n - 1, s) : f.sequence <= e.sequence).decision

Planned(n, s) ==
    LET decision == Evaluate(n, sources[s].class) IN
    [source |-> s, sequence |-> sources[s].sequence, decision |-> decision,
     transition |-> Transition(PriorDecision(n, s), decision)]

StillActive(n) == Active = n

Superseded(n) == flows' = [flows EXCEPT ![n] = [status |-> "completed"]]

Running(n, pc) == flows[n].status = "running" /\ flows[n].pc = pc

\* An empty page ends the scan before anything is looked at again.
NothingLeft(n) ==
    [status |-> "running", pc |-> "complete", after |-> flows[n].after, attempt |-> 1]

\* The first statements of the batch transaction: the page, its evaluation and
\* the earlier decisions.
BatchRead(n) ==
    /\ Running(n, "scan")
    /\ IF ~StillActive(n) THEN Superseded(n)
       ELSE IF Page(flows[n].after) = {} THEN flows' = [flows EXCEPT ![n] = NothingLeft(n)]
       ELSE flows' = [flows EXCEPT ![n] =
                        [status |-> "running", pc |-> "planned", after |-> @.after,
                         attempt |-> @.attempt,
                         plan |-> {Planned(n, s) : s \in Page(@.after)}]]
    /\ UNCHANGED <<sourceVars, resultVars, intents, leases, lost, claims, faults>>

NextAttempt(n) ==
    [status |-> "running", pc |-> "scan", after |-> flows[n].after,
     attempt |-> flows[n].attempt + 1]

SequencesUnchanged(n) ==
    \A item \in flows[n].plan : sources[item.source].sequence = item.sequence

\* The released intent: back to pending when the failure is retryable, terminal
\* when it is not; a released intent has no lease.
FailDispatched(n, retryable) ==
    IF intents[n].state \in {"leased", "dispatched"}
    THEN [intents EXCEPT ![n] = [state |-> IF retryable THEN "pending" ELSE "terminal",
                                 token |-> 0]]
    ELSE intents

\* The transaction of fail_reconciliation.
FailReconciliation(n, retryable) == intents' = FailDispatched(n, retryable)

Failing == [status |-> "failing"]

\* Only the last attempt of a retryable failure releases the intent.
RetryableFailure(n) ==
    IF flows[n].attempt < MaxAttempts
    THEN flows' = [flows EXCEPT ![n] = NextAttempt(n)] /\ UNCHANGED intents
    ELSE flows' = [flows EXCEPT ![n] = Failing] /\ FailReconciliation(n, TRUE)

\* The second look at the active revision and at the sources of the page.
BatchRecheck(n) ==
    /\ Running(n, "planned")
    /\ IF ~StillActive(n) THEN Superseded(n) /\ UNCHANGED intents
       ELSE IF SequencesUnchanged(n)
       THEN flows' = [flows EXCEPT ![n].pc = "checked"] /\ UNCHANGED intents
       ELSE RetryableFailure(n)
    /\ UNCHANGED <<sourceVars, resultVars, leases, lost, claims, faults>>

EvaluationRows(n) ==
    {[rev |-> n, source |-> item.source, sequence |-> item.sequence, decision |-> item.decision]
       : item \in flows[n].plan}

TransitionRows(n) ==
    UNION {{[rev |-> n, source |-> item.source, operation |-> operation]
              : operation \in IntentPlan(item.transition)} : item \in flows[n].plan}

\* One transition intent per revision and source: a second one is not inserted.
Fresh(rows) ==
    {row \in rows : ~\E t \in transitions : t.rev = row.rev /\ t.source = row.source}

\* What was stored must ask for what was planned.
StoredAsPlanned(rows) ==
    \A row \in rows, t \in transitions :
       (t.rev = row.rev /\ t.source = row.source) => t.operation = row.operation

InsertBatch(n) ==
    LET rows == Fresh(TransitionRows(n)) IN
    /\ evaluations' = evaluations \union EvaluationRows(n)
    /\ transitions' = transitions \union rows

HasMore(n) == Cardinality(flows[n].plan) = PageSize

LastSource(n) == Max({item.source : item \in flows[n].plan})

AfterBatch(n) ==
    [status |-> "running", pc |-> IF HasMore(n) THEN "scan" ELSE "complete",
     after |-> IF HasMore(n) THEN LastSource(n) ELSE flows[n].after, attempt |-> 1]

\* The transaction commits; nothing locks the policy state or the sources.
BatchCommit(n) ==
    /\ Running(n, "checked")
    /\ IF StoredAsPlanned(TransitionRows(n))
       THEN \/ /\ InsertBatch(n)
               /\ flows' = [flows EXCEPT ![n] = AfterBatch(n)]
               /\ UNCHANGED <<faults, intents>>
            \/ /\ Fault
               /\ InsertBatch(n) \/ UNCHANGED <<evaluations, transitions>>
               /\ RetryableFailure(n)
       ELSE /\ flows' = [flows EXCEPT ![n] = Failing]
            /\ FailReconciliation(n, FALSE)
            /\ UNCHANGED <<evaluations, transitions, faults>>
    /\ UNCHANGED <<sourceVars, audits, leases, lost, claims>>

\* The worker dies or the attempt times out: Temporal counts the attempt, and
\* after the last one nobody releases the intent.
AttemptLost(n) ==
    /\ flows[n].status = "running"
    /\ Fault
    /\ IF flows[n].attempt < MaxAttempts
       THEN flows' = [flows EXCEPT ![n] = [NextAttempt(n) EXCEPT !.pc =
                         IF flows[n].pc = "complete" THEN "complete" ELSE "scan"]]
            /\ UNCHANGED lost
       ELSE flows' = [flows EXCEPT ![n] = Failing] /\ lost' = lost \union {n}
    /\ UNCHANGED <<sourceVars, resultVars, intents, leases, claims>>

FinishFlow(n) == [flows EXCEPT ![n] = [status |-> "completed"]]

\* The completion audit is written once.
CompleteReconciliation(n) ==
    /\ Running(n, "complete")
    /\ audits' = audits \union {n}
    /\ flows' = FinishFlow(n)
    /\ UNCHANGED <<sourceVars, evaluations, transitions, intents, leases, lost,
                   claims, faults>>

\* Temporal records that the workflow failed.
EndFlow(n) ==
    /\ flows[n].status = "failing"
    /\ flows' = [flows EXCEPT ![n] = [status |-> "failed"]]
    /\ UNCHANGED <<sourceVars, resultVars, intents, leases, lost, claims, faults>>

-----------------------------------------------------------------------------
\* Sources may be older than the first revision.
NoSource == [class |-> "a", sequence |-> 0, under |-> 0, gone |-> FALSE]
OldSource == [class |-> "a", sequence |-> 1, under |-> 0, gone |-> FALSE]
OldTombstone == [class |-> "a", sequence |-> 2, under |-> 0, gone |-> TRUE]

Init ==
    /\ rules = <<>>
    /\ sources \in [Sources -> {NoSource, OldSource, OldTombstone}]
    /\ evaluations = {}
    /\ transitions = {}
    /\ intents = [n \in Revisions |-> NoIntent]
    /\ audits = {}
    /\ leases = [d \in Dispatchers |-> NoLease]
    /\ flows = [n \in Revisions |-> NoFlow]
    /\ lost = {}
    /\ writes = 0
    /\ claims = 0
    /\ faults = 0

Dispatching ==
    \/ \E d \in Dispatchers : ClaimPending(d) \/ StartWorkflow(d) \/ AcknowledgeDispatched(d)
                               \/ ReleaseRetry(d) \/ CrashDispatcher(d)
    \/ \E n \in Revisions : ReclaimExpired(n)

Scan ==
    \E n \in Revisions : BatchRead(n) \/ BatchRecheck(n) \/ BatchCommit(n) \/ AttemptLost(n)
                         \/ CompleteReconciliation(n) \/ EndFlow(n)

Quiet == UNCHANGED vars

Next == PublishRevision \/ (\E s \in Sources : WriteSource(s) \/ LifecycleSource(s)) \/ Dispatching \/ Scan \/ Quiet

Spec == Init /\ [][Next]_vars

-----------------------------------------------------------------------------
(* Properties                                                              *)

\* What the tables' constraints demand of a row.
IntentRow(row) ==
    /\ row.state \in {"pending", "leased", "dispatched", "terminal"}
    /\ (row.state = "leased") <=> (row.token \in Dispatchers)

EvaluationRow(row) ==
    /\ row.sequence >= 1
    /\ row.decision \in {"allowed", "excluded"}
    /\ row.rev \in 1 .. Active /\ row.source \in Sources
    /\ \A other \in evaluations :
          (other.rev = row.rev /\ other.source = row.source /\ other.sequence = row.sequence)
             => other = row

\* Every published revision has an intent its table accepts, so one that carries
\* a lease token exactly while it is leased, and a source has at most one
\* evaluation per revision and event.
TypeOK ==
    /\ \A n \in Revisions : IF n <= Active THEN IntentRow(intents[n]) ELSE intents[n] = NoIntent
    /\ \A row \in evaluations : EvaluationRow(row)
    /\ \A n \in Revisions :
          flows[n].status \in {"none", "running", "failing", "failed", "completed"}

\* When the completion audit of a revision says the scan is done, every source
\* with no tombstone was evaluated under it or was last written under it or a
\* later one, however batches were retried, restarted and interleaved with
\* creations, updates, deletions and restores.
CompletionCovers ==
    \A n \in audits, s \in Sources :
       Present(s) => Recorded(n, s) # {} \/ sources[s].under >= n

\* The immutable evaluation of a source at its newest event says what its
\* revision decides about the source as it is.
EvaluationTrue ==
    \A e \in evaluations :
       e.sequence = sources[e.source].sequence =>
          e.decision = Evaluate(e.rev, sources[e.source].class)

\* A dispatched intent whose workflow has failed is never picked up again; that
\* only happens when the last attempt ended without releasing the intent, or the
\* start call joined a workflow that was ending.
StuckOnlyWhenLost ==
    \A n \in Revisions :
       (intents[n].state = "dispatched" /\ flows[n].status = "failed") => n \in lost

\* A terminal intent is final: no late dispatcher or workflow revives it.
TerminalIsFinal ==
    [][\A n \in Revisions : intents[n].state = "terminal" => intents'[n] = intents[n]]_vars

\* A completed scan covered every source with true evaluations, and an intent is
\* stuck only when its last attempt was lost.
ScanSafe == TypeOK /\ CompletionCovers /\ EvaluationTrue /\ StuckOnlyWhenLost
=============================================================================
