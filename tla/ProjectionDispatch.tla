-------------------------- MODULE ProjectionDispatch --------------------------
(***************************************************************************)
(* The outbox of a source event: the transaction that publishes an event   *)
(* leaves one projection intent per projection kind, worker processes      *)
(* lease the intents in batches and start one Temporal workflow per event, *)
(* and the outcome is written back under the token of the lease.           *)
(*                                                                         *)
(* The code is projection_intents.py (the store), the worker's             *)
(* projection_dispatch_runtime.py and projection_workflow_starter.py, and  *)
(* the domain's projection_dispatch.py.  The tasks of a batch run in any   *)
(* order; the bound on how many run at once is left out.  Time is left     *)
(* out: a lease runs out, and a backoff ends, at any moment.               *)
(***************************************************************************)
EXTENDS Naturals, FiniteSets

CONSTANTS Events,       \* source events that are published
          Dispatchers,  \* worker processes
          BatchLimit,   \* intents claimed by one transaction
          MaxFaults     \* bound on crashes, lost calls and leases lost at work

\* A batch is counted, so the table it is taken from is finite.
ASSUME EventsAssumption == IsFiniteSet(Events)

VARIABLES intents,   \* projection_intents
          flows,     \* the Temporal workflow of each event
          work,      \* the dispatch cycle of each worker
          token,     \* the last lease token handed out
          granted,   \* leases ever granted on each intent
          faults     \* faults so far

vars == <<intents, flows, work, token, granted, faults>>

Kinds == {"qdrant", "neo4j"}
SourceIntents == Events \X Kinds
Revision == 0
Transitions == {<<Revision, "qdrant">>}   \* what a policy reconciliation inserted
Ids == SourceIntents \cup Transitions
Origin(id) == IF id \in Transitions THEN "policy_transition" ELSE "source_event"

Fault == faults < MaxFaults /\ faults' = faults + 1

-----------------------------------------------------------------------------
(* Statements                                                              *)

Absent == [status |-> "absent", token |-> 0, attempts |-> 0, ready |-> FALSE,
           expired |-> FALSE, error |-> FALSE]

Inserted == [Absent EXCEPT !.status = "pending", !.ready = TRUE]

ClaimAvailable(id) ==
    intents[id].status = "pending" /\ intents[id].ready /\ Origin(id) = "source_event"

LeaseUpdate(row, t) == [row EXCEPT !.status = "leased", !.token = t, !.expired = FALSE]

\* What ends a lease: the attempt is counted and the token is gone.
Ended(row, status) ==
    [row EXCEPT !.status = status, !.token = 0, !.attempts = @ + 1, !.expired = FALSE]

\* The backoff doubles with the attempts and is capped, so it always ends.
BackingOff(row) == [row EXCEPT !.ready = FALSE, !.error = TRUE]

\* Mutant: the reclaimed attempt is not counted.
ReclaimUncounted(row) ==
    BackingOff([row EXCEPT !.status = "pending", !.token = 0, !.expired = FALSE])

ReclaimLease(row) == BackingOff(Ended(row, "pending"))
ReleaseRetry(row) == BackingOff(Ended(row, "pending"))
MarkTerminal(row) == [Ended(row, "terminal") EXCEPT !.error = TRUE]
AcknowledgeDispatched(row) == [Ended(row, "dispatched") EXCEPT !.error = FALSE]

HoldsLease(id, t) == intents[id].status = "leased" /\ intents[id].token = t

\* A transition under a lease; a stale one changes no row.
FencedTransition(task, after) ==
    intents' = IF HoldsLease(task.id, task.token)
               THEN [intents EXCEPT ![task.id] = after] ELSE intents

-----------------------------------------------------------------------------
(* Publication, and the passing of time                                    *)

PublishEvent(e) ==
    /\ \A k \in Kinds : intents[<<e, k>>] = Absent
    /\ intents' = [id \in Ids |-> IF id[1] = e THEN Inserted ELSE intents[id]]
    /\ UNCHANGED <<flows, work, token, granted, faults>>

BackoffEnds(id) ==
    /\ intents[id].status = "pending" /\ ~intents[id].ready
    /\ intents' = [intents EXCEPT ![id].ready = TRUE]
    /\ UNCHANGED <<flows, work, token, granted, faults>>

Tasks == UNION {work[d].tasks : d \in Dispatchers}
AtWork(id) == \E task \in Tasks : task.id = id /\ task.token = intents[id].token

\* A lease runs out; the fault is that its holder was still at work.
LeaseRunsOut(id) ==
    /\ intents[id].status = "leased" /\ ~intents[id].expired
    /\ IF AtWork(id) THEN Fault ELSE UNCHANGED faults
    /\ intents' = [intents EXCEPT ![id].expired = TRUE]
    /\ UNCHANGED <<flows, work, token, granted>>

-----------------------------------------------------------------------------
(* The cycle of a worker                                                   *)

Idle == [pc |-> "reclaim", tasks |-> {}]

\* Mutant: a lease that ran out is reclaimed by nobody.
NothingExpired == {}

ExpiredLeases == {id \in Ids : intents[id].status = "leased" /\ intents[id].expired}

\* First every lease that ran out is returned.
ReclaimExpired(d) ==
    /\ work[d].pc = "reclaim"
    /\ intents' = [id \in Ids |->
                     IF id \in ExpiredLeases THEN ReclaimLease(intents[id]) ELSE intents[id]]
    /\ work' = [work EXCEPT ![d].pc = "claim"]
    /\ UNCHANGED <<flows, token, granted, faults>>

Leased(id, t) == [id |-> id, token |-> t, step |-> "start"]

\* Then a batch is claimed, one token per intent.
ClaimBatch(d) ==
    LET open == {id \in Ids : ClaimAvailable(id)} IN
    /\ work[d].pc = "claim"
    /\ \E batch \in SUBSET open :
          /\ Cardinality(batch) = IF Cardinality(open) < BatchLimit THEN Cardinality(open)
                                  ELSE BatchLimit
          /\ \E order \in [batch -> 1 .. Cardinality(batch)] :
                /\ \A a, b \in batch : a # b => order[a] # order[b]
                /\ intents' = [id \in Ids |-> IF id \in batch
                                 THEN LeaseUpdate(intents[id], token + order[id]) ELSE intents[id]]
                /\ work' = [work EXCEPT ![d] =
                              [pc |-> "dispatch",
                               tasks |-> {Leased(id, token + order[id]) : id \in batch}]]
          /\ token' = token + Cardinality(batch)
          /\ granted' = [id \in Ids |-> granted[id] + IF id \in batch THEN 1 ELSE 0]
    /\ UNCHANGED <<flows, faults>>

Stepped(d, task, step) ==
    work' = [work EXCEPT ![d].tasks = (@ \ {task}) \cup {[task EXCEPT !.step = step]}]

Done(d, task) == work' = [work EXCEPT ![d].tasks = @ \ {task}]

\* REJECT_DUPLICATE with USE_EXISTING: a running workflow is joined, a finished
\* one is described.
Started(e) == IF flows[e] = "none" THEN [flows EXCEPT ![e] = "running"] ELSE flows

Accepted(e) == flows[e] \in {"none", "running", "completed"}

StartSourceIngestion(d, task) ==
    LET e == task.id[1] IN
    /\ task.step = "start"
    /\ flows' = Started(e)
    /\ Stepped(d, task, IF Accepted(e) THEN "acknowledge" ELSE "terminal")
    /\ UNCHANGED <<intents, token, granted, faults>>

\* The call fails, before or after Temporal acted on it.
StartFails(d, task) ==
    /\ task.step = "start"
    /\ Fault
    /\ flows' = Started(task.id[1]) \/ UNCHANGED flows
    /\ Stepped(d, task, "release")
    /\ UNCHANGED <<intents, token, granted>>

ApplyDispatched(d, task) ==
    /\ task.step = "acknowledge"
    /\ FencedTransition(task, AcknowledgeDispatched(intents[task.id]))
    /\ Done(d, task)
    /\ UNCHANGED <<flows, token, granted, faults>>

ApplyRetryable(d, task) ==
    /\ task.step = "release"
    /\ FencedTransition(task, ReleaseRetry(intents[task.id]))
    /\ Done(d, task)
    /\ UNCHANGED <<flows, token, granted, faults>>

ApplyTerminal(d, task) ==
    /\ task.step = "terminal"
    /\ FencedTransition(task, MarkTerminal(intents[task.id]))
    /\ Done(d, task)
    /\ UNCHANGED <<flows, token, granted, faults>>

\* The database refuses the write, or its answer is lost: the lease is left to
\* run out.
TransitionFails(d, task) ==
    /\ task.step # "start"
    /\ Fault
    /\ Done(d, task)
    /\ UNCHANGED <<intents, flows, token, granted>>

\* The task group waits for every task before the next cycle.
NextCycle(d) ==
    /\ work[d] = [pc |-> "dispatch", tasks |-> {}]
    /\ work' = [work EXCEPT ![d] = Idle]
    /\ UNCHANGED <<intents, flows, token, granted, faults>>

\* The process is stopped or dies, with everything it had leased.
CrashDispatcher(d) ==
    /\ work[d].pc # "reclaim"
    /\ Fault
    /\ work' = [work EXCEPT ![d] = Idle]
    /\ UNCHANGED <<intents, flows, token, granted>>

FlowEnds(e) ==
    /\ flows[e] = "running"
    /\ \E outcome \in {"completed", "failed"} : flows' = [flows EXCEPT ![e] = outcome]
    /\ UNCHANGED <<intents, work, token, granted, faults>>

-----------------------------------------------------------------------------
Init ==
    /\ intents = [id \in Ids |-> IF id \in Transitions THEN Inserted ELSE Absent]
    /\ flows = [e \in Events |-> "none"]
    /\ work = [d \in Dispatchers |-> Idle]
    /\ token = 0
    /\ granted = [id \in Ids |-> 0]
    /\ faults = 0

Task(d, task) ==
    \/ StartSourceIngestion(d, task) \/ ApplyDispatched(d, task)
    \/ ApplyRetryable(d, task) \/ ApplyTerminal(d, task)

\* dispatch_pending_intents_once, step by step.
DispatchOnce(d) ==
    \/ ReclaimExpired(d) \/ ClaimBatch(d) \/ NextCycle(d)
    \/ \E task \in work[d].tasks : Task(d, task)

Failure(d) ==
    \/ CrashDispatcher(d)
    \/ \E task \in work[d].tasks : StartFails(d, task) \/ TransitionFails(d, task)

Next ==
    \/ \E e \in Events : PublishEvent(e) \/ FlowEnds(e)
    \/ \E id \in Ids : BackoffEnds(id) \/ LeaseRunsOut(id)
    \/ \E d \in Dispatchers : DispatchOnce(d) \/ Failure(d)

Spec == Init /\ [][Next]_vars

\* Workers keep polling, and time passes.
Fairness ==
    /\ \A d \in Dispatchers : WF_vars(DispatchOnce(d))
    /\ \A id \in Ids : WF_vars(BackoffEnds(id)) /\ WF_vars(LeaseRunsOut(id) /\ ~AtWork(id))

FairSpec == Spec /\ Fairness

-----------------------------------------------------------------------------
(* Properties                                                              *)

\* What the constraints of the table demand of a row.
IntentRow(id) ==
    LET row == intents[id] IN
    /\ row.status \in {"pending", "leased", "dispatched", "terminal"}
    /\ (row.status = "leased") <=> (row.token # 0)
    /\ row.status = "terminal" => row.error
    /\ row.attempts >= 0

\* Every intent is absent or a row its table accepts, tokens are unique, and one
\* intent per event and kind exists.
TypeOK ==
    /\ \A id \in Ids : intents[id] = Absent \/ IntentRow(id)
    /\ \A a, b \in Ids : (intents[a].token = intents[b].token /\ a # b) => intents[a].token = 0
    /\ \A d \in Dispatchers : work[d].pc \in {"reclaim", "claim", "dispatch"}
    /\ flows \in [Events -> {"none", "running", "completed", "failed"}]

\* The outbox never claims too much: an intent is dispatched only when its workflow
\* was started, and terminal only when the workflow failed, whatever answers
\* were lost and whoever else worked on it.
OutboxTrue ==
    \A id \in SourceIntents :
       /\ intents[id].status = "dispatched" => flows[id[1]] # "none"
       /\ intents[id].status = "terminal" => flows[id[1]] = "failed"

\* Every lease that ended was counted exactly once, by its holder or by a reclaim,
\* never by both: the backoff grows with what really happened.
AttemptsCounted ==
    \A id \in Ids :
       intents[id].attempts + (IF intents[id].status = "leased" THEN 1 ELSE 0) = granted[id]

\* A settled intent stays settled, and an intent of a policy transition is not
\* touched by these workers at all.
DispatchedStays ==
    [][\A id \in Ids :
          (intents[id].status \in {"dispatched", "terminal"} \/ id \in Transitions)
             => intents'[id] = intents[id]]_vars

\* Every intent of a published event is dispatched or terminal at last: no lost
\* lease, lost answer or stopped worker keeps it for ever.
IntentSettles ==
    \A id \in SourceIntents :
       (intents[id].status = "pending") ~> (intents[id].status \in {"dispatched", "terminal"})

\* The outbox never claims more of a workflow than happened, and counts every lease.
OutboxSafe == TypeOK /\ OutboxTrue /\ AttemptsCounted
=============================================================================
