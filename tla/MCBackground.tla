---------------------------- MODULE MCBackground -----------------------------
(*****************************************************************************)
(* TLC instances of the background work: the preview workflow, the           *)
(* projection dispatcher, and backup and restore, with the fairness their    *)
(* liveness needs.                                                           *)
(*                                                                           *)
(* The components share no variable, so one of them runs in each             *)
(* behaviour: the initial state picks which, and the others stay where       *)
(* they began. A property of a component holds of every behaviour that is    *)
(* about it.                                                                 *)
(*****************************************************************************)
EXTENDS ProjectionDispatch, Sequences

VARIABLES part,  \* the component this behaviour is about
          draft, revisions, previewIntents, previews, world, conflicts, locked, slots,
          leases, previewFlows, requests, previewFaults,
          committed, writer, bucket, backup, bundle, target, restore, recFaults

previewVars == <<draft, revisions, previewIntents, previews, world, conflicts, locked,
                 slots, leases, previewFlows, requests, previewFaults>>
projectionVars == <<intents, flows, work, token, granted, faults>>
recoverVars == <<committed, writer, bucket, backup, bundle, target, restore, recFaults>>
backgroundVars == <<part, previewVars, projectionVars, recoverVars>>

Preview == INSTANCE PolicyPublishing WITH
        Rules <- {"none", "a"}, Previews <- {1}, Slots <- {1}, Keys <- {1},
        Dispatchers <- {1, 2}, MaxVersion <- 3, MaxRevision <- 1, MaxWorld <- 1,
        MaxConflict <- 0, MaxAttempts <- 2, MaxRequests <- 2, MaxFaults <- 3,
        intents <- previewIntents, flows <- previewFlows, faults <- previewFaults

Recover == INSTANCE Recovery WITH
        Writers <- {1, 2}, Backups <- {1}, Restores <- {1, 2}, MaxFaults <- 1,
        faults <- recFaults

-----------------------------------------------------------------------------
BackgroundInit ==
    /\ part \in {"preview", "projection", "recovery"}
    /\ Preview!Init
    /\ Init
    /\ Recover!Init

Runs(p) == part = p /\ UNCHANGED part

PreviewIdle == UNCHANGED <<projectionVars, recoverVars>>
ProjectionIdle == UNCHANGED <<previewVars, recoverVars>>
RecoverIdle == UNCHANGED <<previewVars, projectionVars>>

PreviewStep == Runs("preview") /\ Preview!Next /\ PreviewIdle
ProjectionStep == Runs("projection") /\ Next /\ ProjectionIdle
RecoverStep == Runs("recovery") /\ Recover!Next /\ RecoverIdle

BackgroundNext == PreviewStep \/ ProjectionStep \/ RecoverStep

BackgroundSpec == BackgroundInit /\ [][BackgroundNext]_backgroundVars

PreviewDispatch(d) == Runs("preview") /\ Preview!Dispatch(d) /\ PreviewIdle
PreviewClaim(d) == Runs("preview") /\ Preview!ClaimPending(d) /\ PreviewIdle
PreviewReclaim(d) == Runs("preview") /\ Preview!ReclaimExpired(d) /\ PreviewIdle
PreviewOpen == Runs("preview") /\ Preview!OpenAttempt(1) /\ PreviewIdle
PreviewRetry == Runs("preview") /\ Preview!RetryAttempt(1) /\ PreviewIdle
PreviewStale == Runs("preview") /\ Preview!StaleAttempt(1) /\ PreviewIdle
PreviewEnd == Runs("preview") /\ Preview!EndFlow(1) /\ PreviewIdle
PreviewCommit == Runs("preview") /\ Preview!CommitAttempt(1) /\ PreviewIdle
PreviewPublish == Runs("preview") /\ Preview!CommitPublication(1) /\ PreviewIdle

ProjectionDispatcher(d) == Runs("projection") /\ DispatchOnce(d) /\ ProjectionIdle
ProjectionBackoff(id) == Runs("projection") /\ BackoffEnds(id) /\ ProjectionIdle
ProjectionLease(id) ==
    Runs("projection") /\ LeaseRunsOut(id) /\ ~AtWork(id) /\ ProjectionIdle

Backup(b) == Runs("recovery") /\ Recover!Running(b) /\ Recover!BackupStep(b) /\ RecoverIdle

\* The fairness each component's own FairSpec states: one component runs in a
\* behaviour, so fairness of the union of two of their actions is fairness of the
\* one that belongs to the component that runs.
BackgroundFairness ==
    /\ WF_backgroundVars(Backup(1))
    /\ \A d \in {1, 2} :
          /\ WF_backgroundVars(PreviewClaim(d)) /\ WF_backgroundVars(PreviewReclaim(d))
          /\ WF_backgroundVars(PreviewDispatch(d) \/ ProjectionDispatcher(d))
    /\ WF_backgroundVars(PreviewOpen) /\ WF_backgroundVars(PreviewRetry)
    /\ WF_backgroundVars(PreviewStale)
    /\ WF_backgroundVars(PreviewEnd) /\ SF_backgroundVars(PreviewCommit)
    /\ WF_backgroundVars(PreviewPublish)
    /\ \A id \in Ids :
          /\ WF_backgroundVars(ProjectionBackoff(id))
          /\ WF_backgroundVars(ProjectionLease(id))

BackgroundFairSpec == BackgroundSpec /\ BackgroundFairness

-----------------------------------------------------------------------------
\* Every requested policy preview is evaluated or fails.
PreviewSettles == part = "preview" => Preview!PreviewSettles

\* A published bundle is complete and can be restored.
RecoverySafe == part = "recovery" => Recover!RecoverySafe

\* A backup that has taken the tables ends.
BackupEnds == part = "recovery" => Recover!BackupEnds

\* A settled intent stays settled; a restore that reports success left the
\* bundle on the target, and a published bundle is never changed.
BackgroundSteps ==
    /\ DispatchedStays
    /\ Recover!RecoverySteps

=============================================================================
