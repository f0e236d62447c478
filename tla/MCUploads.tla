------------------------------ MODULE MCUploads ------------------------------
(*****************************************************************************)
(* TLC instances of the two upload paths, with the fairness their liveness   *)
(* needs, and of the object store below them.                                *)
(*                                                                           *)
(* The components share no variable, so one of them runs in each             *)
(* behaviour: the initial state picks which, and the others stay where       *)
(* they began. A property of a component holds of every behaviour that is    *)
(* about it.                                                                 *)
(*****************************************************************************)
EXTENDS SmallFileUpload, Sequences

VARIABLES part,  \* the component this behaviour is about
          multiKind, multiRow, multiRevision, multiExcluded, version, multiPublished,
          session, upload, stored, object, multiReq, multiEvent, progress, waits, multiFile,
          multiFaults,
          call, bucket, spool, flight, orphans, check, damaged, storeFaults

smallVars == <<kind, row, revision, excluded, source, published, captured, req, event, pass,
               file, faults>>
multiVars == <<multiKind, multiRow, multiRevision, multiExcluded, version, multiPublished,
               session, upload, stored, object, multiReq, multiEvent, progress, waits,
               multiFile, multiFaults>>
storeVars == <<call, bucket, spool, flight, orphans, check, damaged, storeFaults>>
uploadsVars == <<part, smallVars, multiVars, storeVars>>

Multi == INSTANCE MultipartUpload WITH
        Slots <- {1, 2}, Tokens <- 1 .. 5, Parts <- {1, 2}, Uploads <- {1, 2, 3},
        MaxRevision <- 2, MaxFaults <- 1, kind <- multiKind, row <- multiRow,
        revision <- multiRevision, excluded <- multiExcluded, published <- multiPublished,
        req <- multiReq, event <- multiEvent, file <- multiFile, faults <- multiFaults

Store == INSTANCE ObjectStore WITH
        Calls <- {1, 2}, MaxPermits <- 2, MaxReserved <- 3, MaxAttempts <- 2,
        MaxCancels <- 1, MaxFaults <- 1, faults <- storeFaults

-----------------------------------------------------------------------------
UploadsInit ==
    /\ part \in {"small", "multipart", "objects"}
    /\ Init
    /\ Multi!Init
    /\ Store!Init
    \* a component at rest needs one of its initial states
    /\ part = "small" \/ kind = "unchanged"
    /\ part = "multipart" \/ multiKind = "create"
    /\ part = "objects" \/ bucket = Store!NoObject

Runs(p) == part = p /\ UNCHANGED part

SmallIdle == UNCHANGED <<multiVars, storeVars>>
MultiIdle == UNCHANGED <<smallVars, storeVars>>
StoreIdle == UNCHANGED <<smallVars, multiVars>>

SmallStep == Runs("small") /\ Next /\ SmallIdle
MultiStep == Runs("multipart") /\ Multi!Next /\ MultiIdle
StoreStep == Runs("objects") /\ Store!Next /\ StoreIdle

UploadsNext == SmallStep \/ MultiStep \/ StoreStep

UploadsSpec == UploadsInit /\ [][UploadsNext]_uploadsVars

SmallDevice == Runs("small") /\ DeviceStep /\ SmallIdle
SmallServer(s) == Runs("small") /\ ServerStep(s) /\ SmallIdle

MultiDevice == Runs("multipart") /\ Multi!DeviceStep /\ MultiIdle
MultiWorker == Runs("multipart") /\ Multi!WorkerStep /\ MultiIdle
MultiLeaseEnds == Runs("multipart") /\ Multi!LeaseEnds /\ ~Multi!Held(session.claim) /\ MultiIdle
MultiServer(s) == Runs("multipart") /\ Multi!ServerStep(s) /\ MultiIdle
MultiPut(s) == Runs("multipart") /\ Multi!PutPart(s) /\ MultiIdle

\* The fairness each component's own FairSpec states: one component runs in a
\* behaviour, so fairness of the union of two of their actions is fairness of the
\* one that belongs to the component that runs.
UploadsFairness ==
    /\ WF_uploadsVars(SmallDevice \/ MultiDevice)
    /\ WF_uploadsVars(MultiWorker) /\ WF_uploadsVars(MultiLeaseEnds)
    /\ \A s \in {1, 2} : /\ WF_uploadsVars(SmallServer(s) \/ MultiServer(s))
                        /\ WF_uploadsVars(MultiPut(s))

UploadsFairSpec == UploadsSpec /\ UploadsFairness

-----------------------------------------------------------------------------
\* A multipart session: a committed session names the version of its own event,
\* and what a cleaned one left at the provider does not come back.
MultiSafe == part = "multipart" => Multi!MultiSafe

\* Every obligation of an ended session is cleaned up at last.
CleanupSettles == part = "multipart" => Multi!CleanupSettles

\* The object store: no capacity and no flight leaks, receipts are proven, a
\* cancellation stays with its call, and every call can end.
StoreSafe == part = "objects" => Store!StoreSafe

\* A small upload is published only while the policy allows it; an ended
\* session stays ended, and only its live holder or the deadline ends it; a
\* stored object is never written again.
UploadSteps ==
    /\ PublishedAsAllowed
    /\ Multi!MultiSteps
    /\ Store!Immutable

=============================================================================
