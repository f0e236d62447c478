-------------------------- MODULE MCAdministration ---------------------------
(*****************************************************************************)
(* TLC instances of what users administer: device credentials, web           *)
(* sessions, and the publishing and signing keys of the exclusion policy;    *)
(* and of the API process in front of them.                                  *)
(*                                                                           *)
(* The components share no variable, so one of them runs in each             *)
(* behaviour: the initial state picks which, and the others stay where       *)
(* they began. A property of a component holds of every behaviour that is    *)
(* about it.                                                                 *)
(*****************************************************************************)
EXTENDS DeviceCredentials, Sequences

VARIABLES part,  \* the component this behaviour is about
          credential, totp, codes, session, bucket, webStep, webReq, spent, effort,
          draft, revisions, intents, previews, world, conflicts, locked, slots, leases,
          flows, requests, pubFaults,
          keysets, keyRows, files, snapshots, runs, keysDevice, commands, keysFaults,
          stage, apiStep, exit, reports, blame, proofs, engine, client, sessions, apiDevice,
          apiReq, evaluated, sinks

deviceVars == <<grant, device, family, refresh, access, req, record, setting, memory,
                started, stale, faults>>
webVars == <<credential, totp, codes, session, bucket, webStep, webReq, spent, effort>>
publishingVars == <<draft, revisions, intents, previews, world, conflicts, locked, slots,
                    leases, flows, requests, pubFaults>>
keysVars == <<keysets, keyRows, files, snapshots, runs, keysDevice, commands, keysFaults>>
apiVars == <<stage, apiStep, exit, reports, blame, proofs, engine, client, sessions,
             apiDevice, apiReq, evaluated, sinks>>
administrationVars == <<part, deviceVars, webVars, publishingVars, keysVars, apiVars>>

Web == INSTANCE WebSessions WITH
        Sessions <- {1, 2}, Enrollments <- {1, 2}, Slots <- {1, 2}, MaxRevision <- 2,
        MaxIssue <- 2, MaxStep <- 2, MaxSecret <- 3, Threshold <- 2, MaxEffort <- 5,
        step <- webStep, req <- webReq

\* What the proofs of the web sessions assume of their bounds.
ASSUME WebAssumption == Web!WebConstants

Publishing == INSTANCE PolicyPublishing WITH
        Rules <- {"none", "a"}, Previews <- {1}, Slots <- {1, 2}, Keys <- {1},
        Dispatchers <- {1}, MaxVersion <- 3, MaxRevision <- 1, MaxWorld <- 1,
        MaxConflict <- 1, MaxAttempts <- 1, MaxRequests <- 3, MaxFaults <- 1,
        faults <- pubFaults

\* What the proofs of the publication assume of their bounds.
ASSUME PublishingAssumption == Publishing!PublishingConstants

Keys == INSTANCE PolicyKeys WITH
        Keys <- {1, 2}, Runs <- {1, 2}, MaxKeysets <- 4, MaxCommands <- 3,
        MaxSnapshots <- 2, MaxFaults <- 1, device <- keysDevice, faults <- keysFaults

\* A secret file that is refused, and one that is read.
ServerSecretFiles ==
    {[exists |-> TRUE, inRoot |-> TRUE, regular |-> TRUE, large |-> FALSE,
      writable |-> w, text |-> TRUE, blank |-> FALSE] : w \in BOOLEAN}
ServerExercised ==
    {"revoke_current_device_token", "revoke_device", "download_source_version",
     "upload_content"}

Api == INSTANCE ApiServer WITH
        Requests <- {1, 2}, Secrets <- {"first", "second"}, Exercised <- ServerExercised,
        SecretFiles <- ServerSecretFiles, step <- apiStep, device <- apiDevice,
        req <- apiReq

-----------------------------------------------------------------------------
AdministrationInit ==
    /\ part \in {"device", "web", "publishing", "keys", "server"}
    /\ Init
    /\ Web!Init
    /\ Publishing!Init
    /\ Keys!Init
    /\ Api!Init

Runs(p) == part = p /\ UNCHANGED part

DeviceIdle == UNCHANGED <<webVars, publishingVars, keysVars, apiVars>>
WebIdle == UNCHANGED <<deviceVars, publishingVars, keysVars, apiVars>>
PublishingIdle == UNCHANGED <<deviceVars, webVars, keysVars, apiVars>>
KeysIdle == UNCHANGED <<deviceVars, webVars, publishingVars, apiVars>>
ApiIdle == UNCHANGED <<deviceVars, webVars, publishingVars, keysVars>>

DeviceStep == Runs("device") /\ Next /\ DeviceIdle
WebStep == Runs("web") /\ Web!Next /\ WebIdle
PublishingStep == Runs("publishing") /\ Publishing!Next /\ PublishingIdle
KeysStep == Runs("keys") /\ Keys!Next /\ KeysIdle
ApiStep == Runs("server") /\ Api!Next /\ ApiIdle

AdministrationNext == DeviceStep \/ WebStep \/ PublishingStep \/ KeysStep \/ ApiStep

AdministrationSpec == AdministrationInit /\ [][AdministrationNext]_administrationVars

-----------------------------------------------------------------------------
\* Web sessions: live sessions are of the current credential, one factor is
\* active, codes are accepted once and from the latest issue. The API process:
\* nothing is served before both proofs hold, a revoked caller has no effect,
\* and what it opened is closed.
WebSafe ==
    /\ part = "web" => Web!WebSafe
    /\ part = "server" => Api!ServerSafe

\* A published revision is what its preview showed, answers tell what is
\* committed, rows satisfy their tables.
PublishingSafe == part = "publishing" => Publishing!PublishingSafe

\* The keyset chain can be walked and extended, a command prints what it did,
\* and no refresh accuses an honest server.
KeysSafe == part = "keys" => Keys!KeysSafe

\* Decisions about grants stand and the device stores keep the contract of
\* their ports, no session skips the second factor, what is revoked stays
\* revoked; a settled preview stays settled, and keys only move forward; the
\* server releases what it opened only when nothing is in flight.
AdministrationSteps ==
    /\ DeviceSteps
    /\ ImplementsContract
    /\ Web!WebSteps
    /\ Publishing!SettledStays
    /\ Keys!KeysMoveForward
    /\ Api!ServerSteps

=============================================================================
