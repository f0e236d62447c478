------------------------------ MODULE Recovery ------------------------------
(***************************************************************************)
(* Backup bundles and the restore into an empty target (recovery/service,  *)
(* recovery/bundle, backup_snapshot, postgresql_dump_process and the       *)
(* operator commands of canonical_core_operations).                        *)
(*                                                                         *)
(* A backup takes SHARE locks on the canonical tables, exports a snapshot, *)
(* dumps it with pg_dump, copies the objects the snapshot's versions name, *)
(* checks that nobody waits for its locks and publishes the staged         *)
(* directory: an exclusive mkdir of the final name, then one rename per    *)
(* entry.  The process may die at any step, the database may end the idle  *)
(* snapshot session, files and objects may rot, and writers keep           *)
(* publishing.  A restore verifies a bundle offline, admits an empty       *)
(* target, places the objects, runs pg_restore in one transaction and      *)
(* verifies the result.                                                    *)
(*                                                                         *)
(* A version is the content it names.  Environment gates, free space,      *)
(* permissions, hard links and the JSON grammar are refusals without       *)
(* effect and count as "the step fails".                                   *)
(***************************************************************************)
EXTENDS Naturals, FiniteSets, Sequences

CONSTANTS Writers,    \* publishers of the source database; writer w publishes content w
          Backups,    \* backup-create commands, each with its own bundle identity
          Restores,   \* restore-empty commands, all on one target
          MaxFaults   \* bound on damage, crashes, failed steps and ended sessions

VARIABLES committed,  \* contents of the committed source_versions
          writer,     \* where each publication is
          bucket,     \* the object bucket the backup reads
          backup,     \* the running backup commands
          bundle,     \* the directories of the backup root, staging and final
          target,     \* the restore target: its database and its bucket
          restore,    \* the running restore commands
          faults

vars == <<committed, writer, bucket, backup, bundle, target, restore, faults>>

Contents == Writers

\* The files of a bundle in the order the publication moves them.
Entries == <<"manifest", "sidecar", "objects", "dump">>

NoBundle == [staged |-> {}, final |-> {}, claimed |-> FALSE, dump |-> {}, dumpGood |-> TRUE,
             manifest |-> {}, counts |-> 0, objects |-> {}, rotten |-> {}]
NoBackup == [pc |-> "idle", locks |-> FALSE, snapshot |-> {}, result |-> "none"]
NoRestore == [pc |-> "idle", op |-> "restore", bundle |-> 0, manifest |-> {}, counts |-> 0,
              placed |-> {}, result |-> "none"]

Init ==
    /\ committed = {} /\ writer = [w \in Writers |-> "idle"]
    /\ bucket = [c \in Contents |-> "absent"]
    /\ backup = [b \in Backups |-> NoBackup]
    /\ bundle = [b \in Backups |-> NoBundle]
    /\ target = [loaded |-> FALSE, versions |-> {}, bucket |-> [c \in Contents |-> "absent"]]
    /\ restore = [r \in Restores |-> NoRestore]
    /\ faults = 0

Fault == faults < MaxFaults /\ faults' = faults + 1

-----------------------------------------------------------------------------
(* Writers of the source database.                                         *)

TablesShared == \E b \in Backups : backup[b].locks

\* The object is stored before the transaction opens; its first statement waits
\* while a backup holds the tables.
StoreObject(w) ==
    /\ writer[w] = "idle" /\ bucket[w] = "absent"
    /\ bucket' = [bucket EXCEPT ![w] = "good"]
    /\ writer' = [writer EXCEPT ![w] = IF TablesShared THEN "waiting" ELSE "writing"]
    /\ UNCHANGED <<committed, backup, bundle, target, restore, faults>>

GetLock(w) ==
    /\ writer[w] = "waiting" /\ ~TablesShared
    /\ writer' = [writer EXCEPT ![w] = "writing"]
    /\ UNCHANGED <<committed, bucket, backup, bundle, target, restore, faults>>

CommitVersion(w) ==
    /\ writer[w] = "writing"
    /\ writer' = [writer EXCEPT ![w] = "done"]
    /\ committed' = committed \cup {w}
    /\ UNCHANGED <<bucket, backup, bundle, target, restore, faults>>

-----------------------------------------------------------------------------
(* Backup.                                                                 *)

\* A failed command removes what it published and its staging directory; the
\* rollback releases the locks.
Abandoned(b) ==
    /\ backup' = [backup EXCEPT ![b] = [NoBackup EXCEPT !.pc = "ended", !.result = "failed"]]
    /\ bundle' = [bundle EXCEPT ![b] = NoBundle]

At(b, pc) == backup[b].pc = pc
Go(b, pc) == backup' = [backup EXCEPT ![b].pc = pc]

World == <<committed, writer, bucket, target, restore>>

\* The operator's command: the client tools are found, the object store is opened.
BackupCommand(b) ==
    /\ At(b, "idle") /\ Go(b, "begin")
    /\ UNCHANGED <<bundle, faults, World>>

\* LOCK TABLE ... NOWAIT fails on the first table somebody writes.
NobodyWrites == \A w \in Writers : writer[w] # "writing"

\* The content objects some version refers to, one row per object.
ReferencedObjects == committed

\* build_share_lock_statements, then pg_export_snapshot: the snapshot is taken
\* by the first query, after the locks.
LockAndSnapshot(b) ==
    /\ At(b, "begin")
    /\ IF NobodyWrites
         THEN backup' = [backup EXCEPT ![b].pc = "staging", ![b].locks = TRUE,
                                       ![b].snapshot = ReferencedObjects]
         ELSE backup' = [backup EXCEPT ![b].pc = "ended", ![b].result = "busy"]
    /\ UNCHANGED <<bundle, faults, World>>

\* The final name must be free; the staging directory gets a name nobody guesses.
CreateStaging(b) ==
    /\ At(b, "staging") /\ ~bundle[b].claimed
    /\ Go(b, "dump")
    /\ UNCHANGED <<bundle, faults, World>>

\* What pg_dump writes: the rows of the exported snapshot.
DumpContent(b) == backup[b].snapshot

\* pg_dump imports the snapshot, which only works while its session lives.
CreateDump(b) ==
    /\ At(b, "dump")
    /\ IF backup[b].locks
         THEN /\ bundle' = [bundle EXCEPT ![b].dump = DumpContent(b), ![b].staged = @ \cup {"dump"}]
              /\ Go(b, "copy")
         ELSE Abandoned(b)
    /\ UNCHANGED <<faults, World>>

\* Objects are copied through the verified reader; the bytes read are hashed again.
CopyVerified(c) == bucket[c] = "good"

CopyObject(b, c) ==
    /\ At(b, "copy") /\ c \in backup[b].snapshot \ bundle[b].objects
    /\ IF CopyVerified(c)
         THEN /\ bundle' = [bundle EXCEPT ![b].objects = @ \cup {c},
                                          ![b].staged = @ \cup {"objects"}]
              /\ UNCHANGED backup
         ELSE Abandoned(b)
    /\ UNCHANGED <<faults, World>>

\* Mutant: the backup waits until nobody waits for it.
AwaitWriters(b) ==
    /\ At(b, "copy") /\ backup[b].snapshot \subseteq bundle[b].objects
    /\ ~\E w \in Writers : writer[w] = "waiting"
    /\ Go(b, "manifest") /\ UNCHANGED <<bundle, faults, World>>

\* observe_pending_writers: a writer that waits for the locks aborts the backup.
ObservePending(b) ==
    /\ At(b, "copy") /\ backup[b].snapshot \subseteq bundle[b].objects
    /\ IF \E w \in Writers : writer[w] = "waiting"
         THEN Abandoned(b)
         ELSE Go(b, "manifest") /\ UNCHANGED bundle
    /\ UNCHANGED <<faults, World>>

\* The manifest registers the copied objects and the row counts of the snapshot, the
\* sidecar the manifest's digest.
WriteManifest(b) ==
    /\ At(b, "manifest")
    /\ bundle' = [bundle EXCEPT ![b].manifest = bundle[b].objects,
                                ![b].counts = Cardinality(backup[b].snapshot),
                                ![b].staged = @ \cup {"manifest", "sidecar"}]
    /\ Go(b, "claim")
    /\ UNCHANGED <<faults, World>>

\* The exclusive mkdir of the final name is the claim.
ClaimFinal(b) ==
    /\ At(b, "claim") /\ ~bundle[b].claimed
    /\ bundle' = [bundle EXCEPT ![b].claimed = TRUE]
    /\ Go(b, "move")
    /\ UNCHANGED <<faults, World>>

NextEntry(b) ==
    LET left == {i \in DOMAIN Entries : Entries[i] \in bundle[b].staged}
    IN  Entries[CHOOSE i \in left : \A j \in left : i <= j]

\* One rename per entry, in the sorted order of the directory.
MoveEntry(b) ==
    /\ At(b, "move") /\ bundle[b].staged # {}
    /\ LET e == NextEntry(b)
       IN  bundle' = [bundle EXCEPT ![b].staged = @ \ {e}, ![b].final = @ \cup {e}]
    /\ UNCHANGED <<backup, faults, World>>

\* The empty staging directory goes, the writer is finalised and the rollback
\* releases the locks.  A session that has ended meanwhile makes the command fail
\* after the bundle is out.
FinishBackup(b) ==
    /\ At(b, "move") /\ bundle[b].staged = {}
    /\ backup' = [backup EXCEPT ![b] = [NoBackup EXCEPT
                     !.pc = "ended", !.result = IF backup[b].locks THEN "created" ELSE "unknown"]]
    /\ UNCHANGED <<bundle, faults, World>>

BackupStep(b) ==
    \/ BackupCommand(b) \/ LockAndSnapshot(b) \/ CreateStaging(b) \/ CreateDump(b) \/ ObservePending(b)
    \/ \E c \in Contents : CopyObject(b, c)
    \/ WriteManifest(b) \/ ClaimFinal(b) \/ MoveEntry(b) \/ FinishBackup(b)

Running(b) == backup[b].pc \notin {"idle", "ended"}

\* A step of the running backup raises: no space, a lost connection, pg_dump's own
\* error, the 600 second bound.
BackupFails(b) ==
    /\ Running(b) /\ Fault /\ Abandoned(b)
    /\ UNCHANGED World

\* The process dies: its session and its locks with it, its directories stay.
BackupDies(b) ==
    /\ Running(b) /\ Fault
    /\ backup' = [backup EXCEPT ![b] = [NoBackup EXCEPT !.pc = "ended", !.result = "died"]]
    /\ UNCHANGED <<bundle, World>>

\* idle_in_transaction_session_timeout: the snapshot session is idle while the
\* dump and the copies run, and after 30 seconds the server ends it.
SessionEnds(b) ==
    /\ Running(b) /\ backup[b].locks /\ Fault
    /\ backup' = [backup EXCEPT ![b].locks = FALSE]
    /\ UNCHANGED <<bundle, World>>

-----------------------------------------------------------------------------
(* Verification and restore.                                               *)

RegisteredFiles(b) ==
    {"manifest", "sidecar", "dump"} \cup (IF bundle[b].manifest = {} THEN {} ELSE {"objects"})

\* Every file of the final directory is registered and every registered one is there.
TreeMatches(b) ==
    bundle[b].final = RegisteredFiles(b) /\ bundle[b].objects = bundle[b].manifest

\* Streamed digests and sizes are those the manifest gives.
FilesIntact(b) == bundle[b].rotten = {} /\ bundle[b].dumpGood

\* Mutant: the listed files are checked, the tree is not walked.
VerifyListed(b) ==
    /\ bundle[b].claimed /\ {"manifest", "sidecar"} \subseteq bundle[b].final
    /\ FilesIntact(b)

\* verify_offline: the final directory exists, its file tree is the registered one,
\* and every file has the digest the manifest and its sidecar give it.
VerifyOffline(b) == bundle[b].claimed /\ TreeMatches(b) /\ FilesIntact(b)

RestoreAt(r, pc) == restore[r].pc = pc
RestoreEnds(r, result) == restore' = [restore EXCEPT ![r].pc = "ended", ![r].result = result]

Source == <<committed, writer, bucket, backup>>

\* restore-empty, with the target named twice, or backup-verify.
RestoreCommand(r) ==
    /\ RestoreAt(r, "idle")
    /\ \E op \in {"restore", "verify"} :
         restore' = [restore EXCEPT ![r].pc = "open", ![r].op = op]
    /\ UNCHANGED <<bundle, target, faults, Source>>

\* backup-verify only reads.
VerifyBundle(r) ==
    /\ RestoreAt(r, "open") /\ restore[r].op = "verify"
    /\ \E b \in Backups : RestoreEnds(r, IF VerifyOffline(b) THEN "verified" ELSE "bundle_invalid")
    /\ UNCHANGED <<bundle, target, faults, Source>>

\* open_verified: the bundle is verified before anything else is opened; its manifest
\* stays in memory, its files are read where they are.
OpenVerified(r) ==
    /\ RestoreAt(r, "open") /\ restore[r].op = "restore"
    /\ \E b \in Backups :
         /\ bundle[b].claimed
         /\ IF VerifyOffline(b)
              THEN restore' = [restore EXCEPT ![r] = [NoRestore EXCEPT
                                  !.pc = "admit", !.bundle = b, !.manifest = bundle[b].manifest,
                                  !.counts = bundle[b].counts]]
              ELSE RestoreEnds(r, "bundle_invalid")
    /\ UNCHANGED <<bundle, target, faults, Source>>

\* The target has no relation of the application and no migration head.
ApplicationEmpty == ~target.loaded

AdmitTarget(r) ==
    /\ RestoreAt(r, "admit")
    /\ IF ApplicationEmpty THEN restore' = [restore EXCEPT ![r].pc = "objects"]
                           ELSE RestoreEnds(r, "target_not_empty")
    /\ UNCHANGED <<bundle, target, faults, Source>>

\* An object that is there is verified, an absent one is streamed from the bundle
\* under its claimed digest; a damaged one on either side ends the restore.
RestoreObject(r, c) ==
    /\ RestoreAt(r, "objects") /\ c \in restore[r].manifest \ restore[r].placed
    /\ LET readable == c \in bundle[restore[r].bundle].objects \ bundle[restore[r].bundle].rotten
       IN  IF target.bucket[c] = "good" \/ (target.bucket[c] = "absent" /\ readable)
             THEN /\ target' = [target EXCEPT !.bucket[c] = "good"]
                  /\ restore' = [restore EXCEPT ![r].placed = @ \cup {c}]
             ELSE RestoreEnds(r, "integrity_failed") /\ UNCHANGED target
    /\ UNCHANGED <<bundle, faults, Source>>

\* pg_restore --single-transaction --exit-on-error: all of the dump or none of it,
\* and none of it where another restore has loaded one or the bundle is gone again:
\* a backup that fails after its last rename removes what it published.
RestoreDump(r) ==
    /\ RestoreAt(r, "objects") /\ restore[r].placed = restore[r].manifest
    /\ LET b == restore[r].bundle IN
       IF ApplicationEmpty /\ "dump" \in bundle[b].final /\ bundle[b].dumpGood
         THEN /\ target' = [target EXCEPT !.loaded = TRUE, !.versions = bundle[b].dump]
              /\ restore' = [restore EXCEPT ![r].pc = "verify"]
         ELSE RestoreEnds(r, "restore_failed") /\ UNCHANGED target
    /\ UNCHANGED <<bundle, faults, Source>>

\* The rows of the target are as many as the manifest says.
CountsMatch(r) == Cardinality(target.versions) = restore[r].counts

\* Mutant: the receipts of the restore phase are trusted.
ReceiptsTrusted(r) == TRUE

\* _verify_restored_graph: head, counts, current pointers, and every object of
\* the manifest read again in full.
ObjectsVerified(r) == \A c \in restore[r].manifest : target.bucket[c] = "good"

VerifyGraph(r) ==
    /\ RestoreAt(r, "verify")
    /\ IF CountsMatch(r) /\ ObjectsVerified(r)
         THEN RestoreEnds(r, "restored") ELSE RestoreEnds(r, "restore_failed")
    /\ UNCHANGED <<bundle, target, faults, Source>>

RestoreStep(r) ==
    \/ RestoreCommand(r) \/ VerifyBundle(r) \/ OpenVerified(r) \/ AdmitTarget(r) \/ RestoreDump(r) \/ VerifyGraph(r)
    \/ \E c \in Contents : RestoreObject(r, c)

\* A restore fails or dies: what it placed stays, pg_restore has committed or not.
RestoreStops(r) ==
    /\ restore[r].pc \notin {"idle", "ended"} /\ Fault
    /\ RestoreEnds(r, "stopped")
    /\ UNCHANGED <<bundle, target, Source>>

\* The exit code of a command.
ExitCode(result) ==
    CASE result \in {"created", "restored", "verified"} -> "ok"
      [] result = "busy" -> "busy"
      [] result \in {"bundle_invalid", "target_not_empty", "integrity_failed"} -> "contract"
      [] OTHER -> "unavailable"

-----------------------------------------------------------------------------
(* Damage outside the program.                                             *)

ObjectRots(c) ==
    /\ bucket[c] = "good" /\ Fault
    /\ bucket' = [bucket EXCEPT ![c] = "damaged"]
    /\ UNCHANGED <<committed, writer, backup, bundle, target, restore>>

TargetObjectRots(c) ==
    /\ target.bucket[c] = "good" /\ Fault
    /\ target' = [target EXCEPT !.bucket[c] = "damaged"]
    /\ UNCHANGED <<committed, writer, bucket, backup, bundle, restore>>

BundleRots(b) ==
    /\ Fault
    /\ \/ \E c \in bundle[b].objects \ bundle[b].rotten :
            bundle' = [bundle EXCEPT ![b].rotten = @ \cup {c}]
       \/ "dump" \in bundle[b].final /\ bundle[b].dumpGood
            /\ bundle' = [bundle EXCEPT ![b].dumpGood = FALSE]
    /\ UNCHANGED <<committed, writer, bucket, backup, target, restore>>

\* Nobody has to run a command.
Quiet == UNCHANGED vars

Next ==
    \/ \E w \in Writers : StoreObject(w) \/ GetLock(w) \/ CommitVersion(w)
    \/ \E b \in Backups : BackupStep(b) \/ BackupFails(b) \/ BackupDies(b) \/ SessionEnds(b)
    \/ \E r \in Restores : RestoreStep(r) \/ RestoreStops(r)
    \/ \E c \in Contents : ObjectRots(c) \/ TargetObjectRots(c)
    \/ \E b \in Backups : BundleRots(b)
    \/ Quiet

Spec == Init /\ [][Next]_vars

\* A running command takes its next step.
Fairness == \A b \in Backups : WF_vars(Running(b) /\ BackupStep(b))

FairSpec == Spec /\ Fairness

-----------------------------------------------------------------------------
(* Properties                                                              *)

\* Commands and directories have their shapes; only a claimed name holds files.
TypeOK ==
    /\ committed \subseteq Contents
    /\ writer \in [Writers -> {"idle", "waiting", "writing", "done"}]
    /\ \A b \in Backups :
         /\ backup[b].pc \in {"idle", "staging", "dump", "copy", "manifest", "claim", "move",
                              "ended", "begin"}
         /\ bundle[b].final # {} => bundle[b].claimed
         /\ bundle[b].staged \cap bundle[b].final = {}
    /\ \A r \in Restores : restore[r].placed \subseteq restore[r].manifest

\* A bundle that passes offline verification holds the bytes of every version its
\* dump names, whatever was published, damaged or interrupted while it was made:
\* referenced objects and dump come from one snapshot.
BundleRestorable ==
    \A b \in Backups :
       VerifyOffline(b) =>
          /\ "dump" \in bundle[b].final
          /\ \A c \in bundle[b].dump : "objects" \in bundle[b].final /\ c \in bundle[b].objects

\* A backup command that exits with success left a complete bundle.
CreatedIsComplete ==
    \A b \in Backups :
       ExitCode(backup[b].result) = "ok" =>
          (bundle[b].final = RegisteredFiles(b) /\ bundle[b].staged = {})

RecoverySafe == TypeOK /\ BundleRestorable /\ CreatedIsComplete

\* A restore reports success only when the target holds exactly the versions of the
\* bundle it was asked for and the bytes of each, even if another restore ran on
\* the same target; the bundle itself may be gone when its backup failed after all.
RestoreTrue ==
    [][\A r \in Restores :
          (restore'[r].result = "restored" /\ restore[r].result # "restored") =>
             /\ target'.versions = restore[r].manifest
             /\ bundle[restore[r].bundle].claimed => target'.versions = bundle[restore[r].bundle].dump
             /\ \A c \in target'.versions : target'.bucket[c] = "good"]_vars

\* The program never changes a published bundle again.
PublishedForGood ==
    [][\A b \in Backups :
          (VerifyOffline(b) /\ ~Running(b)) => bundle'[b].final = bundle[b].final]_vars

RecoverySteps == RestoreTrue /\ PublishedForGood

\* A backup that has taken the tables ends: it does not wait for those who wait
\* for it.
BackupEnds == \A b \in Backups : Running(b) ~> ~Running(b)
=============================================================================
