---------------------------- MODULE RecoveryProofs ----------------------------
(***************************************************************************)
(* Proofs about Recovery for any number of writers, backups, restores and  *)
(* faults: a bundle that passes offline verification can be restored, a    *)
(* backup that reports success has published all of it, a restore that     *)
(* reports success put exactly the bundle's versions and their bytes on    *)
(* the target, and a bundle whose backup has ended is not changed.         *)
(*                                                                         *)
(* The argument has two halves.  A backup is alone with its directory, so  *)
(* where it stands says what the directory holds ("BackupStands"), and     *)
(* what a command that died leaves behind is claimed only if it is whole   *)
(* ("DirectoryTrue").  A restore shares nothing with the backup that made  *)
(* its bundle, yet that backup may still be running: "Opened" is what a    *)
(* restore may rely on between verifying the bundle and reading its files. *)
(***************************************************************************)
EXTENDS Recovery, FiniteSetTheorems, TLAPS

-------------------------------------------------------------------------------
(* The inductive invariant.                                                *)

Files == {"manifest", "sidecar", "objects", "dump"}

BackupLabels == {"idle", "begin", "staging", "dump", "copy", "manifest", "claim", "move", "ended"}
BackupResults == {"none", "busy", "created", "unknown", "failed", "died"}
BackupRecord == [pc : BackupLabels, locks : BOOLEAN, snapshot : SUBSET Contents, result : BackupResults]

BundleRecord == [staged : SUBSET Files, final : SUBSET Files, claimed : BOOLEAN,
                 dump : SUBSET Contents, dumpGood : BOOLEAN, manifest : SUBSET Contents,
                 counts : Nat, objects : SUBSET Contents, rotten : SUBSET Contents]

RestoreLabels == {"idle", "open", "admit", "objects", "verify", "ended"}
RestoreResults == {"none", "verified", "bundle_invalid", "target_not_empty", "integrity_failed",
                   "restore_failed", "restored", "stopped"}
RestoreRecord == [pc : RestoreLabels, op : {"restore", "verify"}, bundle : Backups \cup {0},
                  manifest : SUBSET Contents, counts : Nat, placed : SUBSET Contents,
                  result : RestoreResults]

ObjectStates == {"absent", "good", "damaged"}
TargetRecord == [loaded : BOOLEAN, versions : SUBSET Contents, bucket : [Contents -> ObjectStates]]

Types ==
    /\ committed \in SUBSET Contents /\ IsFiniteSet(committed)
    /\ writer \in [Writers -> {"idle", "waiting", "writing", "done"}]
    /\ backup \in [Backups -> BackupRecord]
    /\ \A b \in Backups : IsFiniteSet(backup[b].snapshot)
    /\ bundle \in [Backups -> BundleRecord]
    /\ target \in TargetRecord
    /\ restore \in [Restores -> RestoreRecord]

Registered(d) == {"manifest", "sidecar", "dump"} \cup (IF d.manifest = {} THEN {} ELSE {"objects"})

\* All that a manifest registers has been written, and the dump names what was copied.
Whole(d) ==
    /\ d.staged \cup d.final = Registered(d)
    /\ d.objects = d.manifest /\ d.dump = d.manifest

\* A directory before its manifest: the dump and the objects copied so far.
Copied(d, snapshot) ==
    /\ d.final = {} /\ ~d.claimed /\ d.manifest = {}
    /\ d.dump = snapshot /\ d.objects \subseteq snapshot
    /\ d.staged = {"dump"} \cup (IF d.objects = {} THEN {} ELSE {"objects"})

\* Where a backup stands, its two directories say so.  A command that died left what it
\* had; one that failed left nothing.
BackupStands(k, d) ==
    /\ k.pc \in {"idle", "begin", "staging", "dump"} => d = NoBundle
    /\ k.pc = "copy" => Copied(d, k.snapshot)
    /\ k.pc = "manifest" => Copied(d, k.snapshot) /\ d.objects = k.snapshot
    /\ k.pc = "claim" => Whole(d) /\ ~d.claimed
    /\ k.pc = "move" => d.claimed
    /\ k.pc = "ended" /\ k.result \in {"created", "unknown"} => d.claimed /\ d.staged = {}
    /\ k.pc = "ended" /\ k.result \in {"failed", "busy"} => d = NoBundle
    /\ k.pc = "ended" <=> k.result # "none"

\* Only a claimed name holds files, and the claim came after the last file was written.
DirectoryTrue(d) ==
    /\ d.staged \cap d.final = {}
    /\ d.claimed => Whole(d)
    /\ ~d.claimed => d.final = {}

\* A restore that has opened a bundle: it is still the one its manifest describes, or the
\* backup that published it has failed after all and taken it away for good.
Opened(k, b) ==
    /\ b \in Backups
    /\ backup[b].pc \in {"move", "ended"}
    /\ \/ bundle[b] = NoBundle
       \/ bundle[b].claimed /\ bundle[b].staged = {} /\ bundle[b].manifest = k.manifest

RestoreStands(k) ==
    /\ k.placed \subseteq k.manifest
    /\ k.pc \in {"admit", "objects", "verify"} => Opened(k, k.bundle)
    /\ k.pc = "verify" => target.loaded /\ target.versions = k.manifest

BackupsTrue == \A b \in Backups : BackupStands(backup[b], bundle[b]) /\ DirectoryTrue(bundle[b])
RestoresTrue == \A r \in Restores : RestoreStands(restore[r])

RecoveryInv == Types /\ BackupsTrue /\ RestoresTrue

-------------------------------------------------------------------------------
(* Facts about records and the files of a bundle.                          *)

\* The publication moves an entry that is there.
LEMMA NextEntryIsStaged ==
    ASSUME NEW b \in Backups, bundle[b].staged \in SUBSET Files, bundle[b].staged # {}
    PROVE  NextEntry(b) \in bundle[b].staged
<1> DEFINE left == {i \in DOMAIN Entries : Entries[i] \in bundle[b].staged}
<1>1. DOMAIN Entries = 1 .. 4
  BY DEF Entries
<1>2. Entries[1] = "manifest" /\ Entries[2] = "sidecar" /\ Entries[3] = "objects" /\ Entries[4] = "dump"
  BY DEF Entries
<1>3. \E i \in left : \A j \in left : i <= j
  <2>1. CASE 1 \in left
    BY <1>1, <2>1
  <2>2. CASE 1 \notin left /\ 2 \in left
    BY <1>1, <2>2
  <2>3. CASE 1 \notin left /\ 2 \notin left /\ 3 \in left
    BY <1>1, <2>3
  <2>4. CASE 1 \notin left /\ 2 \notin left /\ 3 \notin left
    <3>1. 4 \in left
      BY <1>1, <1>2, <2>4 DEF Files
    <3> QED BY <1>1, <2>4, <3>1
  <2> QED BY <2>1, <2>2, <2>3, <2>4
<1>4. PICK i \in left : i = CHOOSE n \in left : \A j \in left : n <= j
  BY <1>3
<1>5. NextEntry(b) = Entries[i]
  BY <1>4 DEF NextEntry
<1> QED BY <1>5

\* The records the program starts from are records.
LEMMA EmptyRecords ==
    /\ NoBackup \in BackupRecord /\ IsFiniteSet(NoBackup.snapshot)
    /\ NoBundle \in BundleRecord
    /\ NoRestore \in RestoreRecord
<1>1. NoBackup \in BackupRecord
  BY DEF NoBackup, BackupRecord, BackupLabels, BackupResults
<1>2. IsFiniteSet(NoBackup.snapshot)
  BY FS_EmptySet DEF NoBackup
<1>3. NoBundle \in BundleRecord
  BY DEF NoBundle, BundleRecord
<1>4. NoRestore \in RestoreRecord
  BY DEF NoRestore, RestoreRecord, RestoreLabels, RestoreResults
<1> QED BY <1>1, <1>2, <1>3, <1>4

\* What a backup may do to a bundle somebody has opened: leave what is registered as
\* it is, or take the bundle away for good.
Leaves(k, d, l, e) ==
    k.pc \in {"move", "ended"} =>
       /\ l.pc \in {"move", "ended"}
       /\ d = NoBundle => e = NoBundle
       /\ \/ e = NoBundle
          \/ e.claimed = d.claimed /\ e.manifest = d.manifest /\ (d.staged = {} => e.staged = {})

LEMMA StillOpened ==
    ASSUME NEW k, NEW b, Opened(k, b), Leaves(backup[b], bundle[b], backup'[b], bundle'[b])
    PROVE  Opened(k, b)'
<1>1. b \in Backups /\ backup[b].pc \in {"move", "ended"}
  BY DEF Opened
<1>2. backup'[b].pc \in {"move", "ended"}
  BY <1>1 DEF Leaves
<1>3. CASE bundle[b] = NoBundle
  BY <1>1, <1>2, <1>3 DEF Opened, Leaves
<1>4. CASE bundle[b] # NoBundle
  <2>1. bundle[b].claimed /\ bundle[b].staged = {} /\ bundle[b].manifest = k.manifest
    BY <1>4 DEF Opened
  <2> QED BY <1>1, <1>2, <2>1 DEF Opened, Leaves
<1> QED BY <1>3, <1>4

-------------------------------------------------------------------------------
(* What a step of one part leaves to the others.                           *)

\* A step of one backup.
LEMMA BackupFrame ==
    ASSUME RecoveryInv, NEW b \in Backups, NEW k \in BackupRecord, NEW d \in BundleRecord,
           IsFiniteSet(k.snapshot), BackupStands(k, d), DirectoryTrue(d),
           Leaves(backup[b], bundle[b], k, d),
           backup' = [backup EXCEPT ![b] = k], bundle' = [bundle EXCEPT ![b] = d],
           UNCHANGED World
    PROVE  RecoveryInv'
<1>1. Types /\ BackupsTrue /\ RestoresTrue
  BY DEF RecoveryInv
<1>2. backup \in [Backups -> BackupRecord] /\ bundle \in [Backups -> BundleRecord]
  BY <1>1 DEF Types
<1>3. \A c \in Backups : /\ backup'[c] = IF c = b THEN k ELSE backup[c]
                         /\ bundle'[c] = IF c = b THEN d ELSE bundle[c]
  BY <1>2
<1>4. committed' = committed /\ writer' = writer /\ target' = target /\ restore' = restore
  BY DEF World
<1>5. Types'
  <2>1. backup' \in [Backups -> BackupRecord] /\ bundle' \in [Backups -> BundleRecord]
    BY <1>2
  <2>2. \A c \in Backups : IsFiniteSet(backup'[c].snapshot)
    BY <1>1, <1>3 DEF Types
  <2> QED BY <1>1, <1>4, <2>1, <2>2 DEF Types
<1>6. BackupsTrue'
  <2>1. ASSUME NEW c \in Backups
        PROVE  BackupStands(backup'[c], bundle'[c]) /\ DirectoryTrue(bundle'[c])
    BY <1>1, <1>3 DEF BackupsTrue
  <2> QED BY <2>1 DEF BackupsTrue
<1>7. RestoresTrue'
  <2>1. ASSUME NEW r \in Restores PROVE RestoreStands(restore[r])'
    <3>1. PICK q : q = restore[r]
      OBVIOUS
    <3>2. RestoreStands(q)
      BY <1>1, <3>1 DEF RestoresTrue
    <3>3. q.pc \in {"admit", "objects", "verify"} => Opened(q, q.bundle)'
      <4>1. SUFFICES ASSUME q.pc \in {"admit", "objects", "verify"} PROVE Opened(q, q.bundle)'
        OBVIOUS
      <4>2. Opened(q, q.bundle)
        BY <3>2, <4>1 DEF RestoreStands
      <4>3. PICK c : c = q.bundle
        OBVIOUS
      <4>4. c \in Backups
        BY <4>2, <4>3 DEF Opened
      <4>5. Leaves(backup[c], bundle[c], backup'[c], bundle'[c])
        <5>1. CASE c = b
          BY <1>3, <4>4, <5>1
        <5>2. CASE c # b
          BY <1>3, <4>4, <5>2 DEF Leaves
        <5> QED BY <5>1, <5>2
      <4>6. Opened(q, c)
        BY <4>2, <4>3
      <4>7. Opened(q, c)'
        BY <4>5, <4>6, StillOpened
      <4> QED BY <4>3, <4>7
    <3>4. RestoreStands(q)'
      BY <1>4, <3>2, <3>3 DEF RestoreStands
    <3>5. restore'[r] = q
      BY <1>4, <3>1
    <3> QED BY <3>4, <3>5
  <2> QED BY <2>1 DEF RestoresTrue
<1> QED BY <1>5, <1>6, <1>7 DEF RecoveryInv

\* A step of one restore: nobody loads a target twice.
LEMMA RestoreFrame ==
    ASSUME RecoveryInv, NEW r \in Restores, NEW k \in RestoreRecord, NEW t \in TargetRecord,
           restore' = [restore EXCEPT ![r] = k], target' = t,
           target.loaded => t.loaded /\ t.versions = target.versions,
           k.placed \subseteq k.manifest,
           k.pc \in {"admit", "objects", "verify"} => Opened(k, k.bundle),
           k.pc = "verify" => t.loaded /\ t.versions = k.manifest,
           UNCHANGED <<bundle, Source>>
    PROVE  RecoveryInv'
<1>1. Types /\ BackupsTrue /\ RestoresTrue
  BY DEF RecoveryInv
<1>2. restore \in [Restores -> RestoreRecord]
  BY <1>1 DEF Types
<1>3. \A q \in Restores : restore'[q] = IF q = r THEN k ELSE restore[q]
  BY <1>2
<1>4. bundle' = bundle /\ backup' = backup /\ committed' = committed /\ writer' = writer
  BY DEF Source
<1>5. Types'
  <2>1. restore' \in [Restores -> RestoreRecord]
    BY <1>2
  <2>2. target' \in TargetRecord
    OBVIOUS
  <2> QED BY <1>1, <1>4, <2>1, <2>2 DEF Types
<1>6. BackupsTrue'
  BY <1>1, <1>4 DEF BackupsTrue
<1>7. RestoresTrue'
  <2>1. ASSUME NEW q \in Restores PROVE RestoreStands(restore[q])'
    <3>1. PICK m : m = restore'[q]
      OBVIOUS
    <3>2. m.placed \subseteq m.manifest
      BY <1>1, <1>3, <3>1 DEF RestoresTrue, RestoreStands
    <3>3. m.pc \in {"admit", "objects", "verify"} => Opened(m, m.bundle)'
      <4>1. m.pc \in {"admit", "objects", "verify"} => Opened(m, m.bundle)
        BY <1>1, <1>3, <3>1 DEF RestoresTrue, RestoreStands
      <4> QED BY <1>4, <4>1 DEF Opened
    <3>4. m.pc = "verify" => target'.loaded /\ target'.versions = m.manifest
      BY <1>1, <1>3, <3>1 DEF RestoresTrue, RestoreStands
    <3>5. RestoreStands(m)'
      BY <3>2, <3>3, <3>4 DEF RestoreStands
    <3> QED BY <3>1, <3>5
  <2> QED BY <2>1 DEF RestoresTrue
<1> QED BY <1>5, <1>6, <1>7 DEF RecoveryInv

-------------------------------------------------------------------------------
(* Backup.                                                                 *)

\* What the invariant says of one backup.
LEMMA BackupKnown ==
    ASSUME RecoveryInv, NEW b \in Backups
    PROVE  /\ backup[b] \in BackupRecord /\ IsFiniteSet(backup[b].snapshot)
           /\ bundle[b] \in BundleRecord
           /\ BackupStands(backup[b], bundle[b]) /\ DirectoryTrue(bundle[b])
           /\ backup \in [Backups -> BackupRecord] /\ bundle \in [Backups -> BundleRecord]
BY DEF RecoveryInv, Types, BackupsTrue

\* A step that writes only the backup's own row.
LEMMA RowFrame ==
    ASSUME RecoveryInv, NEW b \in Backups, NEW k \in BackupRecord,
           IsFiniteSet(k.snapshot), BackupStands(k, bundle[b]),
           backup[b].pc \in {"move", "ended"} => k.pc \in {"move", "ended"},
           backup' = [backup EXCEPT ![b] = k], UNCHANGED <<bundle, World>>
    PROVE  RecoveryInv'
<1>1. PICK d \in BundleRecord : d = bundle[b]
  BY BackupKnown
<1>2. DirectoryTrue(d) /\ BackupStands(k, d)
  BY <1>1, BackupKnown
<1>3. bundle' = [bundle EXCEPT ![b] = d]
  BY <1>1, BackupKnown
<1>4. Leaves(backup[b], bundle[b], k, d)
  BY <1>1 DEF Leaves
<1>5. UNCHANGED World
  OBVIOUS
<1> QED BY <1>2, <1>3, <1>4, <1>5, BackupFrame

LEMMA BackupCommandKeeps ==
    ASSUME RecoveryInv, NEW b \in Backups, BackupCommand(b)
    PROVE  RecoveryInv'
<1>1. PICK m \in BackupRecord : m = backup[b]
  BY BackupKnown
<1>2. PICK k : k = [m EXCEPT !.pc = "begin"]
  OBVIOUS
<1>3. m.pc = "idle" /\ backup' = [backup EXCEPT ![b] = k] /\ UNCHANGED <<bundle, World>>
  BY <1>1, <1>2 DEF BackupCommand, At, Go
<1>4. k \in BackupRecord /\ k.pc = "begin" /\ k.snapshot = m.snapshot /\ k.result = m.result
  BY <1>1, <1>2 DEF BackupRecord, BackupLabels
<1>5. IsFiniteSet(k.snapshot) /\ BackupStands(k, bundle[b])
  BY <1>1, <1>3, <1>4, BackupKnown DEF BackupStands
<1> QED BY <1>1, <1>3, <1>4, <1>5, RowFrame

LEMMA LockAndSnapshotKeeps ==
    ASSUME RecoveryInv, NEW b \in Backups, LockAndSnapshot(b)
    PROVE  RecoveryInv'
<1>1. PICK m \in BackupRecord : m = backup[b]
  BY BackupKnown
<1>2. m.pc = "begin" /\ UNCHANGED <<bundle, World>> /\ m.result = "none" /\ bundle[b] = NoBundle
  BY <1>1, BackupKnown DEF LockAndSnapshot, At, BackupStands
<1>3. CASE NobodyWrites
  <2>1. PICK k : k = [m EXCEPT !.pc = "staging", !.locks = TRUE, !.snapshot = ReferencedObjects]
    OBVIOUS
  <2>2. backup' = [backup EXCEPT ![b] = k]
    BY <1>1, <1>3, <2>1 DEF LockAndSnapshot
  <2>3. k.pc = "staging" /\ k.snapshot = committed /\ k.result = "none" /\ k \in BackupRecord
    BY <1>1, <1>2, <2>1 DEF BackupRecord, BackupLabels, ReferencedObjects, RecoveryInv, Types
  <2>4. IsFiniteSet(k.snapshot) /\ BackupStands(k, bundle[b])
    BY <1>2, <2>3 DEF BackupStands, RecoveryInv, Types
  <2> QED BY <1>1, <1>2, <2>2, <2>3, <2>4, RowFrame
<1>4. CASE ~NobodyWrites
  <2>1. PICK k : k = [m EXCEPT !.pc = "ended", !.result = "busy"]
    OBVIOUS
  <2>2. backup' = [backup EXCEPT ![b] = k]
    BY <1>1, <1>4, <2>1 DEF LockAndSnapshot
  <2>3. k.pc = "ended" /\ k.snapshot = m.snapshot /\ k.result = "busy" /\ k \in BackupRecord
    BY <1>1, <2>1 DEF BackupRecord, BackupLabels, BackupResults
  <2>4. IsFiniteSet(k.snapshot) /\ BackupStands(k, bundle[b])
    BY <1>1, <1>2, <2>3, BackupKnown DEF BackupStands
  <2> QED BY <1>1, <1>2, <2>2, <2>3, <2>4, RowFrame
<1> QED BY <1>3, <1>4

LEMMA CreateStagingKeeps ==
    ASSUME RecoveryInv, NEW b \in Backups, CreateStaging(b)
    PROVE  RecoveryInv'
<1>1. PICK m \in BackupRecord : m = backup[b]
  BY BackupKnown
<1>2. PICK k : k = [m EXCEPT !.pc = "dump"]
  OBVIOUS
<1>3. m.pc = "staging" /\ backup' = [backup EXCEPT ![b] = k] /\ UNCHANGED <<bundle, World>>
  BY <1>1, <1>2 DEF CreateStaging, At, Go
<1>4. k \in BackupRecord /\ k.pc = "dump" /\ k.snapshot = m.snapshot /\ k.result = m.result
  BY <1>1, <1>2 DEF BackupRecord, BackupLabels
<1>5. IsFiniteSet(k.snapshot) /\ BackupStands(k, bundle[b])
  BY <1>1, <1>3, <1>4, BackupKnown DEF BackupStands
<1> QED BY <1>1, <1>3, <1>4, <1>5, RowFrame

\* A failed command leaves nothing.
LEMMA AbandonedKeeps ==
    ASSUME RecoveryInv, NEW b \in Backups, Abandoned(b), UNCHANGED World
    PROVE  RecoveryInv'
<1>1. PICK k : k = [NoBackup EXCEPT !.pc = "ended", !.result = "failed"]
  OBVIOUS
<1>2. backup' = [backup EXCEPT ![b] = k] /\ bundle' = [bundle EXCEPT ![b] = NoBundle]
  BY <1>1 DEF Abandoned
<1>3. k \in BackupRecord /\ k.pc = "ended" /\ k.result = "failed" /\ k.snapshot = {}
  BY <1>1 DEF NoBackup, BackupRecord, BackupLabels, BackupResults
<1>4. IsFiniteSet(k.snapshot) /\ BackupStands(k, NoBundle)
  BY <1>3, FS_EmptySet DEF BackupStands
<1>5. DirectoryTrue(NoBundle)
  BY DEF DirectoryTrue, NoBundle
<1>6. Leaves(backup[b], bundle[b], k, NoBundle)
  BY <1>3 DEF Leaves
<1>7. NoBundle \in BundleRecord
  BY EmptyRecords
<1> QED BY <1>2, <1>3, <1>4, <1>5, <1>6, <1>7, BackupFrame

LEMMA CreateDumpKeeps ==
    ASSUME RecoveryInv, NEW b \in Backups, CreateDump(b)
    PROVE  RecoveryInv'
<1>1. PICK m \in BackupRecord : m = backup[b]
  BY BackupKnown
<1>2. m.pc = "dump" /\ UNCHANGED World /\ m.result = "none" /\ bundle[b] = NoBundle
  BY <1>1, BackupKnown DEF CreateDump, At, BackupStands
<1>3. CASE backup[b].locks
  <2>1. PICK k : k = [m EXCEPT !.pc = "copy"]
    OBVIOUS
  <2>2. PICK d : d = [NoBundle EXCEPT !.dump = m.snapshot, !.staged = {"dump"}]
    OBVIOUS
  <2>3. backup' = [backup EXCEPT ![b] = k]
    BY <1>1, <1>3, <2>1 DEF CreateDump, Go
  <2>4. bundle' = [bundle EXCEPT ![b] = d]
    BY <1>1, <1>2, <1>3, <2>2 DEF CreateDump, DumpContent, NoBundle
  <2>5. k \in BackupRecord /\ k.pc = "copy" /\ k.snapshot = m.snapshot /\ k.result = "none"
    BY <1>1, <1>2, <2>1 DEF BackupRecord, BackupLabels
  <2>6. /\ d.dump = m.snapshot /\ d.staged = {"dump"} /\ d.final = {} /\ ~d.claimed
        /\ d.manifest = {} /\ d.objects = {}
    BY <2>2 DEF NoBundle
  <2>7. d \in BundleRecord
    BY <1>1, <2>2 DEF NoBundle, BundleRecord, BackupRecord, Files
  <2>8. BackupStands(k, d) /\ DirectoryTrue(d)
    BY <2>5, <2>6 DEF BackupStands, DirectoryTrue, Copied
  <2>9. Leaves(backup[b], bundle[b], k, d) /\ IsFiniteSet(k.snapshot)
    BY <1>1, <1>2, <2>5, BackupKnown DEF Leaves
  <2> QED BY <1>2, <2>3, <2>4, <2>5, <2>7, <2>8, <2>9, BackupFrame
<1>4. CASE ~backup[b].locks
  <2>1. Abandoned(b)
    BY <1>4 DEF CreateDump
  <2> QED BY <1>2, <2>1, AbandonedKeeps
<1> QED BY <1>3, <1>4

LEMMA CopyObjectKeeps ==
    ASSUME RecoveryInv, NEW b \in Backups, NEW c \in Contents, CopyObject(b, c)
    PROVE  RecoveryInv'
<1>1. PICK m \in BackupRecord : m = backup[b]
  BY BackupKnown
<1>2. PICK n \in BundleRecord : n = bundle[b]
  BY BackupKnown
<1>3. m.pc = "copy" /\ UNCHANGED World /\ c \in m.snapshot \ n.objects /\ m.result = "none"
  BY <1>1, <1>2, BackupKnown DEF CopyObject, At, BackupStands
<1>4. Copied(n, m.snapshot)
  BY <1>1, <1>2, <1>3, BackupKnown DEF BackupStands
<1>5. CASE CopyVerified(c)
  <2>1. PICK d : d = [n EXCEPT !.objects = n.objects \cup {c}, !.staged = n.staged \cup {"objects"}]
    OBVIOUS
  <2>2. bundle' = [bundle EXCEPT ![b] = d] /\ backup' = backup
    BY <1>2, <1>5, <2>1 DEF CopyObject
  <2>3. backup' = [backup EXCEPT ![b] = m]
    BY <1>1, <2>2, BackupKnown
  <2>4. d \in BundleRecord
    BY <2>1 DEF BundleRecord, Files
  <2>5. /\ d.objects = n.objects \cup {c} /\ d.staged = n.staged \cup {"objects"} /\ d.final = n.final
        /\ d.claimed = n.claimed /\ d.manifest = n.manifest /\ d.dump = n.dump
    BY <2>1 DEF BundleRecord
  <2>6. Copied(d, m.snapshot)
    BY <1>3, <1>4, <2>5 DEF Copied
  <2>7. BackupStands(m, d) /\ DirectoryTrue(d)
    BY <1>3, <2>6 DEF BackupStands, DirectoryTrue, Copied
  <2>8. Leaves(backup[b], bundle[b], m, d) /\ IsFiniteSet(m.snapshot)
    BY <1>1, <1>3, BackupKnown DEF Leaves
  <2> QED BY <1>3, <2>2, <2>3, <2>4, <2>7, <2>8, BackupFrame
<1>6. CASE ~CopyVerified(c)
  <2>1. Abandoned(b)
    BY <1>6 DEF CopyObject
  <2> QED BY <1>3, <2>1, AbandonedKeeps
<1> QED BY <1>5, <1>6

LEMMA ObservePendingKeeps ==
    ASSUME RecoveryInv, NEW b \in Backups, ObservePending(b)
    PROVE  RecoveryInv'
<1>1. PICK m \in BackupRecord : m = backup[b]
  BY BackupKnown
<1>2. m.pc = "copy" /\ UNCHANGED World /\ m.snapshot \subseteq bundle[b].objects /\ m.result = "none"
  BY <1>1, BackupKnown DEF ObservePending, At, BackupStands
<1>3. Copied(bundle[b], m.snapshot)
  BY <1>1, <1>2, BackupKnown DEF BackupStands
<1>4. CASE \E w \in Writers : writer[w] = "waiting"
  <2>1. Abandoned(b)
    BY <1>4 DEF ObservePending
  <2> QED BY <1>2, <2>1, AbandonedKeeps
<1>5. CASE ~\E w \in Writers : writer[w] = "waiting"
  <2>1. PICK k : k = [m EXCEPT !.pc = "manifest"]
    OBVIOUS
  <2>2. backup' = [backup EXCEPT ![b] = k] /\ UNCHANGED <<bundle, World>>
    BY <1>1, <1>2, <1>5, <2>1 DEF ObservePending, Go
  <2>3. k \in BackupRecord /\ k.pc = "manifest" /\ k.snapshot = m.snapshot /\ k.result = "none"
    BY <1>1, <1>2, <2>1 DEF BackupRecord, BackupLabels
  <2>4. bundle[b].objects = m.snapshot
    BY <1>2, <1>3 DEF Copied
  <2>5. BackupStands(k, bundle[b]) /\ IsFiniteSet(k.snapshot)
    BY <1>1, <1>3, <2>3, <2>4, BackupKnown DEF BackupStands
  <2> QED BY <1>1, <1>2, <2>2, <2>3, <2>5, RowFrame
<1> QED BY <1>4, <1>5

LEMMA WriteManifestKeeps ==
    ASSUME RecoveryInv, NEW b \in Backups, WriteManifest(b)
    PROVE  RecoveryInv'
<1>1. PICK m \in BackupRecord : m = backup[b]
  BY BackupKnown
<1>2. PICK n \in BundleRecord : n = bundle[b]
  BY BackupKnown
<1>3. m.pc = "manifest" /\ UNCHANGED World /\ m.result = "none"
  BY <1>1, BackupKnown DEF WriteManifest, At, BackupStands
<1>4. Copied(n, m.snapshot) /\ n.objects = m.snapshot
  BY <1>1, <1>2, <1>3, BackupKnown DEF BackupStands
<1>5. IsFiniteSet(m.snapshot)
  BY <1>1, BackupKnown
<1>6. PICK i \in Nat : i = Cardinality(m.snapshot)
  BY <1>5, FS_CardinalityType
<1>7. PICK k : k = [m EXCEPT !.pc = "claim"]
  OBVIOUS
<1>8. PICK d : d = [n EXCEPT !.manifest = n.objects, !.counts = i,
                             !.staged = n.staged \cup {"manifest", "sidecar"}]
  OBVIOUS
<1>9. backup' = [backup EXCEPT ![b] = k] /\ bundle' = [bundle EXCEPT ![b] = d]
  BY <1>1, <1>2, <1>6, <1>7, <1>8 DEF WriteManifest, Go
<1>10. k \in BackupRecord /\ k.pc = "claim" /\ k.snapshot = m.snapshot /\ k.result = "none"
  BY <1>3, <1>7 DEF BackupRecord, BackupLabels
<1>11. d \in BundleRecord
  BY <1>8 DEF BundleRecord, Files
<1>12. /\ d.objects = n.objects /\ d.staged = n.staged \cup {"manifest", "sidecar"}
       /\ d.final = n.final /\ d.claimed = n.claimed /\ d.manifest = n.objects /\ d.dump = n.dump
  BY <1>8 DEF BundleRecord
<1>13. Whole(d) /\ ~d.claimed /\ d.final = {}
  BY <1>4, <1>12 DEF Whole, Copied, Registered
<1>14. BackupStands(k, d) /\ DirectoryTrue(d)
  BY <1>10, <1>13 DEF BackupStands, DirectoryTrue
<1>15. Leaves(backup[b], bundle[b], k, d)
  BY <1>1, <1>3 DEF Leaves
<1> QED BY <1>3, <1>5, <1>9, <1>10, <1>11, <1>14, <1>15, BackupFrame

LEMMA ClaimFinalKeeps ==
    ASSUME RecoveryInv, NEW b \in Backups, ClaimFinal(b)
    PROVE  RecoveryInv'
<1>1. PICK m \in BackupRecord : m = backup[b]
  BY BackupKnown
<1>2. PICK n \in BundleRecord : n = bundle[b]
  BY BackupKnown
<1>3. m.pc = "claim" /\ UNCHANGED World /\ m.result = "none"
  BY <1>1, BackupKnown DEF ClaimFinal, At, BackupStands
<1>4. Whole(n) /\ n.staged \cap n.final = {}
  BY <1>1, <1>2, <1>3, BackupKnown DEF BackupStands, DirectoryTrue
<1>5. PICK k : k = [m EXCEPT !.pc = "move"]
  OBVIOUS
<1>6. PICK d : d = [n EXCEPT !.claimed = TRUE]
  OBVIOUS
<1>7. backup' = [backup EXCEPT ![b] = k] /\ bundle' = [bundle EXCEPT ![b] = d]
  BY <1>1, <1>2, <1>5, <1>6 DEF ClaimFinal, Go
<1>8. k \in BackupRecord /\ k.pc = "move" /\ k.snapshot = m.snapshot /\ k.result = "none"
  BY <1>3, <1>5 DEF BackupRecord, BackupLabels
<1>9. d \in BundleRecord
  BY <1>6 DEF BundleRecord
<1>10. /\ d.objects = n.objects /\ d.staged = n.staged /\ d.final = n.final /\ d.claimed
       /\ d.manifest = n.manifest /\ d.dump = n.dump
  BY <1>6 DEF BundleRecord
<1>11. Whole(d)
  BY <1>4, <1>10 DEF Whole, Registered
<1>12. BackupStands(k, d) /\ DirectoryTrue(d)
  BY <1>4, <1>8, <1>10, <1>11 DEF BackupStands, DirectoryTrue
<1>13. Leaves(backup[b], bundle[b], k, d) /\ IsFiniteSet(k.snapshot)
  BY <1>1, <1>3, <1>8, BackupKnown DEF Leaves
<1> QED BY <1>3, <1>7, <1>8, <1>9, <1>12, <1>13, BackupFrame

\* The move takes a file from one directory to the other.
LEMMA MoveEntryKeeps ==
    ASSUME RecoveryInv, NEW b \in Backups, MoveEntry(b)
    PROVE  RecoveryInv'
<1>1. PICK m \in BackupRecord : m = backup[b]
  BY BackupKnown
<1>2. PICK n \in BundleRecord : n = bundle[b]
  BY BackupKnown
<1>3. m.pc = "move" /\ UNCHANGED <<backup, World>> /\ n.staged # {} /\ m.result = "none"
  BY <1>1, <1>2, BackupKnown DEF MoveEntry, At, BackupStands
<1>4. Whole(n) /\ n.staged \cap n.final = {} /\ n.claimed
  BY <1>1, <1>2, <1>3, BackupKnown DEF BackupStands, DirectoryTrue
<1>5. n.staged \in SUBSET Files
  BY <1>2 DEF BundleRecord
<1>6. PICK e \in n.staged : e = NextEntry(b)
  BY <1>2, <1>3, <1>5, NextEntryIsStaged
<1>7. PICK d : d = [n EXCEPT !.staged = n.staged \ {e}, !.final = n.final \cup {e}]
  OBVIOUS
<1>8. bundle' = [bundle EXCEPT ![b] = d]
  BY <1>2, <1>6, <1>7 DEF MoveEntry
<1>9. backup' = [backup EXCEPT ![b] = m]
  BY <1>1, <1>3, BackupKnown
<1>10. d \in BundleRecord
  BY <1>5, <1>6, <1>7 DEF BundleRecord
<1>11. /\ d.objects = n.objects /\ d.staged = n.staged \ {e} /\ d.final = n.final \cup {e} /\ d.claimed
       /\ d.manifest = n.manifest /\ d.dump = n.dump
  BY <1>4, <1>7 DEF BundleRecord
<1>12. d.staged \cup d.final = n.staged \cup n.final /\ d.staged \cap d.final = {}
  BY <1>4, <1>6, <1>11
<1>13. Whole(d)
  BY <1>4, <1>11, <1>12 DEF Whole, Registered
<1>14. BackupStands(m, d) /\ DirectoryTrue(d)
  BY <1>3, <1>11, <1>12, <1>13 DEF BackupStands, DirectoryTrue
<1>15. bundle[b] # NoBundle /\ bundle[b].staged # {}
  BY <1>2, <1>3, <1>4 DEF NoBundle
<1>16. Leaves(backup[b], bundle[b], m, d) /\ IsFiniteSet(m.snapshot)
  BY <1>1, <1>2, <1>3, <1>4, <1>11, <1>15, BackupKnown DEF Leaves
<1> QED BY <1>3, <1>8, <1>9, <1>10, <1>14, <1>16, BackupFrame

LEMMA FinishBackupKeeps ==
    ASSUME RecoveryInv, NEW b \in Backups, FinishBackup(b)
    PROVE  RecoveryInv'
<1>1. backup[b].pc = "move" /\ UNCHANGED <<bundle, World>> /\ bundle[b].staged = {} /\ bundle[b].claimed
  BY BackupKnown DEF FinishBackup, At, BackupStands
<1>2. PICK a \in {"created", "unknown"} : a = IF backup[b].locks THEN "created" ELSE "unknown"
  OBVIOUS
<1>3. PICK k : k = [NoBackup EXCEPT !.pc = "ended", !.result = a]
  OBVIOUS
<1>4. backup' = [backup EXCEPT ![b] = k]
  BY <1>2, <1>3 DEF FinishBackup
<1>5. k \in BackupRecord /\ k.pc = "ended" /\ k.snapshot = {} /\ k.result = a
  BY <1>3 DEF NoBackup, BackupRecord, BackupLabels, BackupResults
<1>6. BackupStands(k, bundle[b]) /\ IsFiniteSet(k.snapshot)
  BY <1>1, <1>2, <1>5, FS_EmptySet DEF BackupStands
<1> QED BY <1>1, <1>4, <1>5, <1>6, RowFrame

LEMMA BackupStepKeeps ==
    ASSUME RecoveryInv, NEW b \in Backups, BackupStep(b)
    PROVE  RecoveryInv'
BY BackupCommandKeeps, LockAndSnapshotKeeps, CreateStagingKeeps, CreateDumpKeeps, ObservePendingKeeps,
   CopyObjectKeeps, WriteManifestKeeps, ClaimFinalKeeps, MoveEntryKeeps, FinishBackupKeeps DEF BackupStep

\* The process dies wherever it is: the directories stay, and what stays is claimed only
\* if it is whole.
LEMMA BackupDiesKeeps ==
    ASSUME RecoveryInv, NEW b \in Backups, BackupDies(b)
    PROVE  RecoveryInv'
<1>1. UNCHANGED <<bundle, World>>
  BY DEF BackupDies
<1>2. PICK k : k = [NoBackup EXCEPT !.pc = "ended", !.result = "died"]
  OBVIOUS
<1>3. backup' = [backup EXCEPT ![b] = k]
  BY <1>2 DEF BackupDies
<1>4. k \in BackupRecord /\ k.pc = "ended" /\ k.snapshot = {} /\ k.result = "died"
  BY <1>2 DEF NoBackup, BackupRecord, BackupLabels, BackupResults
<1>5. BackupStands(k, bundle[b]) /\ IsFiniteSet(k.snapshot)
  BY <1>4, FS_EmptySet DEF BackupStands
<1> QED BY <1>1, <1>3, <1>4, <1>5, RowFrame

LEMMA SessionEndsKeeps ==
    ASSUME RecoveryInv, NEW b \in Backups, SessionEnds(b)
    PROVE  RecoveryInv'
<1>1. PICK m \in BackupRecord : m = backup[b]
  BY BackupKnown
<1>2. PICK k : k = [m EXCEPT !.locks = FALSE]
  OBVIOUS
<1>3. backup' = [backup EXCEPT ![b] = k] /\ UNCHANGED <<bundle, World>>
  BY <1>1, <1>2 DEF SessionEnds
<1>4. k \in BackupRecord /\ k.pc = m.pc /\ k.snapshot = m.snapshot /\ k.result = m.result
  BY <1>2 DEF BackupRecord
<1>5. BackupStands(k, bundle[b]) /\ IsFiniteSet(k.snapshot)
  BY <1>1, <1>4, BackupKnown DEF BackupStands
<1> QED BY <1>1, <1>3, <1>4, <1>5, RowFrame

\* Damage changes bytes, not what a directory holds or a manifest says.
LEMMA BundleRotsKeeps ==
    ASSUME RecoveryInv, NEW b \in Backups, BundleRots(b)
    PROVE  RecoveryInv'
<1>1. PICK m \in BackupRecord : m = backup[b]
  BY BackupKnown
<1>2. PICK n \in BundleRecord : n = bundle[b]
  BY BackupKnown
<1>3. UNCHANGED World /\ backup' = [backup EXCEPT ![b] = m] /\ IsFiniteSet(m.snapshot)
  BY <1>1, BackupKnown DEF BundleRots, World
<1>4. ASSUME NEW d \in BundleRecord, bundle' = [bundle EXCEPT ![b] = d], n # NoBundle,
             d.staged = n.staged, d.final = n.final, d.claimed = n.claimed, d.dump = n.dump,
             d.manifest = n.manifest, d.objects = n.objects
      PROVE  RecoveryInv'
  <2>1. BackupStands(m, n) /\ DirectoryTrue(n)
    BY <1>1, <1>2, BackupKnown
  <2>2. BackupStands(m, d)
    BY <1>4, <2>1 DEF BackupStands, Copied, Whole, Registered
  <2>3. DirectoryTrue(d)
    BY <1>4, <2>1 DEF DirectoryTrue, Whole, Registered
  <2>4. Leaves(backup[b], bundle[b], m, d)
    BY <1>1, <1>2, <1>4 DEF Leaves
  <2> QED BY <1>3, <1>4, <2>2, <2>3, <2>4, BackupFrame
<1>5. CASE \E c \in bundle[b].objects \ bundle[b].rotten :
              bundle' = [bundle EXCEPT ![b].rotten = @ \cup {c}]
  <2>1. PICK c \in n.objects \ n.rotten : bundle' = [bundle EXCEPT ![b].rotten = @ \cup {c}]
    BY <1>2, <1>5
  <2>2. PICK d : d = [n EXCEPT !.rotten = n.rotten \cup {c}]
    OBVIOUS
  <2>3. bundle' = [bundle EXCEPT ![b] = d]
    BY <1>2, <2>1, <2>2
  <2>4. d \in BundleRecord
    BY <2>1, <2>2 DEF BundleRecord
  <2>5. /\ d.staged = n.staged /\ d.final = n.final /\ d.claimed = n.claimed /\ d.dump = n.dump
        /\ d.manifest = n.manifest /\ d.objects = n.objects
    BY <2>2 DEF BundleRecord
  <2>6. n # NoBundle
    BY <2>1 DEF NoBundle
  <2> QED BY <1>4, <2>3, <2>4, <2>5, <2>6
<1>6. CASE "dump" \in bundle[b].final /\ bundle' = [bundle EXCEPT ![b].dumpGood = FALSE]
  <2>1. PICK d : d = [n EXCEPT !.dumpGood = FALSE]
    OBVIOUS
  <2>2. bundle' = [bundle EXCEPT ![b] = d]
    BY <1>2, <1>6, <2>1
  <2>3. d \in BundleRecord
    BY <2>1 DEF BundleRecord
  <2>4. /\ d.staged = n.staged /\ d.final = n.final /\ d.claimed = n.claimed /\ d.dump = n.dump
        /\ d.manifest = n.manifest /\ d.objects = n.objects
    BY <2>1 DEF BundleRecord
  <2>5. n # NoBundle
    BY <1>2, <1>6 DEF NoBundle
  <2> QED BY <1>4, <2>2, <2>3, <2>4, <2>5
<1> QED BY <1>5, <1>6 DEF BundleRots

-------------------------------------------------------------------------------
(* Writers and the objects they store.                                     *)

\* A step that touches neither a backup nor a restore nor what the target holds.
LEMMA WorldFrame ==
    ASSUME RecoveryInv, UNCHANGED <<backup, bundle, restore>>,
           committed' \in SUBSET Contents, IsFiniteSet(committed'),
           writer' \in [Writers -> {"idle", "waiting", "writing", "done"}],
           target' \in TargetRecord, target'.loaded = target.loaded, target'.versions = target.versions
    PROVE  RecoveryInv'
<1>1. Types /\ BackupsTrue /\ RestoresTrue
  BY DEF RecoveryInv
<1>2. Types'
  BY <1>1 DEF Types
<1>3. BackupsTrue'
  BY <1>1 DEF BackupsTrue
<1>4. RestoresTrue'
  <2>1. ASSUME NEW r \in Restores PROVE RestoreStands(restore[r])'
    <3>1. RestoreStands(restore[r])
      BY <1>1 DEF RestoresTrue
    <3>2. restore'[r] = restore[r]
      OBVIOUS
    <3>3. Opened(restore[r], restore[r].bundle) => Opened(restore[r], restore[r].bundle)'
      BY DEF Opened
    <3> QED BY <3>1, <3>2, <3>3 DEF RestoreStands
  <2> QED BY <2>1 DEF RestoresTrue
<1> QED BY <1>2, <1>3, <1>4 DEF RecoveryInv

LEMMA WriterKeeps ==
    ASSUME RecoveryInv, NEW w \in Writers, StoreObject(w) \/ GetLock(w) \/ CommitVersion(w)
    PROVE  RecoveryInv'
<1>1. /\ committed \in SUBSET Contents /\ IsFiniteSet(committed) /\ target \in TargetRecord
      /\ writer \in [Writers -> {"idle", "waiting", "writing", "done"}]
  BY DEF RecoveryInv, Types
<1>2. UNCHANGED <<backup, bundle, restore, target>>
  BY DEF StoreObject, GetLock, CommitVersion
<1>3. committed' = committed \/ committed' = committed \cup {w}
  BY DEF StoreObject, GetLock, CommitVersion
<1>4. committed' \in SUBSET Contents /\ IsFiniteSet(committed')
  BY <1>1, <1>3, FS_AddElement DEF Contents
<1>5. writer' \in [Writers -> {"idle", "waiting", "writing", "done"}]
  BY <1>1 DEF StoreObject, GetLock, CommitVersion
<1> QED BY <1>1, <1>2, <1>4, <1>5, WorldFrame

LEMMA ObjectRotsKeeps ==
    ASSUME RecoveryInv, NEW c \in Contents, ObjectRots(c) \/ TargetObjectRots(c)
    PROVE  RecoveryInv'
<1>1. /\ committed \in SUBSET Contents /\ IsFiniteSet(committed) /\ target \in TargetRecord
      /\ writer \in [Writers -> {"idle", "waiting", "writing", "done"}]
  BY DEF RecoveryInv, Types
<1>2. UNCHANGED <<backup, bundle, restore, committed, writer>>
  BY DEF ObjectRots, TargetObjectRots
<1>3. target' \in TargetRecord /\ target'.loaded = target.loaded /\ target'.versions = target.versions
  <2>1. CASE ObjectRots(c)
    BY <1>1, <2>1 DEF ObjectRots
  <2>2. CASE TargetObjectRots(c)
    <3>1. PICK t \in TargetRecord : t = target
      BY <1>1
    <3>2. PICK f \in [Contents -> ObjectStates] : f = [t.bucket EXCEPT ![c] = "damaged"]
      BY <3>1 DEF TargetRecord, ObjectStates
    <3>3. target' = [t EXCEPT !.bucket = f]
      BY <2>2, <3>1, <3>2 DEF TargetObjectRots
    <3> QED BY <3>1, <3>3 DEF TargetRecord
  <2> QED BY <2>1, <2>2
<1> QED BY <1>1, <1>2, <1>3, WorldFrame

-------------------------------------------------------------------------------
(* Restore.                                                                *)

\* What the invariant says of one restore and of the target.
LEMMA RestoreKnown ==
    ASSUME RecoveryInv, NEW r \in Restores
    PROVE  /\ restore[r] \in RestoreRecord /\ RestoreStands(restore[r])
           /\ restore \in [Restores -> RestoreRecord] /\ target \in TargetRecord
BY DEF RecoveryInv, Types, RestoresTrue

\* A restore that ends has nothing left to rely on.
LEMMA RestoreEndsKeeps ==
    ASSUME RecoveryInv, NEW r \in Restores, NEW a \in RestoreResults, RestoreEnds(r, a),
           UNCHANGED <<bundle, target, Source>>
    PROVE  RecoveryInv'
<1>1. PICK m \in RestoreRecord : m = restore[r]
  BY RestoreKnown
<1>2. PICK k : k = [m EXCEPT !.pc = "ended", !.result = a]
  OBVIOUS
<1>3. restore' = [restore EXCEPT ![r] = k]
  BY <1>1, <1>2 DEF RestoreEnds
<1>4. k \in RestoreRecord /\ k.pc = "ended" /\ k.placed = m.placed /\ k.manifest = m.manifest
  BY <1>2 DEF RestoreRecord, RestoreLabels
<1>5. k.placed \subseteq k.manifest
  BY <1>1, <1>4, RestoreKnown DEF RestoreStands
<1>6. PICK t \in TargetRecord : t = target
  BY RestoreKnown
<1>7. target' = t /\ (target.loaded => t.loaded /\ t.versions = target.versions) /\ UNCHANGED <<bundle, Source>>
  BY <1>6
<1> QED BY <1>3, <1>4, <1>5, <1>7, RestoreFrame

\* A restore that only goes on relies on what it relied on.
LEMMA RestoreGoesOn ==
    ASSUME RecoveryInv, NEW r \in Restores, NEW k \in RestoreRecord,
           restore' = [restore EXCEPT ![r] = k], UNCHANGED <<bundle, target, Source>>,
           k.placed \subseteq k.manifest, k.pc # "verify",
           k.pc \in {"admit", "objects"} => Opened(k, k.bundle)
    PROVE  RecoveryInv'
<1>1. PICK t \in TargetRecord : t = target
  BY RestoreKnown
<1>2. target' = t /\ (target.loaded => t.loaded /\ t.versions = target.versions) /\ UNCHANGED <<bundle, Source>>
  BY <1>1
<1> QED BY <1>2, RestoreFrame

LEMMA RestoreCommandKeeps ==
    ASSUME RecoveryInv, NEW r \in Restores, RestoreCommand(r)
    PROVE  RecoveryInv'
<1>1. PICK m \in RestoreRecord : m = restore[r]
  BY RestoreKnown
<1>2. PICK op \in {"restore", "verify"} : restore' = [restore EXCEPT ![r].pc = "open", ![r].op = op]
  BY DEF RestoreCommand
<1>3. PICK k : k = [m EXCEPT !.pc = "open", !.op = op]
  OBVIOUS
<1>4. restore' = [restore EXCEPT ![r] = k] /\ UNCHANGED <<bundle, target, Source>>
  BY <1>1, <1>2, <1>3 DEF RestoreCommand
<1>5. k \in RestoreRecord /\ k.pc = "open" /\ k.placed = m.placed /\ k.manifest = m.manifest
  BY <1>3 DEF RestoreRecord, RestoreLabels
<1>6. k.placed \subseteq k.manifest
  BY <1>1, <1>5, RestoreKnown DEF RestoreStands
<1> QED BY <1>4, <1>5, <1>6, RestoreGoesOn

LEMMA VerifyBundleKeeps ==
    ASSUME RecoveryInv, NEW r \in Restores, VerifyBundle(r)
    PROVE  RecoveryInv'
<1>1. PICK b \in Backups : RestoreEnds(r, IF VerifyOffline(b) THEN "verified" ELSE "bundle_invalid")
  BY DEF VerifyBundle
<1>2. PICK a \in RestoreResults : a = IF VerifyOffline(b) THEN "verified" ELSE "bundle_invalid"
  BY DEF RestoreResults
<1>3. RestoreEnds(r, a) /\ UNCHANGED <<bundle, target, Source>>
  BY <1>1, <1>2 DEF VerifyBundle
<1> QED BY <1>3, RestoreEndsKeeps

\* A bundle that passes has been published, and nothing of it is in staging any more.
LEMMA VerifiedIsWhole ==
    ASSUME RecoveryInv, NEW b \in Backups, VerifyOffline(b)
    PROVE  /\ bundle[b].claimed /\ bundle[b].staged = {} /\ Whole(bundle[b])
           /\ bundle[b].final = Registered(bundle[b])
           /\ backup[b].pc \in {"move", "ended"}
<1>1. bundle[b].claimed /\ bundle[b].final = Registered(bundle[b])
  BY DEF VerifyOffline, TreeMatches, RegisteredFiles, Registered
<1>2. Whole(bundle[b]) /\ bundle[b].staged \cap bundle[b].final = {}
  BY <1>1, BackupKnown DEF DirectoryTrue
<1>3. bundle[b].staged = {}
  BY <1>1, <1>2 DEF Whole
<1>4. backup[b].pc \in {"move", "ended"}
  <2>1. backup[b].pc \in BackupLabels /\ BackupStands(backup[b], bundle[b])
    BY BackupKnown DEF BackupRecord
  <2>2. bundle[b] # NoBundle
    BY <1>1 DEF NoBundle
  <2> QED BY <1>1, <2>1, <2>2 DEF BackupStands, BackupLabels, Copied
<1> QED BY <1>1, <1>2, <1>3, <1>4

LEMMA OpenVerifiedKeeps ==
    ASSUME RecoveryInv, NEW r \in Restores, OpenVerified(r)
    PROVE  RecoveryInv'
<1>1. UNCHANGED <<bundle, target, Source>>
  BY DEF OpenVerified
<1>2. PICK b \in Backups :
        IF VerifyOffline(b)
          THEN restore' = [restore EXCEPT ![r] = [NoRestore EXCEPT
                              !.pc = "admit", !.bundle = b, !.manifest = bundle[b].manifest,
                              !.counts = bundle[b].counts]]
          ELSE RestoreEnds(r, "bundle_invalid")
  BY DEF OpenVerified
<1>3. CASE VerifyOffline(b)
  <2>1. PICK n \in BundleRecord : n = bundle[b]
    BY BackupKnown
  <2>2. PICK k : k = [NoRestore EXCEPT !.pc = "admit", !.bundle = b, !.manifest = n.manifest,
                                       !.counts = n.counts]
    OBVIOUS
  <2>3. restore' = [restore EXCEPT ![r] = k]
    BY <1>2, <1>3, <2>1, <2>2
  <2>4. k \in RestoreRecord
    BY <2>2 DEF NoRestore, RestoreRecord, RestoreLabels, RestoreResults, BundleRecord
  <2>5. k.pc = "admit" /\ k.bundle = b /\ k.manifest = bundle[b].manifest /\ k.placed = {}
    BY <2>1, <2>2 DEF NoRestore
  <2>6. Opened(k, b)
    BY <1>3, <2>5, VerifiedIsWhole DEF Opened
  <2> QED BY <1>1, <2>3, <2>4, <2>5, <2>6, RestoreGoesOn
<1>4. CASE ~VerifyOffline(b)
  <2>1. "bundle_invalid" \in RestoreResults
    BY DEF RestoreResults
  <2> QED BY <1>1, <1>2, <1>4, <2>1, RestoreEndsKeeps
<1> QED BY <1>3, <1>4

LEMMA AdmitTargetKeeps ==
    ASSUME RecoveryInv, NEW r \in Restores, AdmitTarget(r)
    PROVE  RecoveryInv'
<1>1. PICK m \in RestoreRecord : m = restore[r]
  BY RestoreKnown
<1>2. m.pc = "admit" /\ UNCHANGED <<bundle, target, Source>>
  BY <1>1 DEF AdmitTarget, RestoreAt
<1>3. CASE ApplicationEmpty
  <2>1. PICK k : k = [m EXCEPT !.pc = "objects"]
    OBVIOUS
  <2>2. restore' = [restore EXCEPT ![r] = k]
    BY <1>1, <1>3, <2>1 DEF AdmitTarget
  <2>3. /\ k \in RestoreRecord /\ k.pc = "objects" /\ k.placed = m.placed
        /\ k.manifest = m.manifest /\ k.bundle = m.bundle
    BY <2>1 DEF RestoreRecord, RestoreLabels
  <2>4. k.placed \subseteq k.manifest /\ Opened(k, k.bundle)
    BY <1>1, <1>2, <2>3, RestoreKnown DEF RestoreStands, Opened
  <2> QED BY <1>2, <2>2, <2>3, <2>4, RestoreGoesOn
<1>4. CASE ~ApplicationEmpty
  <2>1. "target_not_empty" \in RestoreResults
    BY DEF RestoreResults
  <2> QED BY <1>2, <1>4, <2>1, RestoreEndsKeeps DEF AdmitTarget
<1> QED BY <1>3, <1>4

LEMMA RestoreObjectKeeps ==
    ASSUME RecoveryInv, NEW r \in Restores, NEW c \in Contents, RestoreObject(r, c)
    PROVE  RecoveryInv'
<1> DEFINE readable == c \in bundle[restore[r].bundle].objects \ bundle[restore[r].bundle].rotten
           placeable == target.bucket[c] = "good" \/ (target.bucket[c] = "absent" /\ readable)
<1>1. PICK m \in RestoreRecord : m = restore[r]
  BY RestoreKnown
<1>2. m.pc = "objects" /\ c \in m.manifest /\ UNCHANGED <<bundle, Source>>
  BY <1>1 DEF RestoreObject, RestoreAt
<1>3. CASE placeable
  <2>1. PICK k : k = [m EXCEPT !.placed = m.placed \cup {c}]
    OBVIOUS
  <2>2. PICK u \in TargetRecord : u = target
    BY RestoreKnown
  <2>3. PICK f \in [Contents -> ObjectStates] : f = [u.bucket EXCEPT ![c] = "good"]
    BY <2>2 DEF TargetRecord, ObjectStates
  <2>4. PICK t : t = [u EXCEPT !.bucket = f]
    OBVIOUS
  <2>5. target' = t
    BY <1>3, <2>2, <2>3, <2>4 DEF RestoreObject
  <2>6. t \in TargetRecord /\ t.loaded = target.loaded /\ t.versions = target.versions
    BY <2>2, <2>4 DEF TargetRecord
  <2>7. restore' = [restore EXCEPT ![r] = k]
    BY <1>1, <1>3, <2>1 DEF RestoreObject
  <2>8. /\ k.pc = "objects" /\ k.placed = m.placed \cup {c} /\ k.manifest = m.manifest /\ k.bundle = m.bundle
    BY <1>2, <2>1 DEF RestoreRecord
  <2>9. k \in RestoreRecord
    BY <1>2, <2>1 DEF RestoreRecord
  <2>10. k.placed \subseteq k.manifest /\ Opened(k, k.bundle)
    BY <1>1, <1>2, <2>8, RestoreKnown DEF RestoreStands, Opened
  <2> QED BY <1>2, <2>5, <2>6, <2>7, <2>8, <2>9, <2>10, RestoreFrame
<1>4. CASE ~placeable
  <2>1. "integrity_failed" \in RestoreResults
    BY DEF RestoreResults
  <2>2. RestoreEnds(r, "integrity_failed") /\ UNCHANGED target
    BY <1>4 DEF RestoreObject
  <2> QED BY <1>2, <2>1, <2>2, RestoreEndsKeeps
<1> QED BY <1>3, <1>4

\* The dump that is loaded is the one the manifest in memory belongs to: a bundle that is
\* gone has none.
LEMMA RestoreDumpKeeps ==
    ASSUME RecoveryInv, NEW r \in Restores, RestoreDump(r)
    PROVE  RecoveryInv'
<1>1. PICK m \in RestoreRecord : m = restore[r]
  BY RestoreKnown
<1>2. m.pc = "objects" /\ UNCHANGED <<bundle, Source>>
  BY <1>1 DEF RestoreDump, RestoreAt
<1>3. Opened(m, m.bundle) /\ m.placed \subseteq m.manifest
  BY <1>1, <1>2, RestoreKnown DEF RestoreStands
<1>4. PICK b \in Backups : b = m.bundle
  BY <1>3 DEF Opened
<1>5. CASE ApplicationEmpty /\ "dump" \in bundle[b].final /\ bundle[b].dumpGood
  <2>1. PICK n \in BundleRecord : n = bundle[b]
    BY BackupKnown
  <2>2. PICK k : k = [m EXCEPT !.pc = "verify"]
    OBVIOUS
  <2>3. PICK u \in TargetRecord : u = target
    BY RestoreKnown
  <2>4. PICK t : t = [u EXCEPT !.loaded = TRUE, !.versions = n.dump]
    OBVIOUS
  <2>5. target' = t /\ restore' = [restore EXCEPT ![r] = k]
    BY <1>1, <1>4, <1>5, <2>1, <2>2, <2>3, <2>4 DEF RestoreDump
  <2>6. t \in TargetRecord /\ t.loaded /\ t.versions = n.dump
    BY <2>1, <2>3, <2>4 DEF TargetRecord, BundleRecord
  <2>7. k \in RestoreRecord /\ k.pc = "verify" /\ k.placed = m.placed /\ k.manifest = m.manifest /\ k.bundle = b
    BY <1>4, <2>2 DEF RestoreRecord, RestoreLabels
  <2>8. n # NoBundle
    BY <1>5, <2>1 DEF NoBundle
  <2>9. n.claimed /\ n.manifest = m.manifest
    BY <1>3, <1>4, <2>1, <2>8 DEF Opened
  <2>10. n.dump = m.manifest
    BY <2>1, <2>9, BackupKnown DEF DirectoryTrue, Whole
  <2>11. ~target.loaded
    BY <1>5 DEF ApplicationEmpty
  <2>12. Opened(k, k.bundle) /\ k.placed \subseteq k.manifest
    BY <1>3, <1>4, <2>7 DEF Opened
  <2> QED BY <1>2, <2>5, <2>6, <2>7, <2>10, <2>11, <2>12, RestoreFrame
<1>6. CASE ~(ApplicationEmpty /\ "dump" \in bundle[b].final /\ bundle[b].dumpGood)
  <2>1. "restore_failed" \in RestoreResults
    BY DEF RestoreResults
  <2>2. RestoreEnds(r, "restore_failed") /\ UNCHANGED target
    BY <1>1, <1>4, <1>6 DEF RestoreDump
  <2> QED BY <1>2, <2>1, <2>2, RestoreEndsKeeps
<1> QED BY <1>5, <1>6

LEMMA VerifyGraphKeeps ==
    ASSUME RecoveryInv, NEW r \in Restores, VerifyGraph(r)
    PROVE  RecoveryInv'
<1>1. UNCHANGED <<bundle, target, Source>>
  BY DEF VerifyGraph
<1>2. "restored" \in RestoreResults /\ "restore_failed" \in RestoreResults
  BY DEF RestoreResults
<1>3. RestoreEnds(r, "restored") \/ RestoreEnds(r, "restore_failed")
  BY DEF VerifyGraph
<1> QED BY <1>1, <1>2, <1>3, RestoreEndsKeeps

LEMMA RestoreStopsKeeps ==
    ASSUME RecoveryInv, NEW r \in Restores, RestoreStops(r)
    PROVE  RecoveryInv'
<1>1. "stopped" \in RestoreResults
  BY DEF RestoreResults
<1>2. RestoreEnds(r, "stopped") /\ UNCHANGED <<bundle, target, Source>>
  BY DEF RestoreStops
<1> QED BY <1>1, <1>2, RestoreEndsKeeps

-------------------------------------------------------------------------------
(* The inductive invariant.                                                *)

LEMMA InitTrue == Init => RecoveryInv
<1> SUFFICES ASSUME Init PROVE RecoveryInv
  OBVIOUS
<1>1. Types
  <2>1. committed \in SUBSET Contents /\ IsFiniteSet(committed)
    BY FS_EmptySet DEF Init
  <2>2. writer \in [Writers -> {"idle", "waiting", "writing", "done"}]
    BY DEF Init
  <2>3. /\ backup \in [Backups -> BackupRecord]
        /\ \A b \in Backups : IsFiniteSet(backup[b].snapshot)
        /\ bundle \in [Backups -> BundleRecord] /\ restore \in [Restores -> RestoreRecord]
    BY EmptyRecords DEF Init
  <2>4. target \in TargetRecord
    BY DEF Init, TargetRecord, ObjectStates
  <2> QED BY <2>1, <2>2, <2>3, <2>4 DEF Types
<1>2. BackupsTrue
  <2>1. ASSUME NEW b \in Backups PROVE BackupStands(backup[b], bundle[b]) /\ DirectoryTrue(bundle[b])
    <3>1. backup[b] = NoBackup /\ bundle[b] = NoBundle
      BY DEF Init
    <3>2. BackupStands(NoBackup, NoBundle)
      BY DEF BackupStands, NoBackup
    <3>3. DirectoryTrue(NoBundle)
      BY DEF DirectoryTrue, NoBundle
    <3> QED BY <3>1, <3>2, <3>3
  <2> QED BY <2>1 DEF BackupsTrue
<1>3. RestoresTrue
  BY DEF Init, RestoresTrue, RestoreStands, NoRestore
<1> QED BY <1>1, <1>2, <1>3 DEF RecoveryInv

LEMMA StepKeeps == RecoveryInv /\ [Next]_vars => RecoveryInv'
<1> SUFFICES ASSUME RecoveryInv, [Next]_vars PROVE RecoveryInv'
  OBVIOUS
<1>1. CASE \E w \in Writers : StoreObject(w) \/ GetLock(w) \/ CommitVersion(w)
  BY <1>1, WriterKeeps
<1>2. CASE \E b \in Backups : BackupStep(b) \/ BackupFails(b) \/ BackupDies(b) \/ SessionEnds(b)
  <2>1. PICK b \in Backups : BackupStep(b) \/ BackupFails(b) \/ BackupDies(b) \/ SessionEnds(b)
    BY <1>2
  <2>2. BackupFails(b) => Abandoned(b) /\ UNCHANGED World
    BY DEF BackupFails
  <2> QED BY <2>1, <2>2, BackupStepKeeps, AbandonedKeeps, BackupDiesKeeps, SessionEndsKeeps
<1>3. CASE \E r \in Restores : RestoreStep(r) \/ RestoreStops(r)
  BY <1>3, RestoreCommandKeeps, VerifyBundleKeeps, OpenVerifiedKeeps, AdmitTargetKeeps, RestoreObjectKeeps,
     RestoreDumpKeeps, VerifyGraphKeeps, RestoreStopsKeeps DEF RestoreStep
<1>4. CASE \E c \in Contents : ObjectRots(c) \/ TargetObjectRots(c)
  BY <1>4, ObjectRotsKeeps
<1>5. CASE \E b \in Backups : BundleRots(b)
  BY <1>5, BundleRotsKeeps
<1>6. CASE UNCHANGED vars
  <2>1. /\ committed \in SUBSET Contents /\ IsFiniteSet(committed) /\ target \in TargetRecord
        /\ writer \in [Writers -> {"idle", "waiting", "writing", "done"}]
    BY DEF RecoveryInv, Types
  <2>2. UNCHANGED <<backup, bundle, restore, committed, writer, target>>
    BY <1>6 DEF vars
  <2> QED BY <2>1, <2>2, WorldFrame
<1> QED BY <1>1, <1>2, <1>3, <1>4, <1>5, <1>6 DEF Next, Quiet

\* Where a backup stands its directories say, a name is claimed only for a whole bundle,
\* and a restore relies on nothing the backup of its bundle may still take away unseen.
THEOREM RecoveryInvHolds == Spec => []RecoveryInv
BY InitTrue, StepKeeps, PTL DEF Spec

-------------------------------------------------------------------------------
(* Safety.                                                                 *)

LEMMA InvariantIsSafe == RecoveryInv => RecoverySafe
<1> SUFFICES ASSUME RecoveryInv PROVE RecoverySafe
  OBVIOUS
<1>1. TypeOK
  <2>1. ASSUME NEW b \in Backups
        PROVE  /\ backup[b].pc \in {"idle", "staging", "dump", "copy", "manifest", "claim", "move",
                                    "ended", "begin"}
               /\ bundle[b].final # {} => bundle[b].claimed
               /\ bundle[b].staged \cap bundle[b].final = {}
    BY BackupKnown DEF BackupRecord, BackupLabels, DirectoryTrue
  <2>2. \A r \in Restores : restore[r].placed \subseteq restore[r].manifest
    BY RestoreKnown DEF RestoreStands
  <2> QED BY <2>1, <2>2 DEF TypeOK, RecoveryInv, Types
<1>2. BundleRestorable
  <2>1. SUFFICES ASSUME NEW b \in Backups, VerifyOffline(b)
                 PROVE  /\ "dump" \in bundle[b].final
                        /\ \A c \in bundle[b].dump : "objects" \in bundle[b].final /\ c \in bundle[b].objects
    BY DEF BundleRestorable
  <2> QED BY <2>1, VerifiedIsWhole DEF Whole, Registered
<1>3. CreatedIsComplete
  <2>1. SUFFICES ASSUME NEW b \in Backups, ExitCode(backup[b].result) = "ok"
                 PROVE  bundle[b].final = RegisteredFiles(b) /\ bundle[b].staged = {}
    BY DEF CreatedIsComplete
  <2>2. backup[b].result \in BackupResults
    BY BackupKnown DEF BackupRecord
  <2>3. backup[b].result = "created"
    <3>1. PICK a \in BackupResults : a = backup[b].result
      BY <2>2
    <3>2. ExitCode(a) = "ok"
      BY <2>1, <3>1
    <3>3. CASE a = "busy"
      BY <3>2, <3>3 DEF ExitCode
    <3>4. CASE a \in {"none", "unknown", "failed", "died"}
      BY <3>2, <3>4 DEF ExitCode
    <3> QED BY <3>1, <3>3, <3>4 DEF BackupResults
  <2>4. bundle[b].claimed /\ bundle[b].staged = {}
    BY <2>3, BackupKnown DEF BackupStands
  <2>5. Whole(bundle[b])
    BY <2>4, BackupKnown DEF DirectoryTrue
  <2> QED BY <2>4, <2>5 DEF Whole, Registered, RegisteredFiles
<1> QED BY <1>1, <1>2, <1>3 DEF RecoverySafe

\* Whatever is published, damaged or interrupted while a backup runs, a bundle that passes
\* offline verification holds the bytes of every version its dump names, and a backup that
\* reports success left all the files its manifest registers.
THEOREM RecoveryIsSafe == Spec => []RecoverySafe
BY RecoveryInvHolds, InvariantIsSafe, PTL

-------------------------------------------------------------------------------
(* Steps.                                                                  *)

\* What a restore reports, and what a published bundle keeps.
RestoredTruly(r) ==
    (restore'[r].result = "restored" /\ restore[r].result # "restored") =>
       /\ target'.versions = restore[r].manifest
       /\ bundle[restore[r].bundle].claimed => target'.versions = bundle[restore[r].bundle].dump
       /\ \A c \in target'.versions : target'.bucket[c] = "good"
PublishedStays(b) == (VerifyOffline(b) /\ ~Running(b)) => bundle'[b].final = bundle[b].final

\* Only the last check of a restore lets it report success.
LEMMA OthersReportNothing ==
    ASSUME RecoveryInv, NEW r \in Restores, NEW q \in Restores,
           RestoreCommand(q) \/ VerifyBundle(q) \/ OpenVerified(q) \/ AdmitTarget(q) \/ RestoreDump(q)
             \/ (\E c \in Contents : RestoreObject(q, c)) \/ RestoreStops(q)
    PROVE  restore'[r].result = restore[r].result \/ restore'[r].result # "restored"
<1>1. restore \in [Restores -> RestoreRecord]
  BY RestoreKnown
<1>2. PICK m \in RestoreRecord : m = restore[q]
  BY RestoreKnown
<1>3. ASSUME NEW a, RestoreEnds(q, a), a # "restored"
      PROVE  restore'[r].result = restore[r].result \/ restore'[r].result # "restored"
  <2>1. restore' = [restore EXCEPT ![q] = [m EXCEPT !.pc = "ended", !.result = a]]
    BY <1>2, <1>3 DEF RestoreEnds
  <2>2. [m EXCEPT !.pc = "ended", !.result = a].result = a
    BY <1>2 DEF RestoreRecord
  <2> QED BY <1>1, <1>3, <2>1, <2>2
<1>4. ASSUME NEW k, restore' = [restore EXCEPT ![q] = k], k.result = restore[q].result \/ k.result # "restored"
      PROVE  restore'[r].result = restore[r].result \/ restore'[r].result # "restored"
  BY <1>1, <1>4
<1>5. CASE RestoreCommand(q)
  <2>1. PICK op : restore' = [restore EXCEPT ![q].pc = "open", ![q].op = op]
    BY <1>5 DEF RestoreCommand
  <2>2. PICK k : k = [m EXCEPT !.pc = "open", !.op = op]
    OBVIOUS
  <2>3. restore' = [restore EXCEPT ![q] = k]
    BY <1>2, <2>1, <2>2
  <2>4. k.result = m.result
    BY <2>2 DEF RestoreRecord
  <2> QED BY <1>2, <1>4, <2>3, <2>4
<1>6. CASE VerifyBundle(q)
  BY <1>3, <1>6 DEF VerifyBundle
<1>7. CASE OpenVerified(q)
  <2>1. PICK b \in Backups :
          \/ restore' = [restore EXCEPT ![q] = [NoRestore EXCEPT
                            !.pc = "admit", !.bundle = b, !.manifest = bundle[b].manifest,
                            !.counts = bundle[b].counts]]
          \/ RestoreEnds(q, "bundle_invalid")
    BY <1>7 DEF OpenVerified
  <2>2. CASE RestoreEnds(q, "bundle_invalid")
    BY <1>3, <2>2
  <2>3. CASE ~RestoreEnds(q, "bundle_invalid")
    <3>1. PICK k : k = [NoRestore EXCEPT !.pc = "admit", !.bundle = b, !.manifest = bundle[b].manifest,
                                         !.counts = bundle[b].counts]
      OBVIOUS
    <3>2. k.result = "none"
      BY <3>1 DEF NoRestore
    <3> QED BY <1>4, <2>1, <2>3, <3>1, <3>2
  <2> QED BY <2>2, <2>3
<1>8. CASE AdmitTarget(q)
  <2>1. CASE ApplicationEmpty
    <3>1. PICK k : k = [m EXCEPT !.pc = "objects"]
      OBVIOUS
    <3>2. restore' = [restore EXCEPT ![q] = k]
      BY <1>2, <1>8, <2>1, <3>1 DEF AdmitTarget
    <3>3. k.result = m.result
      BY <3>1 DEF RestoreRecord
    <3> QED BY <1>2, <1>4, <3>2, <3>3
  <2>2. CASE ~ApplicationEmpty
    BY <1>3, <1>8, <2>2 DEF AdmitTarget
  <2> QED BY <2>1, <2>2
<1>9. CASE RestoreDump(q)
  <2>1. RestoreEnds(q, "restore_failed") \/ restore' = [restore EXCEPT ![q].pc = "verify"]
    BY <1>9 DEF RestoreDump
  <2>2. CASE RestoreEnds(q, "restore_failed")
    BY <1>3, <2>2
  <2>3. CASE restore' = [restore EXCEPT ![q].pc = "verify"]
    <3>1. PICK k : k = [m EXCEPT !.pc = "verify"]
      OBVIOUS
    <3>2. restore' = [restore EXCEPT ![q] = k]
      BY <1>2, <2>3, <3>1
    <3>3. k.result = m.result
      BY <3>1 DEF RestoreRecord
    <3> QED BY <1>2, <1>4, <3>2, <3>3
  <2> QED BY <2>1, <2>2, <2>3
<1>10. CASE \E c \in Contents : RestoreObject(q, c)
  <2>1. PICK c \in Contents : RestoreObject(q, c)
    BY <1>10
  <2>2. RestoreEnds(q, "integrity_failed") \/ restore' = [restore EXCEPT ![q].placed = @ \cup {c}]
    BY <2>1 DEF RestoreObject
  <2>3. CASE RestoreEnds(q, "integrity_failed")
    BY <1>3, <2>3
  <2>4. CASE restore' = [restore EXCEPT ![q].placed = @ \cup {c}]
    <3>1. PICK k : k = [m EXCEPT !.placed = m.placed \cup {c}]
      OBVIOUS
    <3>2. restore' = [restore EXCEPT ![q] = k]
      BY <1>2, <2>4, <3>1
    <3>3. k.result = m.result
      BY <3>1 DEF RestoreRecord
    <3> QED BY <1>2, <1>4, <3>2, <3>3
  <2> QED BY <2>2, <2>3, <2>4
<1>11. CASE RestoreStops(q)
  BY <1>3, <1>11 DEF RestoreStops
<1> QED BY <1>5, <1>6, <1>7, <1>8, <1>9, <1>10, <1>11

\* The restore that reports success has loaded the dump of the bundle it opened, and has
\* just read every object again.
LEMMA VerifyGraphIsTrue ==
    ASSUME RecoveryInv, NEW r \in Restores, NEW q \in Restores, VerifyGraph(q)
    PROVE  RestoredTruly(r)
<1>1. restore \in [Restores -> RestoreRecord]
  BY RestoreKnown
<1>2. target' = target /\ bundle' = bundle
  BY DEF VerifyGraph
<1>3. RestoreEnds(q, "restored") \/ RestoreEnds(q, "restore_failed")
  BY DEF VerifyGraph
<1>4. CASE q # r
  <2>1. restore'[r] = restore[r]
    BY <1>1, <1>3, <1>4 DEF RestoreEnds
  <2> QED BY <2>1 DEF RestoredTruly
<1>5. CASE q = r /\ ObjectsVerified(r)
  <2>1. restore[r].pc = "verify"
    BY <1>5 DEF VerifyGraph, RestoreAt
  <2>2. target.versions = restore[r].manifest /\ Opened(restore[r], restore[r].bundle)
    BY <2>1, RestoreKnown DEF RestoreStands
  <2>3. PICK b \in Backups : b = restore[r].bundle
    BY <2>2 DEF Opened
  <2>4. bundle[b].claimed => bundle[b].dump = restore[r].manifest
    <3>1. bundle[b] = NoBundle => ~bundle[b].claimed
      BY DEF NoBundle
    <3> QED BY <2>2, <2>3, <3>1, BackupKnown DEF Opened, DirectoryTrue, Whole
  <2>5. \A c \in target.versions : target.bucket[c] = "good"
    BY <1>5, <2>2 DEF ObjectsVerified
  <2> QED BY <1>2, <2>2, <2>3, <2>4, <2>5 DEF RestoredTruly
<1>6. CASE q = r /\ ~ObjectsVerified(r)
  <2>1. PICK m \in RestoreRecord : m = restore[r]
    BY RestoreKnown
  <2>2. RestoreEnds(r, "restore_failed")
    BY <1>6 DEF VerifyGraph
  <2>3. restore' = [restore EXCEPT ![r] = [m EXCEPT !.pc = "ended", !.result = "restore_failed"]]
    BY <2>1, <2>2 DEF RestoreEnds
  <2>4. [m EXCEPT !.pc = "ended", !.result = "restore_failed"].result = "restore_failed"
    BY <2>1 DEF RestoreRecord
  <2>5. restore'[r].result = "restore_failed"
    BY <1>1, <2>3, <2>4
  <2> QED BY <2>5 DEF RestoredTruly
<1> QED BY <1>4, <1>5, <1>6

\* Only a running backup moves or removes the files of its bundle.
LEMMA OthersKeepFiles ==
    ASSUME RecoveryInv, NEW b \in Backups, NEW c \in Backups, ~Running(b),
           BackupStep(c) \/ BackupFails(c) \/ BackupDies(c) \/ SessionEnds(c) \/ BundleRots(c)
    PROVE  bundle'[b].final = bundle[b].final
<1>1. bundle \in [Backups -> BundleRecord]
  BY BackupKnown
<1>2. PICK n \in BundleRecord : n = bundle[c]
  BY BackupKnown
<1>3. CASE BundleRots(c)
  <2>1. CASE bundle' = [bundle EXCEPT ![c].dumpGood = FALSE]
    <3>1. PICK d : d = [n EXCEPT !.dumpGood = FALSE]
      OBVIOUS
    <3>2. d.final = n.final
      BY <3>1 DEF BundleRecord
    <3>3. bundle' = [bundle EXCEPT ![c] = d]
      BY <1>2, <2>1, <3>1
    <3> QED BY <1>1, <1>2, <3>2, <3>3
  <2>2. CASE \E o \in bundle[c].objects \ bundle[c].rotten :
                bundle' = [bundle EXCEPT ![c].rotten = @ \cup {o}]
    <3>1. PICK o : bundle' = [bundle EXCEPT ![c].rotten = @ \cup {o}]
      BY <2>2
    <3>2. PICK d : d = [n EXCEPT !.rotten = n.rotten \cup {o}]
      OBVIOUS
    <3>3. d.final = n.final
      BY <3>2 DEF BundleRecord
    <3>4. bundle' = [bundle EXCEPT ![c] = d]
      BY <1>2, <3>1, <3>2
    <3> QED BY <1>1, <1>2, <3>3, <3>4
  <2> QED BY <1>3, <2>1, <2>2 DEF BundleRots
<1>4. CASE BackupStep(c) /\ backup[c].pc = "idle"
  <2>1. bundle' = bundle
    BY <1>4 DEF BackupStep, BackupCommand, LockAndSnapshot, CreateStaging, CreateDump, ObservePending,
                CopyObject, WriteManifest, ClaimFinal, MoveEntry, FinishBackup, At
  <2> QED BY <2>1
<1>5. CASE BackupDies(c) \/ SessionEnds(c)
  BY <1>5 DEF BackupDies, SessionEnds
<1>6. CASE (BackupStep(c) /\ backup[c].pc # "idle") \/ BackupFails(c)
  <2>1. Running(c)
    BY <1>6 DEF Running, BackupFails, BackupStep, BackupCommand, LockAndSnapshot, CreateStaging, CreateDump,
                ObservePending, CopyObject, WriteManifest, ClaimFinal, MoveEntry, FinishBackup, At
  <2>2. b # c
    BY <2>1
  <2>3. BackupStep(c) \/ BackupFails(c)
    BY <1>6
  <2>4. bundle'[b] = bundle[b]
    BY <1>1, <2>2, <2>3 DEF BackupFails, BackupStep, BackupCommand, LockAndSnapshot, CreateStaging,
          CreateDump, ObservePending, CopyObject, WriteManifest, ClaimFinal, MoveEntry, FinishBackup, Abandoned
  <2> QED BY <2>4
<1> QED BY <1>3, <1>4, <1>5, <1>6

LEMMA StepsTrue ==
    ASSUME RecoveryInv, [Next]_vars
    PROVE  /\ \A r \in Restores : RestoredTruly(r)
           /\ \A b \in Backups : PublishedStays(b)
<1>1. CASE UNCHANGED <<bundle, restore>>
  BY <1>1 DEF RestoredTruly, PublishedStays
<1>2. CASE \E b \in Backups : BackupStep(b) \/ BackupFails(b) \/ BackupDies(b) \/ SessionEnds(b) \/ BundleRots(b)
  <2>1. PICK c \in Backups : BackupStep(c) \/ BackupFails(c) \/ BackupDies(c) \/ SessionEnds(c) \/ BundleRots(c)
    BY <1>2
  <2>2. restore' = restore
    BY <2>1 DEF BackupStep, BackupFails, BackupDies, SessionEnds, BundleRots, BackupCommand, LockAndSnapshot,
                CreateStaging, CreateDump, ObservePending, CopyObject, WriteManifest, ClaimFinal, MoveEntry,
                FinishBackup, World
  <2>3. \A r \in Restores : RestoredTruly(r)
    BY <2>2 DEF RestoredTruly
  <2>4. \A b \in Backups : PublishedStays(b)
    BY <2>1, OthersKeepFiles DEF PublishedStays
  <2> QED BY <2>3, <2>4
<1>3. CASE \E r \in Restores : RestoreStep(r) \/ RestoreStops(r)
  <2>1. PICK q \in Restores : RestoreStep(q) \/ RestoreStops(q)
    BY <1>3
  <2>2. bundle' = bundle
    BY <2>1 DEF RestoreStep, RestoreStops, RestoreCommand, VerifyBundle, OpenVerified, AdmitTarget, RestoreDump,
                VerifyGraph, RestoreObject
  <2>3. \A b \in Backups : PublishedStays(b)
    BY <2>2 DEF PublishedStays
  <2>4. ASSUME NEW r \in Restores PROVE RestoredTruly(r)
    <3>1. CASE VerifyGraph(q)
      BY <3>1, VerifyGraphIsTrue
    <3>2. CASE ~VerifyGraph(q)
      <4>1. restore'[r].result = restore[r].result \/ restore'[r].result # "restored"
        BY <2>1, <3>2, OthersReportNothing DEF RestoreStep
      <4> QED BY <4>1 DEF RestoredTruly
    <3> QED BY <3>1, <3>2
  <2> QED BY <2>3, <2>4
<1>4. CASE (\E w \in Writers : StoreObject(w) \/ GetLock(w) \/ CommitVersion(w))
           \/ (\E c \in Contents : ObjectRots(c) \/ TargetObjectRots(c)) \/ UNCHANGED vars
  <2>1. UNCHANGED <<bundle, restore>>
    BY <1>4 DEF StoreObject, GetLock, CommitVersion, ObjectRots, TargetObjectRots, vars
  <2> QED BY <1>1, <2>1
<1> QED BY <1>1, <1>2, <1>3, <1>4 DEF Next, Quiet

\* A restore that reports success put exactly the versions of its bundle and the bytes of
\* each on the target, whoever else restored there, and the program never changes a
\* verified bundle whose backup has ended.
THEOREM RecoveryStepsHold == Spec => RecoverySteps
<1>1. RecoveryInv /\ [Next]_vars
        => /\ \A r \in Restores : RestoredTruly(r)
           /\ \A b \in Backups : PublishedStays(b)
  BY StepsTrue
<1>2. (\A r \in Restores : RestoredTruly(r))
        => \A r \in Restores :
              (restore'[r].result = "restored" /\ restore[r].result # "restored") =>
                 /\ target'.versions = restore[r].manifest
                 /\ bundle[restore[r].bundle].claimed => target'.versions = bundle[restore[r].bundle].dump
                 /\ \A c \in target'.versions : target'.bucket[c] = "good"
  BY DEF RestoredTruly
<1>3. (\A b \in Backups : PublishedStays(b))
        => \A b \in Backups : (VerifyOffline(b) /\ ~Running(b)) => bundle'[b].final = bundle[b].final
  BY DEF PublishedStays
<1> QED BY <1>1, <1>2, <1>3, RecoveryInvHolds, PTL DEF Spec, RecoverySteps, RestoreTrue, PublishedForGood
===============================================================================
