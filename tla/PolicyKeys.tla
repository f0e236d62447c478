----------------------------- MODULE PolicyKeys -----------------------------
(***************************************************************************)
(* The signing keys of published exclusion policies.  An operator's        *)
(* commands initialise, stage, activate and retire keys; each appends one  *)
(* signed keyset revision.  The API signs every published snapshot with    *)
(* the key it loaded when it started, and a plugin follows the chain of    *)
(* keysets from the first revision it trusted.                             *)
(*                                                                         *)
(* The code is exclusion_policy_commands.py, policy_keysets.py,            *)
(* signatures.py, exclusion_policy_settings.py, the plugin reads of        *)
(* exclusion_policy_composition.py, and the plugin's keyset.ts and         *)
(* policy-session.ts.  A key is its own file name, key identity and public *)
(* key; a signature is the key that made it.                               *)
(***************************************************************************)
EXTENDS Naturals, Sequences, FiniteSets

CONSTANTS Keys,         \* signing keys, named by their key files
          Runs,         \* command processes that run at the same time
          MaxKeysets,   \* bound on keyset revisions
          MaxCommands,  \* bound on commands started
          MaxSnapshots, \* bound on published snapshots
          MaxFaults     \* bound on crashes and lost answers

VARIABLES keysets,    \* policy_keysets with their signatures, revision order
          keyRows,    \* policy_signing_keys: the row identity of each key, or 0
          files,      \* the key files under the secret root
          snapshots,  \* the signing key of each published snapshot
          runs,       \* the commands being run
          device,     \* one plugin: its trusted keyset, snapshot and state
          commands,   \* commands started so far
          faults      \* faults so far

vars == <<keysets, keyRows, files, snapshots, runs, device,
          commands, faults>>

Fault == faults < MaxFaults /\ faults' = faults + 1
Idle == [pc |-> "idle"]
MaxNonRetired == 4

-----------------------------------------------------------------------------
(* Planning the next keyset                                                *)

Latest == Len(keysets)
NoKeys == [k \in Keys |-> "none"]
ViewOf(n) == IF n = 0 THEN NoKeys ELSE keysets[n].keys

StateOf(view, k) == view[k]
Having(view, state) == {k \in Keys : view[k] = state}
CurrentKey(view) == Having(view, "current")
StagedKeys(view) == Having(view, "staged")

PlanInitialized(k) == [NoKeys EXCEPT ![k] = "current"]

\* One staged key at a time, and never a key the workspace has known.
CanStage(view, k) == StateOf(view, k) = "none" /\ StagedKeys(view) = {}
PlanStaged(view, k) == [view EXCEPT ![k] = "staged"]

\* The previous current key stays in the keyset as a staged one.
CanActivate(view, k) == StateOf(view, k) = "staged"
PlanActivated(view, k) ==
    [j \in Keys |-> IF view[j] = "current" THEN "staged"
                    ELSE IF j = k THEN "current" ELSE view[j]]

CanRetire(view, k) == StateOf(view, k) = "staged"
PlanRetired(view, k) == [view EXCEPT ![k] = "retired"]

SignerCurrent(view, k) == CurrentKey(view) = {k}

PayloadValid(keys) ==
    /\ Cardinality(CurrentKey(keys)) <= 1
    /\ Cardinality({k \in Keys : keys[k] \in {"current", "staged"}}) <= MaxNonRetired

CrossSigned(required, signers) == required \subseteq signers

\* The signed revision a command wants to append; a key without a row gets a
\* fresh row identity, here the identity of the envelope.
Envelope(id, revision, keys, signers, rows) ==
    [id |-> id, revision |-> revision, keys |-> keys, signers |-> signers,
     rows |-> [k \in Keys |-> IF keys[k] = "none" THEN 0
                              ELSE IF rows[k] # 0 THEN rows[k] ELSE id]]

-----------------------------------------------------------------------------
(* Appending a revision                                                    *)

Taken(envelope) == envelope.revision <= Latest

Replays(envelope) ==
    /\ Taken(envelope)
    /\ keysets[envelope.revision].id = envelope.id
    /\ keysets[envelope.revision].keys = envelope.keys

\* The insert ignores a row it finds under its own identity; the unique public
\* key refuses a second row for the same key.
RowAccepted(envelope, k) ==
    envelope.keys[k] # "none" => keyRows[k] \in {0, envelope.rows[k]}

EnsureRows(envelope) ==
    [k \in Keys |-> IF envelope.keys[k] = "none" THEN keyRows[k] ELSE envelope.rows[k]]

Stored(envelope) ==
    [id |-> envelope.id, keys |-> envelope.keys, signers |-> envelope.signers]

AppendRevision(envelope) ==
    /\ keysets' = Append(keysets, Stored(envelope))
    /\ keyRows' = EnsureRows(envelope)

End(r, result) == runs' = [runs EXCEPT ![r] = [pc |-> "ended", result |-> result]]

Outcome(run, revision) ==
    [said |-> run.op, key |-> run.key, revision |-> revision]

Refused == [said |-> "refused"]

\* One attempt of the append transaction.
AppendOnce(r) ==
    LET run == runs[r]
        envelope == run.envelope
    IN  /\ run.pc = "append"
        /\ IF Taken(envelope)
           THEN /\ End(r, IF Replays(envelope) THEN Outcome(run, envelope.revision) ELSE Refused)
                /\ UNCHANGED <<keysets, keyRows, faults>>
           ELSE IF \E k \in Keys : ~RowAccepted(envelope, k)
           THEN End(r, Refused) /\ UNCHANGED <<keysets, keyRows, faults>>
           ELSE \/ /\ AppendRevision(envelope)
                   /\ End(r, Outcome(run, envelope.revision))
                   /\ UNCHANGED faults
                \/ /\ Fault
                   /\ AppendRevision(envelope) \/ UNCHANGED <<keysets, keyRows>>
                   /\ runs' = [runs EXCEPT ![r].pc = "unknown"]
        /\ UNCHANGED <<files, snapshots, device, commands>>

Recovered(envelope) == Replays(envelope)

\* The commit's answer was lost: look for the revision, else append again.
RecoverAppend(r) ==
    LET run == runs[r] IN
    /\ run.pc = "unknown"
    /\ IF Recovered(run.envelope) THEN End(r, Outcome(run, run.envelope.revision))
       ELSE runs' = [runs EXCEPT ![r].pc = "append"]
    /\ UNCHANGED <<keysets, keyRows, files, snapshots, device,
                   commands, faults>>

-----------------------------------------------------------------------------
(* The commands                                                            *)

FileExists(k) == files[k] # "absent"

\* A file that was created and never written does not parse as a key.
KeyFileLoads(k) == files[k] = "written"

\* Every process has its own environment, which names the signer's key file.
LoadSigner(k) == KeyFileLoads(k)

\* A command starts with the first read of load_policy_keyset_state.
StartCommand(r) ==
    /\ runs[r] = Idle
    /\ commands < MaxCommands
    /\ \E op \in {"initialize", "stage", "activate", "retire"}, k, by \in Keys :
          /\ IF op = "initialize" THEN by = k ELSE LoadSigner(by)
          /\ runs' = [runs EXCEPT ![r] = [pc |-> "record", op |-> op, key |-> k, by |-> by,
                                          revision |-> Latest]]
    /\ commands' = commands + 1
    /\ UNCHANGED <<keysets, keyRows, files, snapshots, device, faults>>

\* The second read: the row identity of every key.  A known key has a row.
RowsComplete(revision) == \A k \in Keys : ViewOf(revision)[k] # "none" => keyRows[k] # 0

CreatesFile(run) == run.op = "stage" \/ (run.op = "initialize" /\ run.revision = 0)

\* What a command does with the keyset it read: repeat an earlier outcome,
\* refuse, or plan the next revision.
Initialize(run, view) ==
    IF run.revision = 0 THEN [do |-> "append", keys |-> PlanInitialized(run.key),
                              signers |-> {run.key}]
    ELSE IF run.revision = 1 /\ SignerCurrent(view, run.key)
    THEN [do |-> "repeat"] ELSE [do |-> "refuse"]

Stage(run, view) ==
    IF StateOf(view, run.key) = "staged" THEN [do |-> "repeat"]
    ELSE IF SignerCurrent(view, run.by) /\ CanStage(view, run.key)
    THEN [do |-> "append", keys |-> PlanStaged(view, run.key), signers |-> {run.by, run.key}]
    ELSE [do |-> "refuse"]

Activate(run, view) ==
    IF StateOf(view, run.key) = "current" THEN [do |-> "repeat"]
    ELSE IF SignerCurrent(view, run.by) /\ CanActivate(view, run.key)
    THEN [do |-> "append", keys |-> PlanActivated(view, run.key), signers |-> {run.by, run.key}]
    ELSE [do |-> "refuse"]

Retire(run, view) ==
    IF ~SignerCurrent(view, run.by) THEN [do |-> "refuse"]
    ELSE IF StateOf(view, run.key) = "retired" THEN [do |-> "repeat"]
    ELSE IF CanRetire(view, run.key)
    THEN [do |-> "append", keys |-> PlanRetired(view, run.key), signers |-> {run.by}]
    ELSE [do |-> "refuse"]

Required(run) == IF run.op \in {"stage", "activate"} THEN {run.by, run.key} ELSE {}

Decision(run) ==
    LET view == ViewOf(run.revision) IN
    CASE run.op = "initialize" -> Initialize(run, view)
      [] run.op = "stage" -> Stage(run, view)
      [] run.op = "activate" -> Activate(run, view)
      [] run.op = "retire" -> Retire(run, view)

\* A process plans one revision once, so the pair is a fresh identity.
FreshId(r, revision) == 10 * revision + r

Planned(r, run, rows) ==
    LET plan == Decision(run) IN
    IF plan.do = "repeat" THEN [pc |-> "ended", result |-> Outcome(run, run.revision)]
    ELSE IF plan.do = "refuse" THEN [pc |-> "ended", result |-> Refused]
    ELSE IF ~PayloadValid(plan.keys) \/ ~CrossSigned(Required(run), plan.signers)
    THEN [pc |-> "ended", result |-> Refused]
    ELSE [pc |-> "append", op |-> run.op, key |-> run.key,
          envelope |-> Envelope(FreshId(r, run.revision + 1), run.revision + 1,
                                plan.keys, plan.signers, rows)]

\* The rows are read, the key file is opened or created, the command planned.
OpenKeyFile(r) ==
    LET run == runs[r] IN
    /\ run.pc = "record"
    /\ run.revision < MaxKeysets
    /\ IF ~RowsComplete(run.revision) \/ (run.op # "initialize" /\ run.revision = 0)
       THEN End(r, Refused) /\ UNCHANGED files
       ELSE IF run.op = "retire" \/ KeyFileLoads(run.key)
       THEN runs' = [runs EXCEPT ![r] = Planned(r, run, keyRows)] /\ UNCHANGED files
       ELSE IF CreatesFile(run) /\ ~FileExists(run.key)
       THEN /\ files' = [files EXCEPT ![run.key] = "empty"]
            /\ runs' = [runs EXCEPT ![r] = [pc |-> "writing", op |-> run.op, key |-> run.key,
                                            by |-> run.by, revision |-> run.revision,
                                            rows |-> keyRows]]
       ELSE End(r, Refused) /\ UNCHANGED files
    /\ UNCHANGED <<keysets, keyRows, snapshots, device, commands, faults>>

WriteKeyFile(r) ==
    /\ runs[r].pc = "writing"
    /\ files' = [files EXCEPT ![runs[r].key] = "written"]
    /\ runs' = [runs EXCEPT ![r] = Planned(r, runs[r], runs[r].rows)]
    /\ UNCHANGED <<keysets, keyRows, snapshots, device, commands, faults>>

\* The exit code and the printed outcome.
FinishCommand(r) ==
    /\ runs[r].pc = "ended"
    /\ runs' = [runs EXCEPT ![r] = Idle]
    /\ UNCHANGED <<keysets, keyRows, files, snapshots, device,
                   commands, faults>>

\* The process is killed between two of its steps.
CrashCommand(r) ==
    /\ runs[r].pc \notin {"idle", "ended"}
    /\ Fault
    /\ runs' = [runs EXCEPT ![r] = Idle]
    /\ UNCHANGED <<keysets, keyRows, files, snapshots, device, commands>>

-----------------------------------------------------------------------------
(* The API process and publication                                         *)

\* Publication only asks that a row for the signer's key exists.
SigningRowResolves(k) == keyRows[k] # 0

\* The API starts with a key only while that key is the current one.
StartedWith(k) == \E n \in 1 .. Latest : SignerCurrent(ViewOf(n), k)

\* The API signs with the key it loaded when it started, whatever the keyset
\* says of that key by now.
PublishSnapshot ==
    /\ Len(snapshots) < MaxSnapshots
    /\ \E k \in Keys : /\ LoadSigner(k)
                       /\ StartedWith(k)
                       /\ SigningRowResolves(k)
                       /\ snapshots' = Append(snapshots, k)
    /\ UNCHANGED <<keysets, keyRows, files, runs, device, commands, faults>>

-----------------------------------------------------------------------------
(* The plugin                                                              *)

NonRetired(keys, k) == keys[k] \in {"current", "staged"}

\* A rotation needs a signature by a key that was trusted and stays in force,
\* and one by the new current key.
AcceptRotation(trusted, next) ==
    /\ \E k \in next.signers : NonRetired(trusted.keys, k) /\ NonRetired(next.keys, k)
    /\ CurrentKey(next.keys) \subseteq next.signers

SelfSigned(first) == CurrentKey(first.keys) # {} /\ CurrentKey(first.keys) \subseteq first.signers

\* The pages of revisions after a cursor, up to the latest one.
KeysetPage(after) == {n \in 1 .. Latest : n > after}

\* The pages after a revision, verified one rotation after the other.
ChainVerifies(from) ==
    /\ from = 0 => KeysetPage(0) # {} /\ SelfSigned(keysets[1])
    /\ \A n \in KeysetPage(from) : n > 1 => AcceptRotation(keysets[n - 1], keysets[n])

ActiveSnapshot == Len(snapshots)

\* A key of any state in the trusted keyset verifies a snapshot.
Resolves(revision, snapshot) == ViewOf(revision)[snapshots[snapshot]] # "none"

AcquisitionFailed(by) == [device EXCEPT !.state = "integrity_failed", !.by = by, !.pc = "idle"]

Accepted(revision, snapshot) ==
    [device EXCEPT !.trusted = revision, !.snapshot = snapshot, !.state = "ready", !.pc = "idle"]

\* Onboarding reads the whole chain first and the snapshot in a later request.
OnboardKeysets ==
    /\ device.pc = "idle"
    /\ device.trusted = 0
    /\ device' = IF ChainVerifies(0)
                 THEN [device EXCEPT !.pc = "onboarding", !.read = Latest]
                 ELSE AcquisitionFailed("onboarding")
    /\ UNCHANGED <<keysets, keyRows, files, snapshots, runs, commands, faults>>

OnboardSnapshot ==
    /\ device.pc = "onboarding"
    /\ device' = IF ActiveSnapshot = 0 THEN [device EXCEPT !.state = "not_initialized", !.pc = "idle"]
                 ELSE IF Resolves(device.read, ActiveSnapshot)
                 THEN Accepted(device.read, ActiveSnapshot)
                 ELSE AcquisitionFailed("onboarding")
    /\ UNCHANGED <<keysets, keyRows, files, snapshots, runs, commands, faults>>

\* A refresh reads the snapshot first, and the chain only for an unknown key.
RefreshSnapshot ==
    /\ device.pc = "idle"
    /\ device.trusted # 0
    /\ device.state # "integrity_failed"
    /\ ActiveSnapshot # device.snapshot
    /\ device' = [device EXCEPT !.pc = "refreshing", !.read = ActiveSnapshot]
    /\ UNCHANGED <<keysets, keyRows, files, snapshots, runs, commands, faults>>

RefreshKeysets ==
    /\ device.pc = "refreshing"
    /\ device' = IF Resolves(device.trusted, device.read)
                 THEN Accepted(device.trusted, device.read)
                 ELSE IF ChainVerifies(device.trusted) /\ Resolves(Latest, device.read)
                 THEN Accepted(Latest, device.read)
                 ELSE AcquisitionFailed("refresh")
    /\ UNCHANGED <<keysets, keyRows, files, snapshots, runs, commands, faults>>

-----------------------------------------------------------------------------
Init ==
    /\ keysets = <<>>
    /\ keyRows = [k \in Keys |-> 0]
    /\ files = [k \in Keys |-> "absent"]
    /\ snapshots = <<>>
    /\ runs = [r \in Runs |-> Idle]
    /\ device = [pc |-> "idle", trusted |-> 0, snapshot |-> 0, read |-> 0,
                 state |-> "not_initialized", by |-> "none"]
    /\ commands = 0
    /\ faults = 0

Command ==
    \E r \in Runs : StartCommand(r) \/ OpenKeyFile(r) \/ WriteKeyFile(r)
                    \/ AppendOnce(r) \/ RecoverAppend(r)
                    \/ FinishCommand(r) \/ CrashCommand(r)

Plugin == OnboardKeysets \/ OnboardSnapshot \/ RefreshSnapshot \/ RefreshKeysets

Quiet == UNCHANGED vars

Next == Command \/ PublishSnapshot \/ Plugin \/ Quiet

Spec == Init /\ [][Next]_vars

-----------------------------------------------------------------------------
(* Properties                                                              *)

KeyState == {"none", "staged", "current", "retired"}

\* Every keyset revision is one of the workspace's keys in one of their states
\* with at least one signer, and the plugin trusts a revision that exists.
TypeOK ==
    /\ \A n \in 1 .. Latest : /\ keysets[n].keys \in [Keys -> KeyState]
                              /\ keysets[n].signers \in SUBSET Keys \ {{}}
    /\ files \in [Keys -> {"absent", "empty", "written"}]
    /\ device.trusted \in 0 .. Latest
    /\ device.snapshot \in 0 .. Len(snapshots)

\* Whatever commands ran, crashed or raced, every revision the store holds is
\* accepted by a plugin that trusts the one before (acceptRotation), so a plugin
\* that was away for any number of rotations reaches the latest keyset.
ChainWalkable == Latest > 0 => ChainVerifies(0)

\* The workspace can always rotate again: exactly one key is current, and every
\* key in force has its private key on disk, whatever crashed while it was made.
RotationPossible ==
    Latest > 0 =>
       /\ Cardinality(CurrentKey(ViewOf(Latest))) = 1
       /\ \A k \in Keys : NonRetired(ViewOf(Latest), k) => files[k] = "written"

\* The outcome a command prints is what the keyset of that revision says, also
\* when the commit's answer was lost and another command took the revision.
OutcomeTrue ==
    \A r \in Runs :
       (runs[r].pc = "ended" /\ runs[r].result.said # "refused") =>
          LET result == runs[r].result IN
          result.revision <= Latest /\
          StateOf(ViewOf(result.revision), result.key) =
             CASE result.said = "stage" -> "staged"
               [] result.said = "retire" -> "retired"
               [] OTHER -> "current"

\* A plugin that was onboarded never takes an honest server for a tampered one
\* when it refreshes, however rotations and publications fall between its reads.
RefreshNeverAccuses == device.state = "integrity_failed" => device.by = "onboarding"

Forward == [none |-> KeyState, staged |-> {"staged", "current", "retired"},
            current |-> {"current", "staged"}, retired |-> {"retired"}]

\* From one keyset to the next a key never comes back from retirement, is never
\* forgotten, and is never retired while it is current: two commands that planned
\* from the same revision cannot both append.
KeysMoveForward ==
    [][\A k \in Keys : ViewOf(Latest)'[k] \in Forward[ViewOf(Latest)[k]]]_vars

\* A plugin reaches the latest keyset from any it trusts, the workspace can rotate
\* again, a command prints what it did, and no refresh accuses an honest server.
KeysSafe == TypeOK /\ ChainWalkable /\ RotationPossible /\ OutcomeTrue /\ RefreshNeverAccuses
=============================================================================
